---------------------------- MODULE EbOpenProofs ----------------------------
(***************************************************************************)
(* Theorems about EbOpen: its state keeps its types, nothing leaks, and    *)
(* the two ends of a connection agree on the widths.                       *)
(*                                                                         *)
(* The kind of an item says who must hold it, so that no item can be held  *)
(* twice by different holders; what is left to show is that each holder    *)
(* holds exactly the items of its kind, and none of them twice.  That is   *)
(* said of one node (Node), by its pool, its socket, the link of the       *)
(* running eb_socket_check and the connections it has open, and shown for  *)
(* each thing that the code does to these four.                            *)
(*                                                                         *)
(* The agreement is said of what is seen of a device (Seen): of each alone *)
(* (Sound), and of the devices and messages of a connection (Pair).  A     *)
(* step of a node changes few of its devices and of the messages; on the   *)
(* others the agreement stays (AgreeStays), and the lemma of each action   *)
(* is about those few.                                                     *)
(***************************************************************************)
EXTENDS EbOpen, QueueLemmas

-----------------------------------------------------------------------------
(* Types.                                                                  *)

Msgs == [t : {"probe", "resp", "data"}, w : WidthSet, tag : Nat]
Datagrams == [from : Nodes, to : Nodes, msg : Msgs]
Plain == [is : {"free", "socket", "aux"}]
Transports == [is : {"transport"}, kind : AllKinds]
Links == [is : {"link"}, conn : Nat]
Devs == [is : {"device"}, link : Nat, passive : BOOLEAN, widths : WidthSet, kind : AllKinds, to : Nodes]
Items == Plain \cup Transports \cup Links \cup Devs
Pools == [free : Seq(Nat), heap : Seq(Items)]
Socks == [self : Nat, aux : Nat, trans : Seq(Nat), devs : Seq(Nat)]
Apps == [pc : {"idle", "probe"}, dev : Nat, want : WidthSet, tries : Nat]
Checks == [pc : {"no", "start", "transports", "devices"}, link : Nat, todo : Seq(Nat), at : Nat, next : Nat]
Conns == [kind : {"dev", "tcp"}, by : Nodes, to : Nodes, ends : SUBSET Nodes, in : BOOLEAN,
          q : [Nodes -> Seq(Msgs)]]

Types ==
  /\ mem \in [Nodes -> Pools] /\ sock \in [Nodes -> Socks] /\ app \in [Nodes -> Apps] /\ chk \in [Nodes -> Checks]
  /\ udp \in SUBSET Datagrams /\ conns \in Seq(Conns)

-----------------------------------------------------------------------------
(* The items of a node.                                                    *)

\* The items of a kind.
Are(m, kind) == {i \in DOMAIN m.heap : m.heap[i].is = kind}
\* The free list has the free items.
FreeOk(m) == m \in Pools /\ IsInjective(m.free) /\ Range(m.free) = Are(m, "free")
LinkOf(m, d) == m.heap[d].link
ConnAt(m, d) == IF LinkOf(m, d) = 0 THEN 0 ELSE m.heap[LinkOf(m, d)].conn

\* Each holder of items of pool m holds those of its kind, once: a socket s, its
\* devices and transports, and eb_socket_check the link l.
Parts(m, s, l) ==
  /\ IsInjective(s.trans) /\ Range(s.trans) = Are(m, "transport")
  /\ IsInjective(s.devs) /\ Range(s.devs) = Are(m, "device")
  /\ {s.self} \ {0} = Are(m, "socket") /\ {s.aux} \ {0} = Are(m, "aux")
  /\ ({l} \cup {LinkOf(m, d) : d \in Range(s.devs)}) \ {0} = Are(m, "link")
  /\ \A d, e \in Range(s.devs) : LinkOf(m, d) = LinkOf(m, e) /\ LinkOf(m, d) # 0 => d = e
  /\ \A d \in Range(s.devs) : LinkOf(m, d) = l => l = 0
  /\ l # 0 => m.heap[l] = Link(0)
\* The connections that devices of the node have are those that are open, E.
Wired(m, s, E) ==
  /\ {ConnAt(m, d) : d \in Range(s.devs)} \ {0} = E
  /\ \A d, e \in Range(s.devs) : ConnAt(m, d) = ConnAt(m, e) /\ ConnAt(m, d) # 0 => d = e
Node(m, s, l, E) == FreeOk(m) /\ s \in Socks /\ l \in Nat /\ Parts(m, s, l) /\ Wired(m, s, E)

\* The connections that node n has open.
EndsIn(cs, n) == {k \in DOMAIN cs : n \in cs[k].ends}
NodeAt(n) == Node(mem[n], sock[n], chk[n].link, EndsIn(conns, n))
PoolInv == \A n \in Nodes : NodeAt(n)

-----------------------------------------------------------------------------
(* Where a node is, and what connections there are.                        *)

\* Device at is in the list, and next is the one after it.
IsNext(s, at, next) == \E j \in DOMAIN s : s[j] = at /\ next = IF j < Len(s) THEN s[j + 1] ELSE 0
\* A node that has no socket runs nothing; one that runs eb_socket_check is at a device of
\* its list; one that waits for an answer has the device that asked.
Flow(n) ==
  /\ sock[n].self = 0 => sock[n] = Closed /\ app[n].pc = "idle" /\ chk[n].pc = "no"
  /\ sock[n].self # 0 => sock[n].aux # 0
  /\ chk[n].pc \in {"no", "start"} => chk[n].link = 0
  /\ chk[n].at = 0 => chk[n].next = 0
  /\ chk[n].at # 0 => chk[n].pc = "devices" /\ IsNext(sock[n].devs, chk[n].at, chk[n].next)
  /\ app[n].pc = "probe" => /\ app[n].dev \in Range(sock[n].devs) /\ ~Item(n, app[n].dev).passive
                            /\ app[n].tries > 0
FlowInv == \A n \in Nodes : Flow(n)

\* A connection that was not accepted yet has one end; two nodes have a line.
Apart(cs) == \A k \in DOMAIN cs : /\ cs[k].by # cs[k].to
                                  /\ ~cs[k].in => cs[k].kind = "tcp" /\ cs[k].to \notin cs[k].ends
Lines(cs) ==
  \A a, b \in Nodes : a # b => \E k \in DOMAIN cs : cs[k].kind = "dev" /\ {cs[k].by, cs[k].to} = {a, b}
ConnInv == Apart(conns) /\ Lines(conns)

OpenInv == Types /\ PoolInv /\ FlowInv /\ ConnInv

-----------------------------------------------------------------------------
(* Taking items of a pool and giving them back.                            *)

\* What kind of record an item is.
LEMMA ItemIs ==
  ASSUME NEW x \in Items
  PROVE  /\ x.is \in {"free", "socket", "aux", "transport", "link", "device"}
         /\ x.is = "device" <=> x \in Devs
         /\ x.is = "link" <=> x \in Links
         /\ x.is = "transport" <=> x \in Transports
BY DEF Items, Plain, Transports, Links, Devs

\* A pool's free list and its items.
LEMMA PoolIs ==
  ASSUME NEW m, FreeOk(m)
  PROVE  /\ m \in Pools /\ m.free \in Seq(Nat) /\ m.heap \in Seq(Items)
         /\ Len(m.heap) \in Nat /\ DOMAIN m.heap = 1 .. Len(m.heap) /\ 0 \notin DOMAIN m.heap
         /\ Len(m.free) \in Nat /\ DOMAIN m.free = 1 .. Len(m.free)
         /\ \A i \in DOMAIN m.heap : m.heap[i] \in Items /\ i \in Nat /\ i # 0
         /\ \A i \in 1 .. Len(m.free) : m.free[i] \in DOMAIN m.heap /\ m.heap[m.free[i]].is = "free"
<1>1. m \in Pools
      BY DEF FreeOk
<1>2. m.free \in Seq(Nat) /\ m.heap \in Seq(Items)
      BY <1>1 DEF Pools
<1>3. /\ Len(m.heap) \in Nat /\ DOMAIN m.heap = 1 .. Len(m.heap)
      /\ Len(m.free) \in Nat /\ DOMAIN m.free = 1 .. Len(m.free)
      /\ \A i \in 1 .. Len(m.heap) : m.heap[i] \in Items
      BY <1>2, LenProperties
<1>4. ASSUME NEW i \in 1 .. Len(m.free) PROVE m.free[i] \in DOMAIN m.heap /\ m.heap[m.free[i]].is = "free"
  <2>1. m.free[i] \in Range(m.free)
        BY <1>3 DEF Range
  <2>. QED BY <2>1 DEF FreeOk, Are
<1>. QED BY <1>1, <1>2, <1>3, <1>4

\* eb_new_memory_item: the item at the head of the free list becomes x.
LEMMA NewIs ==
  ASSUME NEW m, FreeOk(m), ~Full(m), NEW x \in Items, x.is # "free"
  PROVE  /\ FreeOk(New(m, x)) /\ DOMAIN New(m, x).heap = DOMAIN m.heap
         /\ Fresh(m) \in DOMAIN m.heap /\ m.heap[Fresh(m)].is = "free" /\ Fresh(m) = m.free[1]
         /\ New(m, x).heap[Fresh(m)] = x
         /\ \A i \in DOMAIN m.heap : i # Fresh(m) => New(m, x).heap[i] = m.heap[i]
         /\ New(m, x).free = Tail(m.free) /\ Len(New(m, x).free) = Len(m.free) - 1
         /\ \A i \in 1 .. Len(m.free) - 1 : New(m, x).free[i] = m.free[i + 1]
<1>. DEFINE h == [m.heap EXCEPT ![Fresh(m)] = x]
<1>1. /\ m.free \in Seq(Nat) /\ m.heap \in Seq(Items) /\ DOMAIN m.heap = 1 .. Len(m.heap) /\ Len(m.heap) \in Nat
      /\ Len(m.free) \in Nat /\ DOMAIN m.free = 1 .. Len(m.free)
      /\ \A i \in 1 .. Len(m.free) : m.free[i] \in DOMAIN m.heap /\ m.heap[m.free[i]].is = "free"
      BY PoolIs, Zenon
<1>2. m.free # <<>> /\ Len(m.free) # 0
      BY <1>1, EmptySeq DEF Full
<1>3. Fresh(m) = m.free[1]
      BY <1>2, <1>1 DEF Fresh
<1>4. Fresh(m) \in DOMAIN m.heap /\ m.heap[Fresh(m)].is = "free"
      BY <1>1, <1>2, <1>3
<1>5. h \in Seq(Items) /\ DOMAIN h = DOMAIN m.heap /\ h[Fresh(m)] = x
      /\ \A i \in DOMAIN m.heap : i # Fresh(m) => h[i] = m.heap[i]
      BY <1>1, <1>4
<1>6. /\ Tail(m.free) \in Seq(Nat) /\ Len(Tail(m.free)) = Len(m.free) - 1
      /\ \A i \in 1 .. Len(m.free) - 1 : Tail(m.free)[i] = m.free[i + 1]
      BY <1>1, <1>2, HeadTailProperties
<1>7. New(m, x).free = Tail(m.free) /\ New(m, x).heap = h /\ New(m, x) \in Pools
      BY <1>5, <1>6 DEF New, Pools
<1>8. DOMAIN Tail(m.free) = 1 .. Len(m.free) - 1
      BY <1>6, LenProperties
<1>9. IsInjective(m.free) /\ Range(m.free) = Are(m, "free")
      BY DEF FreeOk
<1>10. IsInjective(Tail(m.free))
  <2>1. ASSUME NEW i \in 1 .. Len(m.free) - 1, NEW j \in 1 .. Len(m.free) - 1, m.free[i + 1] = m.free[j + 1]
        PROVE  i = j
    <3>1. i + 1 \in DOMAIN m.free /\ j + 1 \in DOMAIN m.free
          BY <1>1
    <3>2. i + 1 = j + 1
          BY <1>9, <2>1, <3>1 DEF IsInjective
    <3>. QED BY <1>1, <3>2
  <2>. QED BY <1>6, <1>8, <2>1, Zenon DEF IsInjective
<1>11. Range(Tail(m.free)) = Range(m.free) \ {Fresh(m)}
  <2>1. \A i \in 1 .. Len(m.free) - 1 : i + 1 \in DOMAIN m.free /\ i + 1 # 1
        BY <1>1
  <2>2. \A i \in DOMAIN m.free : i # 1 => i - 1 \in 1 .. Len(m.free) - 1 /\ (i - 1) + 1 = i
        BY <1>1
  <2>3. 1 \in DOMAIN m.free
        BY <1>1, <1>2
  <2>4. \A i \in DOMAIN m.free : i # 1 => m.free[i] # m.free[1]
        BY <1>9, <2>3 DEF IsInjective
  <2>5. ASSUME NEW y \in Range(Tail(m.free)) PROVE y \in Range(m.free) \ {Fresh(m)}
    <3>1. PICK i \in 1 .. Len(m.free) - 1 : y = m.free[i + 1]
          BY <1>6, <1>8 DEF Range
    <3>. QED BY <1>3, <2>1, <2>4, <3>1 DEF Range
  <2>6. ASSUME NEW y \in Range(m.free) \ {Fresh(m)} PROVE y \in Range(Tail(m.free))
    <3>1. PICK i \in DOMAIN m.free : y = m.free[i] /\ i # 1
          BY <1>3 DEF Range
    <3>. QED BY <1>6, <1>8, <2>2, <3>1 DEF Range
  <2>. QED BY <2>5, <2>6
<1>12. Are(New(m, x), "free") = Are(m, "free") \ {Fresh(m)}
      BY <1>4, <1>5, <1>7 DEF Are
<1>13. FreeOk(New(m, x))
      BY <1>7, <1>9, <1>10, <1>11, <1>12 DEF FreeOk
<1>. QED BY <1>3, <1>4, <1>5, <1>6, <1>7, <1>13

\* eb_free_memory_item, for each of s in turn.
LEMMA FreeAllIs ==
  ASSUME NEW m, FreeOk(m), NEW s \in Seq(Nat), IsInjective(s), Range(s) \subseteq DOMAIN m.heap,
         \A i \in Range(s) : m.heap[i].is # "free"
  PROVE  /\ FreeOk(FreeAll(m, s)) /\ DOMAIN FreeAll(m, s).heap = DOMAIN m.heap
         /\ \A i \in DOMAIN m.heap : FreeAll(m, s).heap[i] = IF i \in Range(s) THEN Unused ELSE m.heap[i]
<1>. DEFINE h == [i \in DOMAIN m.heap |-> IF i \in Range(s) THEN Unused ELSE m.heap[i]]
            f == Reverse(s) \o m.free
<1>1. /\ m.free \in Seq(Nat) /\ m.heap \in Seq(Items) /\ DOMAIN m.heap = 1 .. Len(m.heap) /\ Len(m.heap) \in Nat
      /\ \A i \in DOMAIN m.heap : m.heap[i] \in Items
      BY PoolIs
<1>2. Unused \in Items /\ Unused.is = "free"
      BY DEF Unused, Items, Plain
<1>3. h \in Seq(Items) /\ DOMAIN h = DOMAIN m.heap
      BY <1>1, <1>2
<1>4. Reverse(s) \in Seq(Nat) /\ Range(Reverse(s)) = Range(s) /\ IsInjective(Reverse(s))
      BY ReverseIs
<1>5. IsInjective(m.free) /\ Range(m.free) = Are(m, "free")
      BY DEF FreeOk
<1>6. Range(s) \cap Range(m.free) = {}
      BY <1>5 DEF Are
<1>7. f \in Seq(Nat) /\ Range(f) = Range(s) \cup Range(m.free) /\ IsInjective(f)
      BY <1>1, <1>4, <1>5, <1>6, ConcatIs
<1>8. FreeAll(m, s).free = f /\ FreeAll(m, s).heap = h /\ FreeAll(m, s) \in Pools
      BY <1>3, <1>7, Zenon DEF FreeAll, Pools
<1>9. Are(FreeAll(m, s), "free") = Range(s) \cup Are(m, "free")
      BY <1>2, <1>3, <1>8 DEF Are
<1>. QED BY <1>3, <1>5, <1>7, <1>8, <1>9, Zenon DEF FreeOk

-----------------------------------------------------------------------------
(* What a node does to its items.                                          *)

\* The items that a node's state refers to.
LEMMA NodeIs ==
  ASSUME NEW m, NEW s, NEW l, NEW E, Node(m, s, l, E)
  PROVE  /\ FreeOk(m) /\ s \in Socks /\ s.devs \in Seq(Nat) /\ s.trans \in Seq(Nat) /\ l \in Nat
         /\ s.self \in Nat /\ s.aux \in Nat
         /\ \A d \in Range(s.devs) : /\ d \in DOMAIN m.heap /\ m.heap[d] \in Devs /\ m.heap[d].is = "device"
                                     /\ LinkOf(m, d) \in Nat
                                     /\ LinkOf(m, d) # 0 => /\ LinkOf(m, d) \in DOMAIN m.heap
                                                            /\ m.heap[LinkOf(m, d)] \in Links
                                                            /\ m.heap[LinkOf(m, d)].is = "link"
                                     /\ ConnAt(m, d) \in Nat
         /\ \A t \in Range(s.trans) : t \in DOMAIN m.heap /\ m.heap[t].is = "transport" /\ m.heap[t] \in Transports
         /\ l # 0 => l \in DOMAIN m.heap /\ m.heap[l].is = "link" /\ m.heap[l] = Link(0)
         /\ s.self # 0 => s.self \in DOMAIN m.heap /\ m.heap[s.self].is = "socket"
         /\ s.aux # 0 => s.aux \in DOMAIN m.heap /\ m.heap[s.aux].is = "aux"
         /\ 0 \notin E /\ 0 \notin DOMAIN m.heap
<1>1. FreeOk(m) /\ s \in Socks /\ l \in Nat /\ Parts(m, s, l) /\ Wired(m, s, E)
      BY DEF Node
<1>2. /\ 0 \notin DOMAIN m.heap
      /\ \A i \in DOMAIN m.heap : m.heap[i] \in Items
      BY <1>1, PoolIs
<1>3. s.devs \in Seq(Nat) /\ s.trans \in Seq(Nat) /\ s.self \in Nat /\ s.aux \in Nat
      BY <1>1 DEF Socks
<1>4. ASSUME NEW d \in Range(s.devs)
      PROVE  d \in DOMAIN m.heap /\ m.heap[d].is = "device" /\ m.heap[d] \in Devs /\ LinkOf(m, d) \in Nat
  <2>1. d \in DOMAIN m.heap /\ m.heap[d].is = "device"
        BY <1>1 DEF Parts, Are
  <2>2. m.heap[d] \in Devs
        BY <1>2, <2>1, ItemIs
  <2>. QED BY <2>1, <2>2 DEF Devs, LinkOf
<1>5. ASSUME NEW d \in Range(s.devs), LinkOf(m, d) # 0
      PROVE  LinkOf(m, d) \in DOMAIN m.heap /\ m.heap[LinkOf(m, d)].is = "link" /\ m.heap[LinkOf(m, d)] \in Links
  <2>1. LinkOf(m, d) \in Are(m, "link")
        BY <1>1, <1>5 DEF Parts
  <2>. QED BY <1>2, <2>1, ItemIs DEF Are
<1>6. ASSUME NEW d \in Range(s.devs) PROVE ConnAt(m, d) \in Nat
      BY <1>5 DEF ConnAt, Links
<1>7. ASSUME NEW t \in Range(s.trans) PROVE t \in DOMAIN m.heap /\ m.heap[t].is = "transport" /\ m.heap[t] \in Transports
      BY <1>1, <1>2, ItemIs DEF Parts, Are
<1>8. l # 0 => l \in DOMAIN m.heap /\ m.heap[l].is = "link" /\ m.heap[l] = Link(0)
      BY <1>1 DEF Parts, Are
<1>9. /\ s.self # 0 => s.self \in DOMAIN m.heap /\ m.heap[s.self].is = "socket"
      /\ s.aux # 0 => s.aux \in DOMAIN m.heap /\ m.heap[s.aux].is = "aux"
      BY <1>1 DEF Parts, Are
<1>10. 0 \notin E
      BY <1>1 DEF Wired
<1>. QED BY <1>1, <1>2, <1>3, <1>4, <1>5, <1>6, <1>7, <1>8, <1>9, <1>10

\* A device that refers to the same link, which is the same, has the same connection.
LEMMA SameConn ==
  ASSUME NEW m, NEW m2, NEW d, LinkOf(m2, d) = LinkOf(m, d),
         LinkOf(m, d) # 0 => m2.heap[LinkOf(m, d)] = m.heap[LinkOf(m, d)]
  PROVE  ConnAt(m2, d) = ConnAt(m, d)
BY DEF ConnAt

\* With one more connection, if it is one.
With(E, k) == (E \cup {k}) \ {0}

\* eb_device_open, eb_device_new_slave: a device and its link.
OpenedMem(m, dev, k) == New(New(m, dev), Link(k))
Fits(m, s, l, E, dev, k) ==
  Node(m, s, l, E) /\ Len(m.free) >= 2 /\ dev \in Devs /\ dev.link = m.free[2] /\ k \in Nat /\ k \notin E
\* What is in the pool then, where l may have become the link.
Added(m, m2, l, dev, k) ==
  /\ Fresh(m) \in Nat \ {0} /\ m.heap[Fresh(m)].is = "free"
  /\ m2.heap[Fresh(m)] = dev /\ dev.link # 0 /\ m2.heap[dev.link] = Link(k)
  /\ \A i \in DOMAIN m.heap : m.heap[i].is # "free" /\ i # l => m2.heap[i] = m.heap[i]
LEMMA OpenKeeps ==
  ASSUME NEW m, NEW s, NEW l, NEW E, NEW dev, NEW k, Fits(m, s, l, E, dev, k)
  PROVE  /\ Node(OpenedMem(m, dev, k), [s EXCEPT !.devs = <<Fresh(m)>> \o @], l, With(E, k))
         /\ Fresh(m) = m.free[1] /\ Fresh(m) \in DOMAIN m.heap /\ m.free[2] \in DOMAIN m.heap
         /\ DOMAIN OpenedMem(m, dev, k).heap = DOMAIN m.heap
         /\ \A i \in DOMAIN m.heap : m.heap[i].is # "free" => OpenedMem(m, dev, k).heap[i] = m.heap[i]
         /\ OpenedMem(m, dev, k).heap[Fresh(m)] = dev
         /\ m.heap[m.free[1]].is = "free" /\ m.heap[m.free[2]].is = "free"
         /\ Added(m, OpenedMem(m, dev, k), l, dev, k)
<1>. DEFINE m1 == New(m, dev)
            m2 == New(m1, Link(k))
            d == m.free[1]
            g == m.free[2]
            s2 == [s EXCEPT !.devs = <<Fresh(m)>> \o @]
<1>. USE DEF Fits
<1>1. /\ FreeOk(m) /\ s \in Socks /\ l \in Nat /\ Parts(m, s, l) /\ Wired(m, s, E)
      BY DEF Node
<1>2. /\ Len(m.free) \in Nat /\ DOMAIN m.free = 1 .. Len(m.free) /\ m.free # <<>>
      /\ \A i \in 1 .. Len(m.free) : m.free[i] \in DOMAIN m.heap /\ m.heap[m.free[i]].is = "free"
      /\ \A i \in DOMAIN m.heap : i \in Nat /\ i # 0
  <2>1. /\ Len(m.free) \in Nat /\ DOMAIN m.free = 1 .. Len(m.free)
        /\ \A i \in 1 .. Len(m.free) : m.free[i] \in DOMAIN m.heap /\ m.heap[m.free[i]].is = "free"
        /\ \A i \in DOMAIN m.heap : i \in Nat /\ i # 0
        BY <1>1, PoolIs
  <2>2. Len(<<>>) = 0
        OBVIOUS
  <2>. QED BY <2>1, <2>2
<1>3. dev \in Items /\ dev.is = "device" /\ Link(k) \in Items /\ Link(k).is = "link" /\ Link(k).conn = k
      BY DEF Devs, Items, Link, Links
<1>4. /\ FreeOk(m1) /\ DOMAIN m1.heap = DOMAIN m.heap /\ Fresh(m) = d /\ d \in DOMAIN m.heap /\ m.heap[d].is = "free"
      /\ m1.heap[d] = dev /\ \A i \in DOMAIN m.heap : i # d => m1.heap[i] = m.heap[i]
      /\ m1.free[1] = g /\ Len(m1.free) = Len(m.free) - 1
  <2>1. 1 \in 1 .. Len(m.free) - 1 /\ 1 + 1 = 2
        BY <1>2
  <2>. QED BY <1>1, <1>2, <1>3, <2>1, NewIs DEF Full
<1>5. m1.free # <<>>
  <2>1. Len(<<>>) = 0
        OBVIOUS
  <2>. QED BY <1>2, <1>4, <2>1
<1>6. /\ FreeOk(m2) /\ DOMAIN m2.heap = DOMAIN m.heap /\ g \in DOMAIN m.heap /\ m1.heap[g].is = "free"
      /\ m2.heap[g] = Link(k) /\ \A i \in DOMAIN m.heap : i # g => m2.heap[i] = m1.heap[i]
  <2>. HIDE DEF m1
  <2>. QED BY <1>3, <1>4, <1>5, NewIs DEF Full
<1>. HIDE DEF m1, m2, d, g
<1>7. d # g /\ m.heap[g].is = "free" /\ m2.heap[d] = dev /\ d \in Nat /\ d # 0 /\ g \in Nat /\ g # 0
      BY <1>2, <1>3, <1>4, <1>6
<1>8. \A i \in DOMAIN m.heap : m.heap[i].is # "free" => i # d /\ i # g /\ m2.heap[i] = m.heap[i]
      BY <1>4, <1>6, <1>7
<1>9. \A i \in DOMAIN m.heap : i # d /\ i # g => m2.heap[i] = m.heap[i]
      BY <1>4, <1>6
<1>10. /\ Are(m2, "transport") = Are(m, "transport") /\ Are(m2, "socket") = Are(m, "socket")
       /\ Are(m2, "aux") = Are(m, "aux") /\ Are(m2, "device") = Are(m, "device") \cup {d}
       /\ Are(m2, "link") = Are(m, "link") \cup {g}
      BY <1>3, <1>4, <1>6, <1>7, <1>9 DEF Are
<1>11. /\ s2 \in Socks /\ s2.self = s.self /\ s2.aux = s.aux /\ s2.trans = s.trans
       /\ IsInjective(s2.devs) /\ Range(s2.devs) = {d} \cup Range(s.devs) /\ d \notin Range(s.devs)
  <2>1. s.devs \in Seq(Nat) /\ <<d>> \in Seq(Nat) /\ Range(<<d>>) = {d} /\ IsInjective(<<d>>)
        BY <1>1, <1>7, OneIs, Zenon DEF Socks
  <2>2. d \notin Range(s.devs) /\ IsInjective(s.devs)
        BY <1>1, <1>4 DEF Parts, Are
  <2>3. <<d>> \o s.devs \in Seq(Nat) /\ IsInjective(<<d>> \o s.devs) /\ Range(<<d>> \o s.devs) = {d} \cup Range(s.devs)
    <3>1. Range(<<d>>) \cap Range(s.devs) = {}
          BY <2>1, <2>2
    <3>2. /\ <<d>> \o s.devs \in Seq(Nat) /\ Range(<<d>> \o s.devs) = Range(<<d>>) \cup Range(s.devs)
          /\ IsInjective(<<d>> \o s.devs)
      <4>. DEFINE one == <<d>>
      <4>1. one \in Seq(Nat) /\ IsInjective(one) /\ Range(one) \cap Range(s.devs) = {}
            BY <2>1, <3>1, Zenon
      <4>. HIDE DEF one
      <4>2. /\ one \o s.devs \in Seq(Nat) /\ Range(one \o s.devs) = Range(one) \cup Range(s.devs)
            /\ IsInjective(one \o s.devs)
            BY <2>1, <2>2, <4>1, ConcatIs
      <4>. QED BY <4>2 DEF one
    <3>. QED BY <2>1, <3>2
  <2>. QED BY <1>1, <1>4, <2>2, <2>3, Zenon DEF Socks
<1>. HIDE DEF s2
<1>12. \A e \in Range(s.devs) : LinkOf(m2, e) = LinkOf(m, e) /\ ConnAt(m2, e) = ConnAt(m, e)
       /\ LinkOf(m, e) # g /\ e \in DOMAIN m.heap
  <2>1. \A e \in Range(s.devs) : /\ e \in DOMAIN m.heap /\ m.heap[e].is = "device"
                                 /\ LinkOf(m, e) # 0 => LinkOf(m, e) \in DOMAIN m.heap /\ m.heap[LinkOf(m, e)].is = "link"
        BY NodeIs
  <2>2. \A e \in Range(s.devs) : LinkOf(m2, e) = LinkOf(m, e)
        BY <1>8, <2>1 DEF LinkOf
  <2>3. \A e \in Range(s.devs) : LinkOf(m, e) # 0 => m2.heap[LinkOf(m, e)] = m.heap[LinkOf(m, e)]
        BY <1>8, <2>1
  <2>4. \A e \in Range(s.devs) : ConnAt(m2, e) = ConnAt(m, e)
        BY <2>2, <2>3, SameConn, Zenon
  <2>. QED BY <1>7, <2>1, <2>2, <2>4
<1>13. LinkOf(m2, d) = g /\ ConnAt(m2, d) = k
      BY <1>3, <1>6, <1>7 DEF LinkOf, ConnAt, g
<1>14. /\ \A e \in Range(s.devs) : LinkOf(m, e) = l => l = 0
       /\ l # 0 => l # g /\ m2.heap[l] = Link(0)
  <2>1. l # 0 => l \in DOMAIN m.heap /\ m.heap[l].is = "link" /\ m.heap[l] = Link(0)
        BY NodeIs
  <2>. QED BY <1>1, <1>8, <2>1 DEF Parts
<1>15. Parts(m2, s2, l)
  <2>1. IsInjective(s.trans) /\ Range(s.trans) = Are(m, "transport") /\ Range(s.devs) = Are(m, "device")
        /\ {s.self} \ {0} = Are(m, "socket") /\ {s.aux} \ {0} = Are(m, "aux")
        BY <1>1 DEF Parts
  <2>2. ({l} \cup {LinkOf(m2, e) : e \in Range(s2.devs)}) \ {0} = Are(m2, "link")
    <3>1. ({l} \cup {LinkOf(m, e) : e \in Range(s.devs)}) \ {0} = Are(m, "link")
          BY <1>1 DEF Parts
    <3>2. {LinkOf(m2, e) : e \in Range(s2.devs)} = {g} \cup {LinkOf(m, e) : e \in Range(s.devs)}
          BY <1>11, <1>12, <1>13
    <3>. QED BY <1>7, <1>10, <3>1, <3>2, Zenon
  <2>3. \A e, f \in Range(s2.devs) : LinkOf(m2, e) = LinkOf(m2, f) /\ LinkOf(m2, e) # 0 => e = f
    <3>1. \A e, f \in Range(s.devs) : LinkOf(m, e) = LinkOf(m, f) /\ LinkOf(m, e) # 0 => e = f
          BY <1>1 DEF Parts
    <3>. QED BY <1>11, <1>12, <1>13, <3>1
  <2>4. \A e \in Range(s2.devs) : LinkOf(m2, e) = l => l = 0
        BY <1>11, <1>12, <1>13, <1>14
  <2>. QED BY <1>10, <1>11, <1>14, <2>1, <2>2, <2>3, <2>4 DEF Parts
<1>16. Wired(m2, s2, (E \cup {k}) \ {0})
  <2>1. /\ {ConnAt(m, e) : e \in Range(s.devs)} \ {0} = E
        /\ \A e, f \in Range(s.devs) : ConnAt(m, e) = ConnAt(m, f) /\ ConnAt(m, e) # 0 => e = f
        BY <1>1 DEF Wired
  <2>2. {ConnAt(m2, e) : e \in Range(s2.devs)} = {k} \cup {ConnAt(m, e) : e \in Range(s.devs)}
        BY <1>11, <1>12, <1>13
  <2>3. \A e \in Range(s.devs) : ConnAt(m2, e) # 0 => ConnAt(m2, e) # k
        BY <1>12, <2>1
  <2>4. \A e, f \in Range(s2.devs) : ConnAt(m2, e) = ConnAt(m2, f) /\ ConnAt(m2, e) # 0 => e = f
        BY <1>11, <1>12, <1>13, <2>1, <2>3
  <2>5. {ConnAt(m2, e) : e \in Range(s2.devs)} \ {0} = (E \cup {k}) \ {0}
        BY <2>1, <2>2, Zenon
  <2>. QED BY <2>4, <2>5 DEF Wired
<1>17. Node(m2, s2, l, (E \cup {k}) \ {0})
      BY <1>1, <1>6, <1>11, <1>15, <1>16 DEF Node
<1>18. OpenedMem(m, dev, k) = m2
      BY DEF OpenedMem, m1, m2
<1>19. Added(m, m2, l, dev, k)
       BY <1>4, <1>6, <1>7, <1>8 DEF Added, g
<1>. QED BY <1>4, <1>6, <1>7, <1>8, <1>17, <1>18, <1>19 DEF s2, d, g, With

\* A device that leaves the list of its socket: those behind it move up.
LEMMA WithoutIs ==
  ASSUME NEW S, NEW s \in Seq(S), IsInjective(s), NEW j \in DOMAIN s
  PROVE  /\ Without(s, s[j]) = RemoveAt(s, j)
         /\ Without(s, s[j]) \in Seq(S) /\ IsInjective(Without(s, s[j]))
         /\ Range(Without(s, s[j])) = Range(s) \ {s[j]}
<1>. DEFINE K == {k \in DOMAIN s : s[k] # s[j]}
            c == Len(s) - 1
            e == [i \in 1 .. c |-> IF i < j THEN i ELSE i + 1]
<1>1. Len(s) \in Nat /\ DOMAIN s = 1 .. Len(s) /\ j \in 1 .. Len(s) /\ c \in Nat
      BY LenProperties
<1>2. K = DOMAIN s \ {j}
      BY DEF IsInjective
<1>3. K \in SUBSET (1 .. Len(s)) /\ K \in SUBSET DOMAIN s
      BY <1>1
<1>4. e \in [1 .. c -> K] /\ \A i \in 1 .. c : e[i] = IF i < j THEN i ELSE i + 1
      BY <1>1, <1>2
<1>5. \A i, k \in 1 .. c : i < k => e[i] < e[k]
      BY <1>1, <1>4
<1>6. ASSUME NEW i \in K PROVE \E k \in 1 .. c : e[k] = i
  <2>1. CASE i < j
    <3>1. i \in 1 .. c
          BY <1>1, <1>2, <2>1
    <3>. QED BY <1>4, <2>1, <3>1
  <2>2. CASE ~(i < j)
    <3>1. i - 1 \in 1 .. c /\ ~(i - 1 < j) /\ (i - 1) + 1 = i
          BY <1>1, <1>2, <2>2
    <3>. QED BY <1>4, <3>1
  <2>. QED BY <2>1, <2>2
<1>. HIDE DEF K, e, c
<1>7. c = Cardinality(K) /\ \A i \in 1 .. c : Nth(K, i) = e[i]
  <2>1. /\ Len(s) \in Nat /\ K \in SUBSET (1 .. Len(s)) /\ c \in Nat /\ e \in [1 .. c -> K]
        /\ \A i, k \in 1 .. c : i < k => e[i] < e[k]
        /\ \A i \in K : \E k \in 1 .. c : e[k] = i
        BY <1>1, <1>3, <1>4, <1>5, <1>6
  <2>. QED BY <2>1, NthUnique, Zenon
<1>8. /\ DOMAIN RemoveAt(s, j) = 1 .. c /\ RemoveAt(s, j) \in Seq(S)
      /\ \A i \in 1 .. c : RemoveAt(s, j)[i] = IF i < j THEN s[i] ELSE s[i + 1]
      BY RemoveAtIs, Zenon DEF c
<1>9. Without(s, s[j]) = [i \in 1 .. c |-> s[Nth(K, i)]]
      BY <1>7 DEF Without, Select, K
<1>10. \A i \in 1 .. c : Without(s, s[j])[i] = RemoveAt(s, j)[i]
      BY <1>4, <1>7, <1>8, <1>9
<1>11. RemoveAt(s, j) = [i \in 1 .. c |-> RemoveAt(s, j)[i]]
      BY <1>8
<1>12. Without(s, s[j]) = RemoveAt(s, j)
      BY <1>9, <1>10, <1>11
<1>13. /\ IsInjective(RemoveAt(s, j)) /\ s[j] \notin Range(RemoveAt(s, j))
       /\ Range(s) = {s[j]} \cup Range(RemoveAt(s, j))
      BY RemoveAtRange
<1>. QED BY <1>8, <1>12, <1>13

\* eb_device_close: a device and its link are gone.
Closes(m, s, l, E, d) ==
  /\ Node(CloseDevMem(m, d), [s EXCEPT !.devs = Without(@, d)], l, E \ {ConnAt(m, d)})
  /\ DOMAIN CloseDevMem(m, d).heap = DOMAIN m.heap
  /\ Range(Without(s.devs, d)) = Range(s.devs) \ {d}
  /\ \A i \in DOMAIN m.heap : i # d /\ i # LinkOf(m, d) => CloseDevMem(m, d).heap[i] = m.heap[i]
LEMMA CloseKeeps ==
  ASSUME NEW m, NEW s, NEW l, NEW E, Node(m, s, l, E), NEW d \in Range(s.devs)
  PROVE  Closes(m, s, l, E, d)
<1>. DEFINE m2 == CloseDevMem(m, d)
            g == LinkOf(m, d)
            s2 == [s EXCEPT !.devs = Without(@, d)]
            F == IF g = 0 THEN <<d>> ELSE <<g, d>>
<1>1. /\ FreeOk(m) /\ s \in Socks /\ l \in Nat /\ Parts(m, s, l) /\ Wired(m, s, E)
      BY DEF Node
<1>2. /\ d \in DOMAIN m.heap /\ m.heap[d].is = "device" /\ d \in Nat /\ d # 0 /\ g \in Nat
      /\ g # 0 => g \in DOMAIN m.heap /\ m.heap[g].is = "link" /\ g # d
      /\ s.devs \in Seq(Nat)
  <2>1. \A i \in DOMAIN m.heap : i \in Nat /\ i # 0
        BY <1>1, PoolIs
  <2>2. d \in DOMAIN m.heap /\ m.heap[d].is = "device" /\ g \in Nat
        /\ (g # 0 => g \in DOMAIN m.heap /\ m.heap[g].is = "link") /\ s.devs \in Seq(Nat)
        BY NodeIs
  <2>. QED BY <2>1, <2>2
<1>3. F \in Seq(Nat) /\ IsInjective(F) /\ Range(F) = {d, g} \ {0}
  <2>1. CASE g = 0
    <3>1. <<d>> \in Seq(Nat) /\ Range(<<d>>) = {d} /\ IsInjective(<<d>>)
          BY <1>2, OneIs
    <3>. QED BY <1>2, <2>1, <3>1
  <2>2. CASE g # 0
    <3>1. <<g, d>> \in Seq(Nat) /\ DOMAIN <<g, d>> = 1 .. 2 /\ <<g, d>>[1] = g /\ <<g, d>>[2] = d
          BY <1>2
    <3>2. DOMAIN <<g, d>> = {1, 2}
          BY <3>1
    <3>. HIDE DEF g
    <3>3. Range(<<g, d>>) = {g, d}
          BY <3>1, <3>2 DEF Range
    <3>4. IsInjective(<<g, d>>)
          BY <1>2, <2>2, <3>1, <3>2 DEF IsInjective
    <3>. QED BY <1>2, <2>2, <3>1, <3>3, <3>4
  <2>. QED BY <2>1, <2>2
<1>4. m2 = FreeAll(m, F)
      BY DEF CloseDevMem, Free, LinkOf
<1>5. /\ FreeOk(m2) /\ DOMAIN m2.heap = DOMAIN m.heap
      /\ \A i \in DOMAIN m.heap : m2.heap[i] = IF i \in {d, g} \ {0} THEN Unused ELSE m.heap[i]
  <2>1. Range(F) \subseteq DOMAIN m.heap /\ \A i \in Range(F) : m.heap[i].is # "free"
    <3>. HIDE DEF F, g
    <3>. QED BY <1>2, <1>3
  <2>. HIDE DEF F, g, m2
  <2>. QED BY <1>1, <1>3, <1>4, <2>1, FreeAllIs
<1>6. /\ s2 \in Socks /\ s2.self = s.self /\ s2.aux = s.aux /\ s2.trans = s.trans
      /\ IsInjective(s2.devs) /\ Range(s2.devs) = Range(s.devs) \ {d} /\ s2.devs = Without(s.devs, d)
  <2>1. IsInjective(s.devs)
        BY <1>1 DEF Parts
  <2>2. PICK j \in DOMAIN s.devs : s.devs[j] = d
        BY DEF Range
  <2>3. Without(s.devs, d) \in Seq(Nat) /\ IsInjective(Without(s.devs, d)) /\ Range(Without(s.devs, d)) = Range(s.devs) \ {d}
        BY <1>2, <2>1, <2>2, WithoutIs
  <2>. QED BY <1>1, <2>3, Zenon DEF Socks
<1>. HIDE DEF m2, g, s2, F
<1>7. Unused.is = "free"
      BY DEF Unused
<1>8. /\ Are(m2, "transport") = Are(m, "transport") /\ Are(m2, "socket") = Are(m, "socket")
      /\ Are(m2, "aux") = Are(m, "aux") /\ Are(m2, "device") = Are(m, "device") \ {d}
      /\ Are(m2, "link") = Are(m, "link") \ {g}
  <2>1. \A i \in DOMAIN m.heap : i # d /\ i # g => m2.heap[i] = m.heap[i]
        BY <1>5
  <2>2. m2.heap[d].is = "free" /\ (g # 0 => m2.heap[g].is = "free")
        BY <1>2, <1>5, <1>7
  <2>3. \A i \in DOMAIN m.heap : i # 0
        BY <1>1, PoolIs
  <2>4. \A i \in DOMAIN m.heap : i = g => m.heap[i].is = "link" /\ m2.heap[i].is = "free" /\ i # d
        BY <1>2, <2>2, <2>3
  <2>. QED BY <1>2, <1>5, <2>1, <2>2, <2>4 DEF Are
<1>9. /\ \A e \in Range(s2.devs) : /\ e \in Range(s.devs) /\ LinkOf(m2, e) = LinkOf(m, e)
                                   /\ ConnAt(m2, e) = ConnAt(m, e)
                                   /\ LinkOf(m, e) # 0 => LinkOf(m, e) # g
      /\ \A e \in Range(s.devs) : e # d => e \in Range(s2.devs)
  <2>1. \A e \in Range(s2.devs) : e \in Range(s.devs) /\ e # d
        BY <1>6
  <2>2. \A e \in Range(s.devs) : e # d => e \in Range(s2.devs)
        BY <1>6
  <2>3. \A e \in Range(s.devs) : /\ e \in DOMAIN m.heap /\ m.heap[e].is = "device"
                                 /\ LinkOf(m, e) # 0 => LinkOf(m, e) \in DOMAIN m.heap /\ m.heap[LinkOf(m, e)].is = "link"
        BY NodeIs
  <2>4. \A e \in Range(s2.devs) : LinkOf(m2, e) = LinkOf(m, e)
        BY <1>2, <1>5, <2>1, <2>3 DEF LinkOf
  <2>5. \A e \in Range(s2.devs) : LinkOf(m, e) # 0 => LinkOf(m, e) # g
        BY <1>1, <2>1 DEF Parts, g
  <2>6. \A e \in Range(s2.devs) : LinkOf(m, e) # 0 => m2.heap[LinkOf(m, e)] = m.heap[LinkOf(m, e)]
        BY <1>2, <1>5, <2>1, <2>3, <2>5
  <2>7. \A e \in Range(s2.devs) : ConnAt(m2, e) = ConnAt(m, e)
        BY <2>4, <2>6, SameConn
  <2>. QED BY <2>1, <2>2, <2>4, <2>5, <2>7
<1>10. /\ \A e \in Range(s.devs) : LinkOf(m, e) = l => l = 0
       /\ l # 0 => l # g /\ m2.heap[l] = Link(0)
  <2>1. l # 0 => l \in DOMAIN m.heap /\ m.heap[l].is = "link" /\ m.heap[l] = Link(0)
        BY NodeIs
  <2>2. \A e \in Range(s.devs) : LinkOf(m, e) = l => l = 0
        BY <1>1 DEF Parts
  <2>3. l # 0 => l # g /\ l # d
        BY <1>2, <2>1, <2>2 DEF g
  <2>. QED BY <1>5, <2>1, <2>2, <2>3
<1>11. Parts(m2, s2, l)
  <2>1. /\ IsInjective(s.trans) /\ Range(s.trans) = Are(m, "transport") /\ Range(s.devs) = Are(m, "device")
        /\ {s.self} \ {0} = Are(m, "socket") /\ {s.aux} \ {0} = Are(m, "aux")
        BY <1>1 DEF Parts
  <2>2. ({l} \cup {LinkOf(m2, e) : e \in Range(s2.devs)}) \ {0} = Are(m2, "link")
    <3>1. ({l} \cup {LinkOf(m, e) : e \in Range(s.devs)}) \ {0} = Are(m, "link")
          BY <1>1 DEF Parts
    <3>2. {LinkOf(m2, e) : e \in Range(s2.devs)} \ {0} = {LinkOf(m, e) : e \in Range(s.devs)} \ {0, g}
      <4>1. \A e \in Range(s.devs) : e = d => LinkOf(m, e) = g
            BY DEF g
      <4>2. \A e \in Range(s2.devs) : e \in Range(s.devs) /\ LinkOf(m2, e) = LinkOf(m, e)
                                     /\ (LinkOf(m, e) # 0 => LinkOf(m, e) # g)
            BY <1>9
      <4>3. \A e \in Range(s.devs) : LinkOf(m, e) # g => e \in Range(s2.devs)
            BY <1>9, <4>1
      <4>4. \A c : c \in {LinkOf(m2, e) : e \in Range(s2.devs)} \ {0} => c \in {LinkOf(m, e) : e \in Range(s.devs)} \ {0, g}
            BY <4>2
      <4>5. \A c : c \in {LinkOf(m, e) : e \in Range(s.devs)} \ {0, g} => c \in {LinkOf(m2, e) : e \in Range(s2.devs)} \ {0}
            BY <4>2, <4>3
      <4>. QED BY <4>4, <4>5
    <3>. QED BY <1>8, <1>10, <3>1, <3>2
  <2>3. \A e, f \in Range(s2.devs) : LinkOf(m2, e) = LinkOf(m2, f) /\ LinkOf(m2, e) # 0 => e = f
        BY <1>1, <1>9 DEF Parts
  <2>4. \A e \in Range(s2.devs) : LinkOf(m2, e) = l => l = 0
        BY <1>9, <1>10
  <2>. QED BY <1>6, <1>8, <1>10, <2>1, <2>2, <2>3, <2>4 DEF Parts
<1>12. Wired(m2, s2, E \ {ConnAt(m, d)})
  <2>1. /\ {ConnAt(m, e) : e \in Range(s.devs)} \ {0} = E
        /\ \A e, f \in Range(s.devs) : ConnAt(m, e) = ConnAt(m, f) /\ ConnAt(m, e) # 0 => e = f
        BY <1>1 DEF Wired
  <2>2. \A e, f \in Range(s2.devs) : ConnAt(m2, e) = ConnAt(m2, f) /\ ConnAt(m2, e) # 0 => e = f
    <3>1. \A e \in Range(s2.devs) : e \in Range(s.devs) /\ ConnAt(m2, e) = ConnAt(m, e)
          BY <1>9
    <3>2. \A e, f \in Range(s.devs) : ConnAt(m, e) = ConnAt(m, f) /\ ConnAt(m, e) # 0 => e = f
          BY <2>1
    <3>. QED BY <3>1, <3>2
  <2>3. \A e \in Range(s2.devs) : ConnAt(m, e) # 0 => ConnAt(m, e) # ConnAt(m, d)
        BY <1>6, <2>1
  <2>4. {ConnAt(m2, e) : e \in Range(s2.devs)} \ {0} = E \ {ConnAt(m, d)}
    <3>1. {ConnAt(m, e) : e \in Range(s.devs)} \ {0} = E
          BY <2>1
    <3>2. \A e \in Range(s2.devs) : e \in Range(s.devs) /\ ConnAt(m2, e) = ConnAt(m, e)
          BY <1>9
    <3>3. \A e \in Range(s.devs) : e # d => e \in Range(s2.devs)
          BY <1>9
    <3>4. ASSUME NEW c \in {ConnAt(m2, e) : e \in Range(s2.devs)} \ {0} PROVE c \in E \ {ConnAt(m, d)}
      <4>1. PICK e \in Range(s2.devs) : c = ConnAt(m2, e)
            BY <3>4
      <4>2. e \in Range(s.devs) /\ c = ConnAt(m, e) /\ c # 0
            BY <3>2, <3>4, <4>1
      <4>. QED BY <2>3, <3>1, <4>1, <4>2
    <3>5. ASSUME NEW c \in E \ {ConnAt(m, d)} PROVE c \in {ConnAt(m2, e) : e \in Range(s2.devs)} \ {0}
      <4>1. PICK e \in Range(s.devs) : c = ConnAt(m, e) /\ c # 0
            BY <3>1, <3>5
      <4>2. e \in Range(s2.devs)
            BY <3>3, <3>5, <4>1
      <4>. QED BY <3>2, <4>1, <4>2
    <3>. QED BY <3>4, <3>5
  <2>. QED BY <2>2, <2>4 DEF Wired
<1>13. Node(m2, s2, l, E \ {ConnAt(m, d)})
      BY <1>1, <1>5, <1>6, <1>11, <1>12 DEF Node
<1>. QED BY <1>5, <1>6, <1>13 DEF m2, s2, g, Closes

\* Items that stay of their kind.
LEMMA ChangeIs ==
  ASSUME NEW m, FreeOk(m), NEW m2 \in Pools, m2.free = m.free, DOMAIN m2.heap = DOMAIN m.heap,
         \A i \in DOMAIN m.heap : m2.heap[i].is = m.heap[i].is
  PROVE  FreeOk(m2) /\ \A kind : Are(m2, kind) = Are(m, kind)
<1>1. \A kind : Are(m2, kind) = Are(m, kind)
      BY DEF Are
<1>. QED BY <1>1 DEF FreeOk

\* eb_device_open, eb_device_slave: devices get their widths.
LEMMA WidthsKeep ==
  ASSUME NEW m, NEW s, NEW l, NEW E, Node(m, s, l, E),
         NEW m2, m2 = [free |-> m.free, heap |-> m2.heap],
         m2.heap = [i \in DOMAIN m.heap |-> m2.heap[i]],
         \A i \in DOMAIN m.heap : /\ m2.heap[i] \in Items
                                  /\ \/ m2.heap[i] = m.heap[i]
                                     \/ i \in Range(s.devs) /\ m2.heap[i].is = "device" /\ m2.heap[i].link = m.heap[i].link
  PROVE  Node(m2, s, l, E)
<1>1. /\ FreeOk(m) /\ s \in Socks /\ l \in Nat /\ Parts(m, s, l) /\ Wired(m, s, E)
      BY DEF Node
<1>2. /\ m.free \in Seq(Nat) /\ m.heap \in Seq(Items) /\ DOMAIN m.heap = 1 .. Len(m.heap) /\ Len(m.heap) \in Nat
      BY <1>1, PoolIs
<1>3. DOMAIN m2.heap = DOMAIN m.heap
      BY Zenon
<1>4. m2.heap \in Seq(Items)
  <2>1. \A i \in 1 .. Len(m.heap) : m2.heap[i] \in Items
        BY <1>2, Zenon
  <2>2. m2.heap = [i \in 1 .. Len(m.heap) |-> m2.heap[i]]
        BY <1>2
  <2>. DEFINE h == m2.heap
  <2>3. h = [i \in 1 .. Len(m.heap) |-> h[i]] /\ \A i \in 1 .. Len(m.heap) : h[i] \in Items
        BY <2>1, <2>2
  <2>. HIDE DEF h
  <2>4. h \in Seq(Items)
    <3>. DEFINE k == Len(m.heap)
    <3>1. k \in Nat /\ h = [i \in 1 .. k |-> h[i]] /\ \A i \in 1 .. k : h[i] \in Items
          BY <1>2, <2>3, Zenon
    <3>. HIDE DEF k
    <3>2. h \in [1 .. k -> Items]
          BY <3>1
    <3>. QED BY <3>1, <3>2, SeqDef
  <2>. QED BY <2>4 DEF h
<1>5. m2 \in Pools /\ m2.free = m.free
  <2>. DEFINE h == m2.heap
  <2>1. m2 = [free |-> m.free, heap |-> h] /\ h \in Seq(Items)
        BY <1>4
  <2>. HIDE DEF h
  <2>. QED BY <1>2, <2>1 DEF Pools
<1>6. \A d \in Range(s.devs) : /\ d \in DOMAIN m.heap /\ m.heap[d].is = "device"
                               /\ LinkOf(m, d) # 0 => LinkOf(m, d) \in DOMAIN m.heap /\ m.heap[LinkOf(m, d)].is = "link"
      BY NodeIs, Zenon
<1>7. \A i \in DOMAIN m.heap : /\ m2.heap[i].is = m.heap[i].is
                               /\ m.heap[i].is # "device" => m2.heap[i] = m.heap[i]
                               /\ m.heap[i].is = "device" => m2.heap[i].link = m.heap[i].link
      BY <1>6
<1>8. FreeOk(m2) /\ \A kind : Are(m2, kind) = Are(m, kind)
      BY <1>1, <1>3, <1>5, <1>7, ChangeIs, Zenon
<1>9. \A d \in Range(s.devs) : LinkOf(m2, d) = LinkOf(m, d)
      BY <1>6, <1>7 DEF LinkOf
<1>10. \A d \in Range(s.devs) : LinkOf(m, d) # 0 => m2.heap[LinkOf(m, d)] = m.heap[LinkOf(m, d)]
      BY <1>6, <1>7
<1>11. \A d \in Range(s.devs) : ConnAt(m2, d) = ConnAt(m, d)
      BY <1>9, <1>10, SameConn
<1>12. {LinkOf(m2, d) : d \in Range(s.devs)} = {LinkOf(m, d) : d \in Range(s.devs)}
      BY <1>9
<1>13. {ConnAt(m2, d) : d \in Range(s.devs)} = {ConnAt(m, d) : d \in Range(s.devs)}
      BY <1>11
<1>14. l # 0 => m2.heap[l] = Link(0)
  <2>1. l # 0 => l \in DOMAIN m.heap /\ m.heap[l].is = "link" /\ m.heap[l] = Link(0)
        BY NodeIs
  <2>. QED BY <1>7, <2>1
<1>15. Parts(m2, s, l)
      BY <1>1, <1>8, <1>9, <1>12, <1>14 DEF Parts
<1>16. Wired(m2, s, E)
      BY <1>1, <1>11, <1>13 DEF Wired
<1>. QED BY <1>1, <1>8, <1>15, <1>16 DEF Node

\* One device gets its widths.
LEMMA RetagKeeps ==
  ASSUME NEW m, NEW s, NEW l, NEW E, Node(m, s, l, E), NEW d \in Range(s.devs), NEW v \in WidthSet
  PROVE  LET m2 == [m EXCEPT !.heap[d].widths = v]
         IN /\ Node(m2, s, l, E) /\ DOMAIN m2.heap = DOMAIN m.heap
            /\ m2.heap[d] = [m.heap[d] EXCEPT !.widths = v]
            /\ \A i \in DOMAIN m.heap : i # d => m2.heap[i] = m.heap[i]
<1>. DEFINE x == [m.heap[d] EXCEPT !.widths = v]
            m2 == [m EXCEPT !.heap[d].widths = v]
            h == m.heap
            h2 == [h EXCEPT ![d] = x]
<1>1. d \in DOMAIN m.heap /\ m.heap[d] \in Devs /\ FreeOk(m)
      BY NodeIs, Zenon
<1>2. x \in Devs /\ x \in Items /\ x.is = "device" /\ x.link = m.heap[d].link
      BY <1>1 DEF Devs, Items
<1>3. m2 = [m EXCEPT !.heap = h2]
      OBVIOUS
<1>4. m \in Pools /\ \A i \in DOMAIN m.heap : m.heap[i] \in Items
      BY <1>1, PoolIs
<1>. HIDE DEF x
<1>5. h2 = [i \in DOMAIN h |-> h2[i]] /\ \A i \in DOMAIN h : h2[i] = IF i = d THEN x ELSE h[i]
  <2>. HIDE DEF h
  <2>. QED OBVIOUS
<1>. HIDE DEF h2
<1>6. m2.heap = h2 /\ m2 = [free |-> m.free, heap |-> m2.heap]
  <2>. HIDE DEF m2
  <2>. QED BY <1>3, <1>4 DEF Pools
<1>. HIDE DEF m2
<1>7. /\ m2.heap = [i \in DOMAIN m.heap |-> m2.heap[i]]
      /\ \A i \in DOMAIN m.heap : m2.heap[i] = IF i = d THEN x ELSE m.heap[i]
  <2>. HIDE DEF h
  <2>1. m2.heap = [i \in DOMAIN h |-> m2.heap[i]] /\ \A i \in DOMAIN h : m2.heap[i] = IF i = d THEN x ELSE h[i]
    <3>. DEFINE g == m2.heap
    <3>1. g = h2
          BY <1>6
    <3>. HIDE DEF g
    <3>2. g = [i \in DOMAIN h |-> g[i]] /\ \A i \in DOMAIN h : g[i] = IF i = d THEN x ELSE h[i]
          BY <1>5, <3>1
    <3>. QED BY <3>2 DEF g
  <2>. QED BY <2>1 DEF h
<1>8. \A i \in DOMAIN m.heap :
        /\ m2.heap[i] \in Items
        /\ \/ m2.heap[i] = m.heap[i]
           \/ i \in Range(s.devs) /\ m2.heap[i].is = "device" /\ m2.heap[i].link = m.heap[i].link
      BY <1>2, <1>4, <1>7
<1>9. Node(m2, s, l, E)
      BY <1>6, <1>7, <1>8, WidthsKeep
<1>10. DOMAIN m2.heap = DOMAIN m.heap
      BY <1>7, Zenon
<1>. QED BY <1>1, <1>7, <1>9, <1>10 DEF m2, x

\* eb_device_close of a link that broke, while its device stays open.
LEMMA BreakKeeps ==
  ASSUME NEW m, NEW s, NEW l, NEW E, Node(m, s, l, E), NEW d \in Range(s.devs), LinkOf(m, d) # 0
  PROVE  LET m2 == Free([m EXCEPT !.heap[d].link = 0], LinkOf(m, d))
         IN /\ Node(m2, s, l, E \ {ConnAt(m, d)}) /\ DOMAIN m2.heap = DOMAIN m.heap
            /\ m2.heap[d] = [m.heap[d] EXCEPT !.link = 0]
            /\ \A i \in DOMAIN m.heap : i # d /\ i # LinkOf(m, d) => m2.heap[i] = m.heap[i]
<1>. DEFINE g == LinkOf(m, d)
            m1 == [m EXCEPT !.heap[d].link = 0]
            m2 == Free(m1, g)
<1>1. /\ FreeOk(m) /\ s \in Socks /\ l \in Nat /\ Parts(m, s, l) /\ Wired(m, s, E)
      BY DEF Node
<1>2. /\ m \in Pools /\ m.heap \in Seq(Items) /\ DOMAIN m.heap = 1 .. Len(m.heap) /\ Len(m.heap) \in Nat
      /\ \A i \in DOMAIN m.heap : m.heap[i] \in Items /\ i \in Nat /\ i # 0
      BY <1>1, PoolIs
<1>3. /\ d \in DOMAIN m.heap /\ m.heap[d] \in Devs /\ m.heap[d].is = "device"
      /\ g \in DOMAIN m.heap /\ m.heap[g].is = "link" /\ g # d /\ g \in Nat
      BY <1>2, NodeIs
<1>. DEFINE x == [m.heap[d] EXCEPT !.link = 0]
<1>4. x \in Devs /\ x.is = "device" /\ x.link = 0 /\ x \in Items
      BY <1>3 DEF Devs, Items
<1>5. /\ m1 \in Pools /\ m1.free = m.free /\ DOMAIN m1.heap = DOMAIN m.heap /\ m1.heap[d] = x
      /\ \A i \in DOMAIN m.heap : i # d => m1.heap[i] = m.heap[i]
  <2>. DEFINE h == [m.heap EXCEPT ![d] = x]
  <2>1. m1 = [m EXCEPT !.heap = h]
        OBVIOUS
  <2>. HIDE DEF x
  <2>2. h \in Seq(Items) /\ DOMAIN h = DOMAIN m.heap /\ h[d] = x /\ \A i \in DOMAIN m.heap : i # d => h[i] = m.heap[i]
        BY <1>2, <1>3, <1>4
  <2>. HIDE DEF h
  <2>3. m1 \in Pools /\ m1.free = m.free /\ m1.heap = h
        BY <1>2, <2>1, <2>2, Zenon DEF Pools
  <2>. QED BY <2>2, <2>3, Zenon
<1>. HIDE DEF m1, x
<1>6. FreeOk(m1) /\ \A kind : Are(m1, kind) = Are(m, kind)
  <2>1. \A i \in DOMAIN m.heap : m1.heap[i].is = m.heap[i].is
        BY <1>3, <1>4, <1>5
  <2>. QED BY <1>1, <1>5, <2>1, ChangeIs
<1>7. /\ FreeOk(m2) /\ DOMAIN m2.heap = DOMAIN m.heap /\ m2.heap[g] = Unused
      /\ \A i \in DOMAIN m.heap : i # g => m2.heap[i] = m1.heap[i]
  <2>. HIDE DEF g
  <2>1. <<g>> \in Seq(Nat) /\ Range(<<g>>) = {g} /\ IsInjective(<<g>>)
        BY <1>3, OneIs
  <2>. DEFINE F == <<g>>
  <2>2. /\ F \in Seq(Nat) /\ IsInjective(F) /\ Range(F) \subseteq DOMAIN m1.heap
        /\ \A i \in Range(F) : m1.heap[i].is # "free"
        BY <1>3, <1>5, <2>1
  <2>3. Range(F) = {g} /\ m2 = FreeAll(m1, F)
        BY <2>1 DEF Free
  <2>. HIDE DEF F, m2
  <2>4. /\ FreeOk(m2) /\ DOMAIN m2.heap = DOMAIN m1.heap
        /\ \A i \in DOMAIN m1.heap : m2.heap[i] = IF i \in Range(F) THEN Unused ELSE m1.heap[i]
        BY <1>6, <2>2, <2>3, FreeAllIs
  <2>. QED BY <1>3, <1>5, <2>3, <2>4
<1>. HIDE DEF m2
<1>8. /\ \A i \in DOMAIN m.heap : i # d /\ i # g => m2.heap[i] = m.heap[i]
      /\ m2.heap[d] = x
      BY <1>3, <1>5, <1>7
<1>9. Unused.is = "free"
      BY DEF Unused
<1>10. /\ Are(m2, "transport") = Are(m, "transport") /\ Are(m2, "socket") = Are(m, "socket")
       /\ Are(m2, "aux") = Are(m, "aux") /\ Are(m2, "device") = Are(m, "device")
       /\ Are(m2, "link") = Are(m, "link") \ {g}
      BY <1>3, <1>4, <1>7, <1>8, <1>9 DEF Are
<1>11. LinkOf(m2, d) = 0 /\ ConnAt(m2, d) = 0
      BY <1>4, <1>8 DEF LinkOf, ConnAt
<1>12. \A e \in Range(s.devs) : e # d => /\ LinkOf(m2, e) = LinkOf(m, e) /\ ConnAt(m2, e) = ConnAt(m, e)
                                         /\ LinkOf(m, e) # g
  <2>1. \A e \in Range(s.devs) : /\ e \in DOMAIN m.heap /\ m.heap[e].is = "device"
                                 /\ LinkOf(m, e) # 0 => LinkOf(m, e) \in DOMAIN m.heap /\ m.heap[LinkOf(m, e)].is = "link"
        BY NodeIs
  <2>2. \A e \in Range(s.devs) : e # d => LinkOf(m, e) # g
    <3>1. g # 0
          BY <1>2, <1>3
    <3>2. \A e, f \in Range(s.devs) : LinkOf(m, e) = LinkOf(m, f) /\ LinkOf(m, e) # 0 => e = f
          BY <1>1 DEF Parts
    <3>. QED BY <3>1, <3>2
  <2>3. \A e \in Range(s.devs) : e # d => LinkOf(m2, e) = LinkOf(m, e)
        BY <1>3, <1>8, <2>1 DEF LinkOf
  <2>4. \A e \in Range(s.devs) : e # d /\ LinkOf(m, e) # 0 => m2.heap[LinkOf(m, e)] = m.heap[LinkOf(m, e)]
        BY <1>3, <1>8, <2>1, <2>2
  <2>5. \A e \in Range(s.devs) : e # d => ConnAt(m2, e) = ConnAt(m, e)
        BY <2>3, <2>4, SameConn
  <2>. QED BY <2>2, <2>3, <2>5
<1>13. /\ \A e \in Range(s.devs) : LinkOf(m, e) = l => l = 0
       /\ l # 0 => l # g /\ m2.heap[l] = Link(0)
  <2>1. l # 0 => l \in DOMAIN m.heap /\ m.heap[l].is = "link" /\ m.heap[l] = Link(0)
        BY NodeIs
  <2>2. \A e \in Range(s.devs) : LinkOf(m, e) = l => l = 0
        BY <1>1 DEF Parts
  <2>3. l # 0 => l # g /\ l # d
        BY <1>3, <2>1, <2>2 DEF g
  <2>. QED BY <1>8, <2>1, <2>2, <2>3
<1>14. Parts(m2, s, l)
  <2>1. /\ IsInjective(s.trans) /\ Range(s.trans) = Are(m, "transport")
        /\ IsInjective(s.devs) /\ Range(s.devs) = Are(m, "device")
        /\ {s.self} \ {0} = Are(m, "socket") /\ {s.aux} \ {0} = Are(m, "aux")
        BY <1>1 DEF Parts
  <2>2. ({l} \cup {LinkOf(m2, e) : e \in Range(s.devs)}) \ {0} = Are(m2, "link")
    <3>1. ({l} \cup {LinkOf(m, e) : e \in Range(s.devs)}) \ {0} = Are(m, "link")
          BY <1>1 DEF Parts
    <3>2. \A c : c \in {LinkOf(m2, e) : e \in Range(s.devs)} \ {0} => c \in {LinkOf(m, e) : e \in Range(s.devs)} \ {0, g}
          BY <1>11, <1>12
    <3>3. \A c : c \in {LinkOf(m, e) : e \in Range(s.devs)} \ {0, g} => c \in {LinkOf(m2, e) : e \in Range(s.devs)} \ {0}
      <4>1. LinkOf(m, d) = g
            BY DEF g
      <4>. QED BY <1>12, <4>1
    <3>. QED BY <1>10, <1>13, <3>1, <3>2, <3>3
  <2>3. \A e, f \in Range(s.devs) : LinkOf(m2, e) = LinkOf(m2, f) /\ LinkOf(m2, e) # 0 => e = f
    <3>1. \A e, f \in Range(s.devs) : LinkOf(m, e) = LinkOf(m, f) /\ LinkOf(m, e) # 0 => e = f
          BY <1>1 DEF Parts
    <3>. QED BY <1>11, <1>12, <3>1
  <2>4. \A e \in Range(s.devs) : LinkOf(m2, e) = l => l = 0
        BY <1>11, <1>12, <1>13
  <2>. QED BY <1>10, <1>13, <2>1, <2>2, <2>3, <2>4 DEF Parts
<1>15. Wired(m2, s, E \ {ConnAt(m, d)})
  <2>1. {ConnAt(m, e) : e \in Range(s.devs)} \ {0} = E
        BY <1>1 DEF Wired
  <2>2. \A e, f \in Range(s.devs) : ConnAt(m, e) = ConnAt(m, f) /\ ConnAt(m, e) # 0 => e = f
        BY <1>1 DEF Wired
  <2>3. \A e, f \in Range(s.devs) : ConnAt(m2, e) = ConnAt(m2, f) /\ ConnAt(m2, e) # 0 => e = f
        BY <1>11, <1>12, <2>2
  <2>4. \A e \in Range(s.devs) : e # d /\ ConnAt(m, e) # 0 => ConnAt(m, e) # ConnAt(m, d)
        BY <2>2
  <2>5. \A c : c \in {ConnAt(m2, e) : e \in Range(s.devs)} \ {0} => c \in E \ {ConnAt(m, d)}
        BY <1>11, <1>12, <2>1, <2>4
  <2>6. \A c : c \in E \ {ConnAt(m, d)} => c \in {ConnAt(m2, e) : e \in Range(s.devs)} \ {0}
        BY <1>12, <2>1
  <2>. QED BY <2>3, <2>5, <2>6 DEF Wired
<1>16. Node(m2, s, l, E \ {ConnAt(m, d)})
      BY <1>1, <1>7, <1>14, <1>15 DEF Node
<1>. QED BY <1>7, <1>8, <1>16 DEF m2, m1, g, x

\* eb_socket_check takes a link to accept a connection with.
LEMMA CheckStartKeeps ==
  ASSUME NEW m, NEW s, NEW E, Node(m, s, 0, E), ~Full(m)
  PROVE  /\ Node(New(m, Link(0)), s, Fresh(m), E) /\ DOMAIN New(m, Link(0)).heap = DOMAIN m.heap
         /\ \A i \in DOMAIN m.heap : m.heap[i].is # "free" => New(m, Link(0)).heap[i] = m.heap[i]
<1>. DEFINE g == Fresh(m)
            m2 == New(m, Link(0))
<1>1. FreeOk(m) /\ s \in Socks /\ Parts(m, s, 0) /\ Wired(m, s, E)
      BY DEF Node
<1>2. Link(0) \in Items /\ Link(0).is = "link"
      BY DEF Link, Links, Items
<1>3. /\ FreeOk(m2) /\ DOMAIN m2.heap = DOMAIN m.heap /\ g \in DOMAIN m.heap /\ m.heap[g].is = "free"
      /\ m2.heap[g] = Link(0) /\ \A i \in DOMAIN m.heap : i # g => m2.heap[i] = m.heap[i]
      BY <1>1, <1>2, NewIs
<1>4. g \in Nat /\ g # 0
      BY <1>1, <1>3, PoolIs
<1>. HIDE DEF g, m2
<1>5. \A i \in DOMAIN m.heap : m.heap[i].is # "free" => i # g /\ m2.heap[i] = m.heap[i]
      BY <1>3
<1>6. /\ Are(m2, "transport") = Are(m, "transport") /\ Are(m2, "socket") = Are(m, "socket")
      /\ Are(m2, "aux") = Are(m, "aux") /\ Are(m2, "device") = Are(m, "device")
      /\ Are(m2, "link") = Are(m, "link") \cup {g}
      BY <1>2, <1>3 DEF Are
<1>7. \A e \in Range(s.devs) : /\ LinkOf(m2, e) = LinkOf(m, e) /\ ConnAt(m2, e) = ConnAt(m, e)
                               /\ LinkOf(m, e) # g
  <2>1. \A e \in Range(s.devs) : /\ e \in DOMAIN m.heap /\ m.heap[e].is = "device"
                                 /\ LinkOf(m, e) # 0 => LinkOf(m, e) \in DOMAIN m.heap /\ m.heap[LinkOf(m, e)].is = "link"
        BY NodeIs
  <2>2. \A e \in Range(s.devs) : LinkOf(m2, e) = LinkOf(m, e)
        BY <1>5, <2>1 DEF LinkOf
  <2>3. \A e \in Range(s.devs) : LinkOf(m, e) # 0 => m2.heap[LinkOf(m, e)] = m.heap[LinkOf(m, e)]
        BY <1>5, <2>1
  <2>4. \A e \in Range(s.devs) : ConnAt(m2, e) = ConnAt(m, e)
        BY <2>2, <2>3, SameConn
  <2>5. \A e \in Range(s.devs) : LinkOf(m, e) # g
        BY <1>3, <1>4, <2>1
  <2>. QED BY <2>2, <2>4, <2>5
<1>8. {LinkOf(m2, e) : e \in Range(s.devs)} = {LinkOf(m, e) : e \in Range(s.devs)}
      BY <1>7
<1>9. {ConnAt(m2, e) : e \in Range(s.devs)} = {ConnAt(m, e) : e \in Range(s.devs)}
      BY <1>7
<1>10. Parts(m2, s, g)
  <2>1. /\ IsInjective(s.trans) /\ Range(s.trans) = Are(m, "transport")
        /\ IsInjective(s.devs) /\ Range(s.devs) = Are(m, "device")
        /\ {s.self} \ {0} = Are(m, "socket") /\ {s.aux} \ {0} = Are(m, "aux")
        BY <1>1 DEF Parts
  <2>2. ({0} \cup {LinkOf(m, e) : e \in Range(s.devs)}) \ {0} = Are(m, "link")
        BY <1>1 DEF Parts
  <2>3. ({g} \cup {LinkOf(m2, e) : e \in Range(s.devs)}) \ {0} = Are(m2, "link")
        BY <1>4, <1>6, <1>8, <2>2
  <2>4. \A e, f \in Range(s.devs) : LinkOf(m2, e) = LinkOf(m2, f) /\ LinkOf(m2, e) # 0 => e = f
        BY <1>1, <1>7 DEF Parts
  <2>. QED BY <1>3, <1>6, <1>7, <2>1, <2>3, <2>4 DEF Parts
<1>11. Wired(m2, s, E)
      BY <1>1, <1>7, <1>9 DEF Wired
<1>12. Node(m2, s, g, E)
      BY <1>1, <1>3, <1>4, <1>10, <1>11 DEF Node
<1>. QED BY <1>3, <1>5, <1>12 DEF g, m2

\* eb_socket_check gives back the link that it accepted nothing with.
LEMMA CheckEndKeeps ==
  ASSUME NEW m, NEW s, NEW l, NEW E, Node(m, s, l, E), l # 0
  PROVE  /\ Node(Free(m, l), s, 0, E) /\ DOMAIN Free(m, l).heap = DOMAIN m.heap
         /\ \A i \in DOMAIN m.heap : i # l => Free(m, l).heap[i] = m.heap[i]
<1>. DEFINE m2 == Free(m, l)
            F == <<l>>
<1>1. FreeOk(m) /\ s \in Socks /\ l \in Nat /\ Parts(m, s, l) /\ Wired(m, s, E)
      BY DEF Node
<1>2. l \in DOMAIN m.heap /\ m.heap[l].is = "link"
      BY NodeIs
<1>3. F \in Seq(Nat) /\ IsInjective(F) /\ Range(F) = {l}
      BY <1>1, OneIs, Zenon
<1>4. m2 = FreeAll(m, F)
      BY DEF Free
<1>. HIDE DEF F, m2
<1>5. /\ FreeOk(m2) /\ DOMAIN m2.heap = DOMAIN m.heap
      /\ \A i \in DOMAIN m.heap : m2.heap[i] = IF i = l THEN Unused ELSE m.heap[i]
  <2>1. Range(F) \subseteq DOMAIN m.heap /\ \A i \in Range(F) : m.heap[i].is # "free"
        BY <1>2, <1>3
  <2>. QED BY <1>1, <1>3, <1>4, <2>1, FreeAllIs
<1>6. Unused.is = "free"
      BY DEF Unused
<1>7. /\ Are(m2, "transport") = Are(m, "transport") /\ Are(m2, "socket") = Are(m, "socket")
      /\ Are(m2, "aux") = Are(m, "aux") /\ Are(m2, "device") = Are(m, "device")
      /\ Are(m2, "link") = Are(m, "link") \ {l}
      BY <1>2, <1>5, <1>6 DEF Are
<1>8. \A e \in Range(s.devs) : /\ LinkOf(m2, e) = LinkOf(m, e) /\ ConnAt(m2, e) = ConnAt(m, e)
                               /\ LinkOf(m, e) # l
  <2>1. \A e \in Range(s.devs) : /\ e \in DOMAIN m.heap /\ m.heap[e].is = "device"
                                 /\ LinkOf(m, e) # 0 => LinkOf(m, e) \in DOMAIN m.heap /\ m.heap[LinkOf(m, e)].is = "link"
        BY NodeIs
  <2>2. \A e \in Range(s.devs) : LinkOf(m2, e) = LinkOf(m, e)
        BY <1>2, <1>5, <2>1 DEF LinkOf
  <2>3. \A e \in Range(s.devs) : LinkOf(m, e) # l
        BY <1>1 DEF Parts
  <2>4. \A e \in Range(s.devs) : LinkOf(m, e) # 0 => m2.heap[LinkOf(m, e)] = m.heap[LinkOf(m, e)]
        BY <1>5, <2>1, <2>3
  <2>5. \A e \in Range(s.devs) : ConnAt(m2, e) = ConnAt(m, e)
        BY <2>2, <2>4, SameConn
  <2>. QED BY <2>2, <2>3, <2>5
<1>9. {LinkOf(m2, e) : e \in Range(s.devs)} = {LinkOf(m, e) : e \in Range(s.devs)} /\ l \notin {LinkOf(m, e) : e \in Range(s.devs)}
      BY <1>8
<1>10. {ConnAt(m2, e) : e \in Range(s.devs)} = {ConnAt(m, e) : e \in Range(s.devs)}
      BY <1>8
<1>11. Parts(m2, s, 0)
  <2>1. /\ IsInjective(s.trans) /\ Range(s.trans) = Are(m, "transport")
        /\ IsInjective(s.devs) /\ Range(s.devs) = Are(m, "device")
        /\ {s.self} \ {0} = Are(m, "socket") /\ {s.aux} \ {0} = Are(m, "aux")
        BY <1>1 DEF Parts
  <2>2. ({l} \cup {LinkOf(m, e) : e \in Range(s.devs)}) \ {0} = Are(m, "link")
        BY <1>1 DEF Parts
  <2>3. ({0} \cup {LinkOf(m2, e) : e \in Range(s.devs)}) \ {0} = Are(m2, "link")
        BY <1>7, <1>9, <2>2
  <2>4. \A e, f \in Range(s.devs) : LinkOf(m2, e) = LinkOf(m2, f) /\ LinkOf(m2, e) # 0 => e = f
        BY <1>1, <1>8 DEF Parts
  <2>. QED BY <1>7, <1>8, <2>1, <2>3, <2>4 DEF Parts
<1>12. Wired(m2, s, E)
      BY <1>1, <1>8, <1>10 DEF Wired
<1>13. Node(m2, s, 0, E)
      BY <1>1, <1>5, <1>11, <1>12 DEF Node
<1>. QED BY <1>5, <1>13 DEF m2

\* posix-tcp.c's accept: the link is of the new device, and another one takes its place.
AcceptedMem(m, l, dev, k) == New(New([m EXCEPT !.heap[l] = Link(k)], dev), Link(0))
Accepts(m, s, l, E, dev, k) ==
  Node(m, s, l, E) /\ l # 0 /\ Len(m.free) >= 2 /\ dev \in Devs /\ dev.link = l /\ k \in Nat \ {0} /\ k \notin E
LEMMA AcceptKeeps ==
  ASSUME NEW m, NEW s, NEW l, NEW E, NEW dev, NEW k, Accepts(m, s, l, E, dev, k)
  PROVE  /\ Node(AcceptedMem(m, l, dev, k), [s EXCEPT !.devs = <<Fresh(m)>> \o @], m.free[2], With(E, k))
         /\ DOMAIN AcceptedMem(m, l, dev, k).heap = DOMAIN m.heap /\ Fresh(m) = m.free[1]
         /\ m.heap[m.free[1]].is = "free"
         /\ \A i \in DOMAIN m.heap : m.heap[i].is # "free" /\ i # l => AcceptedMem(m, l, dev, k).heap[i] = m.heap[i]
         /\ Added(m, AcceptedMem(m, l, dev, k), l, dev, k)
<1>. DEFINE m1 == [m EXCEPT !.heap[l] = Link(k)]
            m3 == New(m1, dev)
            m2 == New(m3, Link(0))
            d == m.free[1]
            g == m.free[2]
            s2 == [s EXCEPT !.devs = <<Fresh(m)>> \o @]
<1>. USE DEF Accepts
<1>1. FreeOk(m) /\ s \in Socks /\ l \in Nat /\ Parts(m, s, l) /\ Wired(m, s, E)
      BY DEF Node
<1>2. /\ m \in Pools /\ m.heap \in Seq(Items) /\ DOMAIN m.heap = 1 .. Len(m.heap) /\ Len(m.heap) \in Nat
      /\ Len(m.free) \in Nat /\ DOMAIN m.free = 1 .. Len(m.free) /\ m.free # <<>>
      /\ \A i \in 1 .. Len(m.free) : m.free[i] \in DOMAIN m.heap /\ m.heap[m.free[i]].is = "free"
      /\ \A i \in DOMAIN m.heap : i \in Nat /\ i # 0
  <2>1. Len(<<>>) = 0
        OBVIOUS
  <2>. QED BY <1>1, <2>1, PoolIs
<1>3. l \in DOMAIN m.heap /\ m.heap[l].is = "link"
      BY NodeIs
<1>4. /\ dev \in Items /\ dev.is = "device" /\ Link(k) \in Items /\ Link(k).is = "link" /\ Link(k).conn = k
      /\ Link(0) \in Items /\ Link(0).is = "link"
      BY DEF Devs, Items, Link, Links
<1>5. /\ m1 \in Pools /\ m1.free = m.free /\ DOMAIN m1.heap = DOMAIN m.heap /\ m1.heap[l] = Link(k)
      /\ \A i \in DOMAIN m.heap : i # l => m1.heap[i] = m.heap[i]
  <2>. DEFINE h == [m.heap EXCEPT ![l] = Link(k)]
  <2>1. m1 = [m EXCEPT !.heap = h]
        OBVIOUS
  <2>2. h \in Seq(Items) /\ DOMAIN h = DOMAIN m.heap /\ h[l] = Link(k) /\ \A i \in DOMAIN m.heap : i # l => h[i] = m.heap[i]
        BY <1>2, <1>3, <1>4
  <2>. HIDE DEF h
  <2>3. m1 \in Pools /\ m1.free = m.free /\ m1.heap = h
        BY <1>2, <2>1, <2>2, Zenon DEF Pools
  <2>. QED BY <2>2, <2>3, Zenon
<1>. HIDE DEF m1
<1>6. FreeOk(m1) /\ \A kind : Are(m1, kind) = Are(m, kind)
  <2>1. \A i \in DOMAIN m.heap : m1.heap[i].is = m.heap[i].is
        BY <1>3, <1>4, <1>5
  <2>. QED BY <1>1, <1>5, <2>1, ChangeIs
<1>7. /\ FreeOk(m3) /\ DOMAIN m3.heap = DOMAIN m.heap /\ Fresh(m) = d /\ d \in DOMAIN m.heap /\ m1.heap[d].is = "free"
      /\ m3.heap[d] = dev /\ \A i \in DOMAIN m.heap : i # d => m3.heap[i] = m1.heap[i]
      /\ m3.free[1] = g /\ Len(m3.free) = Len(m.free) - 1
  <2>1. 1 \in 1 .. Len(m.free) - 1 /\ 1 + 1 = 2 /\ ~Full(m1)
        BY <1>2, <1>5 DEF Full
  <2>2. /\ FreeOk(m3) /\ DOMAIN m3.heap = DOMAIN m1.heap /\ Fresh(m1) = m1.free[1] /\ Fresh(m1) \in DOMAIN m1.heap
        /\ m1.heap[Fresh(m1)].is = "free" /\ m3.heap[Fresh(m1)] = dev
        /\ \A i \in DOMAIN m1.heap : i # Fresh(m1) => m3.heap[i] = m1.heap[i]
        /\ Len(m3.free) = Len(m1.free) - 1 /\ \A i \in 1 .. Len(m1.free) - 1 : m3.free[i] = m1.free[i + 1]
    <3>1. FreeOk(m1) /\ ~Full(m1) /\ dev \in Items /\ dev.is # "free"
          BY <1>4, <1>6, <2>1
    <3>. QED BY <3>1, NewIs
  <2>3. Fresh(m) = Fresh(m1)
        BY <1>5 DEF Fresh
  <2>. QED BY <1>5, <2>1, <2>2, <2>3
<1>. HIDE DEF m3
<1>8. /\ FreeOk(m2) /\ DOMAIN m2.heap = DOMAIN m.heap /\ g \in DOMAIN m.heap /\ m3.heap[g].is = "free"
      /\ m2.heap[g] = Link(0) /\ \A i \in DOMAIN m.heap : i # g => m2.heap[i] = m3.heap[i]
  <2>1. Len(<<>>) = 0
        OBVIOUS
  <2>2. ~Full(m3)
        BY <1>2, <1>7, <2>1 DEF Full
  <2>3. /\ FreeOk(m2) /\ DOMAIN m2.heap = DOMAIN m3.heap /\ Fresh(m3) = m3.free[1] /\ Fresh(m3) \in DOMAIN m3.heap
        /\ m3.heap[Fresh(m3)].is = "free" /\ m2.heap[Fresh(m3)] = Link(0)
        /\ \A i \in DOMAIN m3.heap : i # Fresh(m3) => m2.heap[i] = m3.heap[i]
        BY <1>4, <1>7, <2>2, NewIs
  <2>. QED BY <1>7, <2>3
<1>. HIDE DEF m2, d, g
<1>9. /\ d # g /\ l # d /\ l # g /\ m.heap[g].is = "free" /\ m.heap[d].is = "free" /\ m2.heap[d] = dev
      /\ m2.heap[l] = Link(k) /\ d \in Nat /\ d # 0 /\ g \in Nat /\ g # 0
  <2>1. d # g
        BY <1>4, <1>7, <1>8
  <2>2. l # d /\ m.heap[d].is = "free"
        BY <1>4, <1>5, <1>7
  <2>3. l # g /\ m.heap[g].is = "free"
        BY <1>4, <1>5, <1>7, <1>8, <2>1, <2>2, <1>3
  <2>. QED BY <1>2, <1>5, <1>7, <1>8, <1>3, <2>1, <2>2, <2>3
<1>10. \A i \in DOMAIN m.heap : i # d /\ i # g /\ i # l => m2.heap[i] = m.heap[i]
      BY <1>5, <1>7, <1>8
<1>11. /\ Are(m2, "transport") = Are(m, "transport") /\ Are(m2, "socket") = Are(m, "socket")
       /\ Are(m2, "aux") = Are(m, "aux") /\ Are(m2, "device") = Are(m, "device") \cup {d}
       /\ Are(m2, "link") = Are(m, "link") \cup {g}
  <2>1. m2.heap[d].is = "device" /\ m2.heap[g].is = "link" /\ m2.heap[l].is = "link"
        BY <1>4, <1>8, <1>9
  <2>. QED BY <1>3, <1>7, <1>8, <1>9, <1>10, <2>1 DEF Are
<1>12. /\ s2 \in Socks /\ s2.self = s.self /\ s2.aux = s.aux /\ s2.trans = s.trans
       /\ IsInjective(s2.devs) /\ Range(s2.devs) = {d} \cup Range(s.devs) /\ d \notin Range(s.devs)
  <2>. DEFINE one == <<d>>
  <2>1. s.devs \in Seq(Nat) /\ one \in Seq(Nat) /\ Range(one) = {d} /\ IsInjective(one)
        BY <1>1, <1>9, OneIs, Zenon DEF Socks
  <2>2. d \notin Range(s.devs) /\ IsInjective(s.devs)
        BY <1>1, <1>9 DEF Parts, Are
  <2>3. s2 = [s EXCEPT !.devs = one \o s.devs]
        BY <1>1, <1>7 DEF Socks
  <2>. HIDE DEF one, s2
  <2>4. one \o s.devs \in Seq(Nat) /\ IsInjective(one \o s.devs) /\ Range(one \o s.devs) = {d} \cup Range(s.devs)
    <3>1. Range(one) \cap Range(s.devs) = {}
          BY <2>1, <2>2
    <3>2. /\ one \o s.devs \in Seq(Nat) /\ Range(one \o s.devs) = Range(one) \cup Range(s.devs)
          /\ IsInjective(one \o s.devs)
          BY <2>1, <2>2, <3>1, ConcatIs
    <3>. QED BY <2>1, <3>2
  <2>. DEFINE q == one \o s.devs
  <2>5. q \in Seq(Nat) /\ s2 = [s EXCEPT !.devs = q]
        BY <2>3, <2>4
  <2>. HIDE DEF q
  <2>6. s2 \in Socks /\ s2.self = s.self /\ s2.aux = s.aux /\ s2.trans = s.trans /\ s2.devs = q
        BY <1>1, <2>5, Zenon DEF Socks
  <2>. QED BY <2>2, <2>4, <2>6 DEF q
<1>. HIDE DEF s2
<1>13. \A e \in Range(s.devs) : LinkOf(m2, e) = LinkOf(m, e) /\ ConnAt(m2, e) = ConnAt(m, e)
       /\ LinkOf(m, e) # g /\ LinkOf(m, e) # l /\ e \in DOMAIN m.heap
  <2>1. \A e \in Range(s.devs) : /\ e \in DOMAIN m.heap /\ m.heap[e].is = "device"
                                 /\ LinkOf(m, e) # 0 => LinkOf(m, e) \in DOMAIN m.heap /\ m.heap[LinkOf(m, e)].is = "link"
        BY NodeIs
  <2>2. \A e \in Range(s.devs) : LinkOf(m2, e) = LinkOf(m, e)
        BY <1>3, <1>9, <1>10, <2>1 DEF LinkOf
  <2>3. \A e \in Range(s.devs) : LinkOf(m, e) # l
        BY <1>1 DEF Parts
  <2>4. \A e \in Range(s.devs) : LinkOf(m, e) # g /\ LinkOf(m, e) # d
        BY <1>9, <2>1
  <2>5. \A e \in Range(s.devs) : LinkOf(m, e) # 0 => m2.heap[LinkOf(m, e)] = m.heap[LinkOf(m, e)]
        BY <1>10, <2>1, <2>3, <2>4
  <2>6. \A e \in Range(s.devs) : ConnAt(m2, e) = ConnAt(m, e)
        BY <2>2, <2>5, SameConn, Zenon
  <2>. QED BY <2>1, <2>2, <2>3, <2>4, <2>6
<1>14. LinkOf(m2, d) = l /\ ConnAt(m2, d) = k
      BY <1>4, <1>9 DEF LinkOf, ConnAt
<1>15. Parts(m2, s2, g)
  <2>1. IsInjective(s.trans) /\ Range(s.trans) = Are(m, "transport") /\ Range(s.devs) = Are(m, "device")
        /\ {s.self} \ {0} = Are(m, "socket") /\ {s.aux} \ {0} = Are(m, "aux")
        BY <1>1 DEF Parts
  <2>2. ({g} \cup {LinkOf(m2, e) : e \in Range(s2.devs)}) \ {0} = Are(m2, "link")
    <3>1. ({l} \cup {LinkOf(m, e) : e \in Range(s.devs)}) \ {0} = Are(m, "link")
          BY <1>1 DEF Parts
    <3>2. {LinkOf(m2, e) : e \in Range(s2.devs)} = {l} \cup {LinkOf(m, e) : e \in Range(s.devs)}
          BY <1>12, <1>13, <1>14
    <3>. QED BY <1>9, <1>11, <3>1, <3>2, Zenon
  <2>3. \A e, f \in Range(s2.devs) : LinkOf(m2, e) = LinkOf(m2, f) /\ LinkOf(m2, e) # 0 => e = f
    <3>1. \A e, f \in Range(s.devs) : LinkOf(m, e) = LinkOf(m, f) /\ LinkOf(m, e) # 0 => e = f
          BY <1>1 DEF Parts
    <3>. QED BY <1>12, <1>13, <1>14, <3>1
  <2>4. \A e \in Range(s2.devs) : LinkOf(m2, e) # g
        BY <1>9, <1>12, <1>13, <1>14
  <2>. QED BY <1>8, <1>11, <1>12, <2>1, <2>2, <2>3, <2>4 DEF Parts
<1>16. Wired(m2, s2, E \cup {k})
  <2>1. /\ {ConnAt(m, e) : e \in Range(s.devs)} \ {0} = E
        /\ \A e, f \in Range(s.devs) : ConnAt(m, e) = ConnAt(m, f) /\ ConnAt(m, e) # 0 => e = f
        BY <1>1 DEF Wired
  <2>2. {ConnAt(m2, e) : e \in Range(s2.devs)} = {k} \cup {ConnAt(m, e) : e \in Range(s.devs)}
        BY <1>12, <1>13, <1>14
  <2>3. \A e \in Range(s.devs) : ConnAt(m2, e) # 0 => ConnAt(m2, e) # k
        BY <1>13, <2>1
  <2>4. \A e, f \in Range(s2.devs) : ConnAt(m2, e) = ConnAt(m2, f) /\ ConnAt(m2, e) # 0 => e = f
        BY <1>12, <1>13, <1>14, <2>1, <2>3
  <2>5. {ConnAt(m2, e) : e \in Range(s2.devs)} \ {0} = E \cup {k}
        BY <2>1, <2>2, Zenon
  <2>. QED BY <2>4, <2>5 DEF Wired
<1>17. Node(m2, s2, g, E \cup {k})
      BY <1>1, <1>8, <1>9, <1>12, <1>15, <1>16 DEF Node
<1>18. \A i \in DOMAIN m.heap : m.heap[i].is # "free" /\ i # l => m2.heap[i] = m.heap[i]
      BY <1>9, <1>10
<1>19. With(E, k) = E \cup {k}
      BY <1>1 DEF With, Wired
<1>20. AcceptedMem(m, l, dev, k) = m2
      BY DEF AcceptedMem, m1, m2, m3
<1>21. Added(m, m2, l, dev, k)
       BY <1>3, <1>7, <1>8, <1>9, <1>10 DEF Added
<1>. QED BY <1>7, <1>8, <1>9, <1>17, <1>18, <1>19, <1>20, <1>21 DEF s2, d, g

-----------------------------------------------------------------------------
(* eb_socket_open and eb_socket_close.                                     *)

\* What the transports opened so far have taken of pool m0.
Grown(m0, m, q) ==
  /\ FreeOk(m) /\ DOMAIN m.heap = DOMAIN m0.heap
  /\ q \in Seq(Nat) /\ IsInjective(q) /\ Range(q) = Are(m, "transport")
  /\ \A kind \in {"socket", "aux", "device", "link"} : Are(m, kind) = Are(m0, kind)
Opening(m0, s) == s = [m |-> s.m, trans |-> s.trans, status |-> s.status] /\ Grown(m0, s.m, s.trans)

\* One more of eb_transports.
LEMMA OpenTransportIs ==
  ASSUME NEW m0, NEW s, Opening(m0, s), NEW kind \in AllKinds, NEW r
  PROVE  Opening(m0, OpenTransport(s, kind, r))
<1>. DEFINE x == [is |-> "transport", kind |-> kind]
            t == OpenTransport(s, kind, r)
            g == Fresh(s.m)
            m2 == New(s.m, x)
            q == <<g>> \o s.trans
<1>1. CASE s.status # "OK" \/ (~Full(s.m) /\ r = "ADDRESS")
  <2>1. t = s
        BY <1>1 DEF OpenTransport
  <2>. QED BY <2>1
<1>2. CASE ~(s.status # "OK" \/ (~Full(s.m) /\ r = "ADDRESS")) /\ (Full(s.m) \/ r # "OK")
  <2>1. t = [s EXCEPT !.status = IF Full(s.m) THEN "OOM" ELSE r]
        BY <1>2 DEF OpenTransport
  <2>2. s = [m |-> s.m, trans |-> s.trans, status |-> s.status]
        BY DEF Opening
  <2>. DEFINE u == IF Full(s.m) THEN "OOM" ELSE r
  <2>3. t = [m |-> s.m, trans |-> s.trans, status |-> u]
    <3>. HIDE DEF t, u
    <3>. QED BY <2>1, <2>2 DEF u
  <2>. HIDE DEF u, t
  <2>4. t.m = s.m /\ t.trans = s.trans /\ t = [m |-> t.m, trans |-> t.trans, status |-> t.status]
        BY <2>3
  <2>. QED BY <2>4 DEF Opening, t
<1>3. CASE ~(s.status # "OK" \/ (~Full(s.m) /\ r = "ADDRESS")) /\ ~(Full(s.m) \/ r # "OK")
  <2>1. t = [m |-> m2, trans |-> q, status |-> "OK"]
        BY <1>3 DEF OpenTransport
  <2>2. Grown(m0, s.m, s.trans)
        BY DEF Opening
  <2>3. x \in Items /\ x.is = "transport"
        BY DEF Transports, Items
  <2>4. FreeOk(s.m) /\ ~Full(s.m) /\ x \in Items /\ x.is # "free"
        BY <1>3, <2>2, <2>3 DEF Grown
  <2>. HIDE DEF x
  <2>5. /\ FreeOk(m2) /\ DOMAIN m2.heap = DOMAIN s.m.heap /\ g \in DOMAIN s.m.heap /\ s.m.heap[g].is = "free"
        /\ m2.heap[g] = x /\ \A i \in DOMAIN s.m.heap : i # g => m2.heap[i] = s.m.heap[i]
        BY <2>4, NewIs
  <2>6. g \in Nat
        BY <2>4, <2>5, PoolIs
  <2>. HIDE DEF m2, g
  <2>7. /\ Are(m2, "transport") = Are(s.m, "transport") \cup {g} /\ g \notin Are(s.m, "transport")
        /\ \A k \in {"socket", "aux", "device", "link"} : Are(m2, k) = Are(s.m, k)
        BY <2>3, <2>5 DEF Are
  <2>8. q \in Seq(Nat) /\ IsInjective(q) /\ Range(q) = Are(m2, "transport")
    <3>. DEFINE one == <<g>>
    <3>1. one \in Seq(Nat) /\ Range(one) = {g} /\ IsInjective(one)
          BY <2>6, OneIs, Zenon
    <3>2. s.trans \in Seq(Nat) /\ IsInjective(s.trans) /\ Range(s.trans) = Are(s.m, "transport")
          BY <2>2 DEF Grown
    <3>. HIDE DEF one
    <3>3. Range(one) \cap Range(s.trans) = {}
          BY <2>7, <3>1, <3>2
    <3>4. one \o s.trans \in Seq(Nat) /\ Range(one \o s.trans) = Range(one) \cup Range(s.trans) /\ IsInjective(one \o s.trans)
          BY <3>1, <3>2, <3>3, ConcatIs
    <3>5. q = one \o s.trans
          BY DEF one
    <3>. QED BY <2>7, <3>1, <3>2, <3>4, <3>5, Zenon
  <2>9. Grown(m0, m2, q)
        BY <2>2, <2>5, <2>7, <2>8 DEF Grown
  <2>. HIDE DEF q, t
  <2>. QED BY <2>1, <2>9 DEF Opening, t
<1>. QED BY <1>1, <1>2, <1>3 DEF t

\* The loop of eb_socket_open: the recursion that models it is defined.
LEMMA TransportsUnfold ==
  ASSUME NEW m, NEW res
  PROVE  \E f : /\ f = [i \in 0 .. Len(Kinds) |-> IF i = 0 THEN [m |-> m, trans |-> <<>>, status |-> "OK"]
                                                  ELSE OpenTransport(f[i - 1], Kinds[i], res[i])]
                /\ OpenTransports(m, res) = f[Len(Kinds)]
<1>. DEFINE base == [m |-> m, trans |-> <<>>, status |-> "OK"]
            Runs(f, n) == f = [i \in 0 .. n |-> IF i = 0 THEN base ELSE OpenTransport(f[i - 1], Kinds[i], res[i])]
            T == {n \in Nat : ~ \E f : Runs(f, n)}
            fl == CHOOSE f : f = [i \in 0 .. Len(Kinds) |-> IF i = 0 THEN [m |-> m, trans |-> <<>>, status |-> "OK"]
                                                            ELSE OpenTransport(f[i - 1], Kinds[i], res[i])]
<1>1. Len(Kinds) \in Nat
      BY OpenAssumption, LenProperties
<1>2. ASSUME T # {} PROVE FALSE
  <2>1. PICK n \in T : \A k \in T : n <= k
    <3>. HIDE DEF Runs
    <3>. QED BY <1>2, LeastNat, Zenon
  <2>2. n \in Nat /\ ~ \E f : Runs(f, n)
        OBVIOUS
  <2>3. n # 0
    <3>. DEFINE z == [i \in 0 .. 0 |-> base]
    <3>. HIDE DEF base
    <3>1. \A i \in 0 .. 0 : i = 0
          OBVIOUS
    <3>2. z = [i \in 0 .. 0 |-> IF i = 0 THEN base ELSE OpenTransport(z[i - 1], Kinds[i], res[i])]
          BY <3>1
    <3>3. Runs(z, 0)
      <4>. HIDE DEF z
      <4>. QED BY <3>2
    <3>. HIDE DEF Runs
    <3>. QED BY <2>2, <3>3
  <2>4. n - 1 \in Nat /\ n - 1 \notin T
    <3>. HIDE DEF T
    <3>. QED BY <2>1, <2>2, <2>3
  <2>5. PICK g : Runs(g, n - 1)
    <3>. HIDE DEF Runs
    <3>. QED BY <2>4
  <2>. HIDE DEF base
  <2>. DEFINE h == [i \in 0 .. n |-> IF i = n THEN OpenTransport(g[n - 1], Kinds[n], res[n]) ELSE g[i]]
  <2>6. \A i \in 0 .. n : h[i] = IF i = 0 THEN base ELSE OpenTransport(h[i - 1], Kinds[i], res[i])
    <3> SUFFICES ASSUME NEW i \in 0 .. n PROVE h[i] = IF i = 0 THEN base ELSE OpenTransport(h[i - 1], Kinds[i], res[i])
        OBVIOUS
    <3>1. CASE i = n
      <4>1. n - 1 \in 0 .. n /\ n - 1 # n
            BY <2>2, <2>3
      <4>2. h[n - 1] = g[n - 1] /\ h[n] = OpenTransport(g[n - 1], Kinds[n], res[n])
            BY <2>2, <4>1
      <4>. QED BY <2>3, <3>1, <4>2
    <3>2. CASE i # n
      <4>1. i \in 0 .. n - 1 /\ (i # 0 => i - 1 \in 0 .. n /\ i - 1 # n)
            BY <2>2, <3>2
      <4>2. g[i] = IF i = 0 THEN base ELSE OpenTransport(g[i - 1], Kinds[i], res[i])
            BY <2>5, <4>1
      <4>3. h[i] = g[i] /\ (i # 0 => h[i - 1] = g[i - 1])
            BY <3>2, <4>1
      <4>. QED BY <4>2, <4>3
    <3>. QED BY <3>1, <3>2
  <2>7. h = [i \in 0 .. n |-> h[i]]
        OBVIOUS
  <2>8. Runs(h, n)
    <3>. HIDE DEF h
    <3>. QED BY <2>6, <2>7, Zenon
  <2>. HIDE DEF Runs, h
  <2>. QED BY <2>2, <2>8
<1>3. \E f : f = [i \in 0 .. Len(Kinds) |-> IF i = 0 THEN [m |-> m, trans |-> <<>>, status |-> "OK"]
                                            ELSE OpenTransport(f[i - 1], Kinds[i], res[i])]
      BY <1>1, <1>2
<1>4. fl = [i \in 0 .. Len(Kinds) |-> IF i = 0 THEN [m |-> m, trans |-> <<>>, status |-> "OK"]
                                      ELSE OpenTransport(fl[i - 1], Kinds[i], res[i])]
      BY <1>3, Zenon
<1>5. OpenTransports(m, res) = fl[Len(Kinds)]
      BY DEF OpenTransports
<1>. HIDE DEF fl
<1>. QED BY <1>4, <1>5, Zenon

\* However many of the transports could be opened, the pool has what they have not.
LEMMA TransportsAre ==
  ASSUME NEW m, FreeOk(m), Are(m, "transport") = {}, NEW res
  PROVE  Opening(m, OpenTransports(m, res))
<1>1. PICK f : /\ f = [i \in 0 .. Len(Kinds) |-> IF i = 0 THEN [m |-> m, trans |-> <<>>, status |-> "OK"]
                                                 ELSE OpenTransport(f[i - 1], Kinds[i], res[i])]
               /\ OpenTransports(m, res) = f[Len(Kinds)]
      BY TransportsUnfold, Zenon
<1>2. Len(Kinds) \in Nat /\ \A i \in 1 .. Len(Kinds) : Kinds[i] \in AllKinds
      BY OpenAssumption, LenProperties
<1>. DEFINE N == Len(Kinds)
            T == {i \in Nat : i <= N /\ ~Opening(m, f[i])}
<1>3. \A i \in 0 .. N : f[i] = IF i = 0 THEN [m |-> m, trans |-> <<>>, status |-> "OK"]
                               ELSE OpenTransport(f[i - 1], Kinds[i], res[i])
  <2>. DEFINE F == [i \in 0 .. Len(Kinds) |-> IF i = 0 THEN [m |-> m, trans |-> <<>>, status |-> "OK"]
                                             ELSE OpenTransport(f[i - 1], Kinds[i], res[i])]
  <2>1. f = F
        BY <1>1, Zenon
  <2>2. \A i \in 0 .. N : F[i] = IF i = 0 THEN [m |-> m, trans |-> <<>>, status |-> "OK"]
                                ELSE OpenTransport(f[i - 1], Kinds[i], res[i])
        OBVIOUS
  <2>. HIDE DEF F
  <2>. QED BY <2>1, <2>2, Zenon
<1>4. Opening(m, f[0])
  <2>1. f[0] = [m |-> m, trans |-> <<>>, status |-> "OK"]
        BY <1>2, <1>3
  <2>. DEFINE s == f[0]
              e == <<>>
  <2>2. e \in Seq(Nat) /\ IsInjective(e) /\ Range(e) = {}
        BY EmptyIs
  <2>3. s = [m |-> m, trans |-> e, status |-> "OK"]
        BY <2>1
  <2>. HIDE DEF s, e
  <2>4. Grown(m, m, e)
        BY <2>2 DEF Grown
  <2>5. s.m = m /\ s.trans = e /\ s = [m |-> s.m, trans |-> s.trans, status |-> s.status]
        BY <2>3
  <2>6. Opening(m, s)
        BY <2>4, <2>5 DEF Opening
  <2>. QED BY <2>6 DEF s
<1>5. T = {}
  <2> SUFFICES ASSUME T # {} PROVE FALSE
      OBVIOUS
  <2>1. PICK i \in T : \A k \in T : i <= k
    <3>1. T \in SUBSET Nat
          OBVIOUS
    <3>. HIDE DEF T
    <3>. QED BY <3>1, LeastNat
  <2>2. i \in Nat /\ i <= N /\ ~Opening(m, f[i]) /\ i # 0
        BY <1>4
  <2>3. i - 1 \in Nat /\ i - 1 <= N /\ i - 1 \notin T /\ i \in 1 .. N
    <3>. HIDE DEF T
    <3>. QED BY <1>2, <2>1, <2>2
  <2>4. Opening(m, f[i - 1])
        BY <2>3
  <2>5. f[i] = OpenTransport(f[i - 1], Kinds[i], res[i]) /\ Kinds[i] \in AllKinds
        BY <1>2, <1>3, <2>2, <2>3
  <2>6. Opening(m, OpenTransport(f[i - 1], Kinds[i], res[i]))
        BY <2>4, <2>5, OpenTransportIs
  <2>. QED BY <2>2, <2>5, <2>6
<1>. QED BY <1>1, <1>2, <1>5

\* A node without a socket holds nothing, and the other way round.
LEMMA ClosedIs ==
  ASSUME NEW m, FreeOk(m), \A i \in DOMAIN m.heap : m.heap[i].is = "free"
  PROVE  Node(m, Closed, 0, {})
<1>. DEFINE none == <<>>
<1>1. none \in Seq(Nat) /\ IsInjective(none) /\ Range(none) = {}
      BY EmptyIs
<1>. HIDE DEF none
<1>2. Closed = [self |-> 0, aux |-> 0, trans |-> none, devs |-> none]
      BY DEF Closed, none
<1>3. /\ Closed \in Socks /\ Closed.self = 0 /\ Closed.aux = 0 /\ Range(Closed.devs) = {} /\ Range(Closed.trans) = {}
      /\ IsInjective(Closed.devs) /\ IsInjective(Closed.trans)
      BY <1>1, <1>2 DEF Socks
<1>4. Are(m, "transport") = {} /\ Are(m, "device") = {} /\ Are(m, "link") = {} /\ Are(m, "socket") = {} /\ Are(m, "aux") = {}
      BY DEF Are
<1>. HIDE DEF Closed
<1>5. Parts(m, Closed, 0)
  <2>1. ({0} \cup {LinkOf(m, d) : d \in Range(Closed.devs)}) \ {0} = {}
        BY <1>3
  <2>. QED BY <1>3, <1>4, <2>1 DEF Parts
<1>6. Wired(m, Closed, {})
  <2>1. {ConnAt(m, d) : d \in Range(Closed.devs)} \ {0} = {}
        BY <1>3
  <2>. QED BY <1>3, <2>1 DEF Wired
<1>. QED BY <1>3, <1>5, <1>6 DEF Node

LEMMA ClosedHolds ==
  ASSUME NEW m, NEW l, NEW E, Node(m, Closed, l, E), l = 0
  PROVE  /\ E = {} /\ Are(m, "transport") = {} /\ Are(m, "device") = {} /\ Are(m, "link") = {}
         /\ Are(m, "socket") = {} /\ Are(m, "aux") = {}
<1>1. Parts(m, Closed, l) /\ Wired(m, Closed, E)
      BY DEF Node
<1>2. Closed.self = 0 /\ Closed.aux = 0 /\ Range(Closed.devs) = {} /\ Range(Closed.trans) = {}
  <2>. DEFINE none == <<>>
  <2>1. Range(none) = {}
        BY EmptyIs
  <2>2. Closed = [self |-> 0, aux |-> 0, trans |-> none, devs |-> none]
        BY DEF Closed
  <2>. HIDE DEF none
  <2>. QED BY <2>1, <2>2
<1>. HIDE DEF Closed
<1>3. Are(m, "transport") = {} /\ Are(m, "device") = {} /\ Are(m, "socket") = {} /\ Are(m, "aux") = {}
      BY <1>1, <1>2 DEF Parts
<1>4. Are(m, "link") = {}
  <2>1. ({l} \cup {LinkOf(m, d) : d \in Range(Closed.devs)}) \ {0} = Are(m, "link")
        BY <1>1 DEF Parts
  <2>. QED BY <1>2, <2>1
<1>5. E = {}
  <2>1. {ConnAt(m, d) : d \in Range(Closed.devs)} \ {0} = E
        BY <1>1 DEF Wired
  <2>. QED BY <1>2, <2>1
<1>. QED BY <1>3, <1>4, <1>5

\* eb_socket_close frees everything that is not free yet.
LEMMA CloseAllKeeps ==
  ASSUME NEW m, FreeOk(m), NEW s \in Socks, IsInjective(s.trans), Range(s.trans) = Are(m, "transport"),
         s.self # 0, s.aux # 0, Are(m, "socket") = {s.self}, Are(m, "aux") = {s.aux},
         Are(m, "device") = {}, Are(m, "link") = {}
  PROVE  Node(CloseAll(m, s), Closed, 0, {}) /\ DOMAIN CloseAll(m, s).heap = DOMAIN m.heap
<1>. DEFINE two == <<s.self, s.aux>>
            F == s.trans \o two
            m2 == FreeAll(m, F)
<1>1. s.self \in DOMAIN m.heap /\ m.heap[s.self].is = "socket" /\ s.aux \in DOMAIN m.heap /\ m.heap[s.aux].is = "aux"
      BY DEF Are
<1>2. s.self \in Nat /\ s.aux \in Nat /\ s.trans \in Seq(Nat) /\ s.self # s.aux
      BY <1>1 DEF Socks
<1>3. two \in Seq(Nat) /\ Range(two) = {s.self, s.aux} /\ IsInjective(two)
  <2>1. two \in Seq(Nat) /\ DOMAIN two = 1 .. 2 /\ two[1] = s.self /\ two[2] = s.aux
        BY <1>2
  <2>2. DOMAIN two = {1, 2}
        BY <2>1
  <2>. HIDE DEF two
  <2>3. Range(two) = {s.self, s.aux}
        BY <2>1, <2>2 DEF Range
  <2>. QED BY <1>2, <2>1, <2>2, <2>3 DEF IsInjective
<1>4. CloseAll(m, s) = m2
      BY DEF CloseAll
<1>. HIDE DEF two
<1>5. F \in Seq(Nat) /\ IsInjective(F) /\ Range(F) = Range(s.trans) \cup {s.self, s.aux}
  <2>1. Range(s.trans) \cap Range(two) = {}
        BY <1>1, <1>3 DEF Are
  <2>. QED BY <1>2, <1>3, <2>1, ConcatIs
<1>. HIDE DEF F, m2
<1>6. Range(F) \subseteq DOMAIN m.heap /\ \A i \in Range(F) : m.heap[i].is # "free"
  <2>1. \A i \in Range(s.trans) : i \in DOMAIN m.heap /\ m.heap[i].is = "transport"
        BY DEF Are
  <2>. QED BY <1>1, <1>5, <2>1
<1>7. /\ FreeOk(m2) /\ DOMAIN m2.heap = DOMAIN m.heap
      /\ \A i \in DOMAIN m.heap : m2.heap[i] = IF i \in Range(F) THEN Unused ELSE m.heap[i]
  <2>1. FreeOk(FreeAll(m, F)) /\ DOMAIN FreeAll(m, F).heap = DOMAIN m.heap
        /\ \A i \in DOMAIN m.heap : FreeAll(m, F).heap[i] = IF i \in Range(F) THEN Unused ELSE m.heap[i]
        BY <1>5, <1>6, FreeAllIs
  <2>. QED BY <2>1 DEF m2
<1>8. \A i \in DOMAIN m2.heap : m2.heap[i].is = "free"
  <2> SUFFICES ASSUME NEW i \in DOMAIN m.heap PROVE m2.heap[i].is = "free"
      BY <1>7
  <2>1. Unused.is = "free"
        BY DEF Unused
  <2>2. m.heap[i] \in Items
        BY PoolIs
  <2>3. m.heap[i].is \in {"free", "socket", "aux", "transport", "link", "device"}
        BY <2>2, ItemIs
  <2>4. m.heap[i].is # "device" /\ m.heap[i].is # "link"
        BY DEF Are
  <2>5. m.heap[i].is \in {"socket", "aux", "transport"} => i \in Range(F)
        BY <1>5 DEF Are
  <2>. QED BY <1>7, <2>1, <2>3, <2>4, <2>5
<1>9. Node(m2, Closed, 0, {})
      BY <1>7, <1>8, ClosedIs
<1>. QED BY <1>4, <1>7, <1>9

\* eb_socket_open: the socket with its transports, or nothing if one of them failed.
LEMMA SocketOpenKeeps ==
  ASSUME NEW m, FreeOk(m), Node(m, Closed, 0, {}), Len(m.free) >= 2, NEW res
  PROVE  LET m1 == New(m, [is |-> "socket"])
             m2 == New(m1, [is |-> "aux"])
             all == OpenTransports(m2, res)
             new == [self |-> Fresh(m), aux |-> Fresh(m1), trans |-> all.trans, devs |-> <<>>]
         IN /\ Node(all.m, new, 0, {}) /\ DOMAIN all.m.heap = DOMAIN m.heap
            /\ Node(CloseAll(all.m, new), Closed, 0, {}) /\ DOMAIN CloseAll(all.m, new).heap = DOMAIN m.heap
            /\ new.self # 0 /\ new.aux # 0
<1>. DEFINE xs == [is |-> "socket"]
            xa == [is |-> "aux"]
            m1 == New(m, xs)
            m2 == New(m1, xa)
            all == OpenTransports(m2, res)
            none == <<>>
            new == [self |-> Fresh(m), aux |-> Fresh(m1), trans |-> all.trans, devs |-> none]
            g == Fresh(m)
            h == Fresh(m1)
<1>1. /\ Are(m, "transport") = {} /\ Are(m, "device") = {} /\ Are(m, "link") = {}
      /\ Are(m, "socket") = {} /\ Are(m, "aux") = {}
  <2>1. 0 = 0
        OBVIOUS
  <2>. QED BY <2>1, ClosedHolds
<1>2. xs \in Items /\ xs.is = "socket" /\ xa \in Items /\ xa.is = "aux"
      BY DEF Plain, Items
<1>3. Len(m.free) \in Nat /\ Len(m.free) # 0 /\ m.free # <<>> /\ \A i \in DOMAIN m.heap : i \in Nat /\ i # 0
  <2>1. Len(<<>>) = 0
        OBVIOUS
  <2>. QED BY <2>1, PoolIs
<1>. HIDE DEF xs, xa, none
<1>4. /\ FreeOk(m1) /\ DOMAIN m1.heap = DOMAIN m.heap /\ g \in DOMAIN m.heap /\ m.heap[g].is = "free"
      /\ m1.heap[g] = xs /\ \A i \in DOMAIN m.heap : i # g => m1.heap[i] = m.heap[i]
      /\ Len(m1.free) = Len(m.free) - 1
      BY <1>2, <1>3, NewIs DEF Full
<1>. HIDE DEF m1
<1>5. ~Full(m1)
  <2>1. Len(<<>>) = 0
        OBVIOUS
  <2>. QED BY <1>3, <1>4, <2>1 DEF Full
<1>6. /\ FreeOk(m2) /\ DOMAIN m2.heap = DOMAIN m.heap /\ h \in DOMAIN m.heap /\ m1.heap[h].is = "free"
      /\ m2.heap[h] = xa /\ \A i \in DOMAIN m.heap : i # h => m2.heap[i] = m1.heap[i]
  <2>1. /\ FreeOk(m2) /\ DOMAIN m2.heap = DOMAIN m1.heap /\ h \in DOMAIN m1.heap /\ m1.heap[h].is = "free"
        /\ m2.heap[h] = xa /\ \A i \in DOMAIN m1.heap : i # h => m2.heap[i] = m1.heap[i]
    <3>1. xa.is # "free" /\ xa \in Items
          BY <1>2
    <3>. QED BY <1>4, <1>5, <3>1, NewIs
  <2>. QED BY <1>4, <2>1
<1>. HIDE DEF m2, g, h
<1>7. g # h /\ g \in Nat /\ h \in Nat /\ g # 0 /\ h # 0
      BY <1>2, <1>3, <1>4, <1>6
<1>8. /\ Are(m2, "transport") = {} /\ Are(m2, "device") = {} /\ Are(m2, "link") = {}
      /\ Are(m2, "socket") = {g} /\ Are(m2, "aux") = {h}
  <2>1. \A i \in DOMAIN m.heap : i # g /\ i # h => m2.heap[i] = m.heap[i]
        BY <1>4, <1>6
  <2>2. m2.heap[g].is = "socket" /\ m2.heap[h].is = "aux"
        BY <1>2, <1>4, <1>6, <1>7
  <2>. QED BY <1>1, <1>4, <1>6, <1>7, <2>1, <2>2 DEF Are
<1>9. Opening(m2, all)
      BY <1>6, <1>8, TransportsAre
<1>. HIDE DEF all
<1>10. /\ FreeOk(all.m) /\ DOMAIN all.m.heap = DOMAIN m.heap /\ all.trans \in Seq(Nat) /\ IsInjective(all.trans)
       /\ Range(all.trans) = Are(all.m, "transport") /\ Are(all.m, "device") = {} /\ Are(all.m, "link") = {}
       /\ Are(all.m, "socket") = {g} /\ Are(all.m, "aux") = {h}
      BY <1>6, <1>8, <1>9 DEF Opening, Grown
<1>11. none \in Seq(Nat) /\ IsInjective(none) /\ Range(none) = {}
      BY EmptyIs DEF none
<1>12. new \in Socks /\ new.self = g /\ new.aux = h /\ new.trans = all.trans /\ new.devs = none
      BY <1>7, <1>10, <1>11 DEF Socks, g, h
<1>. HIDE DEF new
<1>13. Node(CloseAll(all.m, new), Closed, 0, {}) /\ DOMAIN CloseAll(all.m, new).heap = DOMAIN m.heap
      BY <1>7, <1>10, <1>12, CloseAllKeeps
<1>14. Parts(all.m, new, 0)
  <2>1. ({0} \cup {LinkOf(all.m, d) : d \in Range(new.devs)}) \ {0} = {}
        BY <1>11, <1>12
  <2>. QED BY <1>7, <1>10, <1>11, <1>12, <2>1, Zenon DEF Parts
<1>15. Wired(all.m, new, {})
  <2>1. {ConnAt(all.m, d) : d \in Range(new.devs)} \ {0} = {}
        BY <1>11, <1>12
  <2>. QED BY <1>11, <1>12, <2>1 DEF Wired
<1>16. Node(all.m, new, 0, {})
      BY <1>10, <1>12, <1>14, <1>15 DEF Node
<1>. QED BY <1>7, <1>10, <1>12, <1>13, <1>16 DEF new, all, m2, m1, xs, xa, none, g, h

\* The end of a program: everything is free again.
LEMMA ExitKeeps ==
  ASSUME NEW n \in Nat, NEW m, m = [free |-> [i \in 1 .. n |-> i], heap |-> [i \in 1 .. n |-> Unused]]
  PROVE  Node(m, Closed, 0, {})
<1>. DEFINE f == [i \in 1 .. n |-> i]
            h == [i \in 1 .. n |-> Unused]
<1>1. Unused \in Items /\ Unused.is = "free"
      BY DEF Unused, Plain, Items
<1>2. f \in Seq(Nat) /\ DOMAIN f = 1 .. n /\ \A i \in 1 .. n : f[i] = i
      OBVIOUS
<1>3. h \in Seq(Items) /\ DOMAIN h = 1 .. n /\ \A i \in 1 .. n : h[i] = Unused
      BY <1>1
<1>. HIDE DEF f, h
<1>4. m \in Pools /\ m.free = f /\ m.heap = h
      BY <1>2, <1>3 DEF Pools, f, h
<1>5. IsInjective(f) /\ Range(f) = 1 .. n
      BY <1>2 DEF IsInjective, Range
<1>6. \A i \in DOMAIN m.heap : m.heap[i].is = "free"
      BY <1>1, <1>3, <1>4
<1>7. FreeOk(m)
      BY <1>1, <1>3, <1>4, <1>5, Zenon DEF FreeOk, Are
<1>. QED BY <1>6, <1>7, ClosedIs, Zenon

-----------------------------------------------------------------------------
(* The connections.                                                        *)

\* What node n does to the connections cs: at the other ends of them nothing changes.
Only(cs, c2, n) ==
  /\ c2 \in Seq(Conns) /\ Apart(c2) /\ DOMAIN cs \subseteq DOMAIN c2
  /\ \A k \in DOMAIN cs : /\ c2[k].kind = cs[k].kind /\ c2[k].by = cs[k].by /\ c2[k].to = cs[k].to
                          /\ c2[k].ends \ {n} = cs[k].ends \ {n}
  /\ \A k \in DOMAIN c2 : k \notin DOMAIN cs => c2[k].ends \subseteq {n}

LEMMA OnlyKeeps ==
  ASSUME NEW cs, NEW c2, NEW n, Only(cs, c2, n)
  PROVE  /\ \A o \in Nodes \ {n} : EndsIn(c2, o) = EndsIn(cs, o)
         /\ Lines(cs) => Lines(c2)
<1>1. ASSUME NEW o \in Nodes \ {n} PROVE EndsIn(c2, o) = EndsIn(cs, o)
  <2>1. \A k \in DOMAIN cs : o \in c2[k].ends <=> o \in cs[k].ends
        BY DEF Only
  <2>2. \A k \in DOMAIN c2 : k \notin DOMAIN cs => o \notin c2[k].ends
        BY DEF Only
  <2>. QED BY <2>1, <2>2 DEF EndsIn, Only
<1>2. ASSUME Lines(cs), NEW a \in Nodes, NEW b \in Nodes, a # b
      PROVE  \E k \in DOMAIN c2 : c2[k].kind = "dev" /\ {c2[k].by, c2[k].to} = {a, b}
  <2>1. PICK k \in DOMAIN cs : cs[k].kind = "dev" /\ {cs[k].by, cs[k].to} = {a, b}
        BY <1>2 DEF Lines
  <2>2. k \in DOMAIN c2 /\ c2[k].kind = cs[k].kind /\ c2[k].by = cs[k].by /\ c2[k].to = cs[k].to
        BY <2>1 DEF Only
  <2>. QED BY <2>1, <2>2
<1>. QED BY <1>1, <1>2 DEF Lines

LEMMA OnlyTwice ==
  ASSUME NEW cs, NEW c2, NEW c3, NEW n, Only(cs, c2, n), Only(c2, c3, n)
  PROVE  Only(cs, c3, n)
<1>1. \A k \in DOMAIN cs : /\ k \in DOMAIN c2 /\ k \in DOMAIN c3
                           /\ c3[k].kind = cs[k].kind /\ c3[k].by = cs[k].by /\ c3[k].to = cs[k].to
                           /\ c3[k].ends \ {n} = cs[k].ends \ {n}
      BY DEF Only
<1>2. \A k \in DOMAIN c3 : k \notin DOMAIN cs => c3[k].ends \subseteq {n}
  <2> SUFFICES ASSUME NEW k \in DOMAIN c3, k \notin DOMAIN cs PROVE c3[k].ends \subseteq {n}
      OBVIOUS
  <2>1. CASE k \in DOMAIN c2
    <3>1. c2[k].ends \subseteq {n} /\ c3[k].ends \ {n} = c2[k].ends \ {n}
          BY <2>1 DEF Only
    <3>. QED BY <3>1
  <2>2. CASE k \notin DOMAIN c2
        BY <2>2 DEF Only
  <2>. QED BY <2>1, <2>2
<1>3. c3 \in Seq(Conns) /\ Apart(c3) /\ DOMAIN cs \subseteq DOMAIN c3
      BY DEF Only
<1>. QED BY <1>1, <1>2, <1>3 DEF Only

LEMMA OnlyNothing ==
  ASSUME NEW cs \in Seq(Conns), Apart(cs), NEW n
  PROVE  Only(cs, cs, n)
BY DEF Only

\* A connection of which n changes its own end, whether it is accepted, or what is under way.
LEMMA OnlyOne ==
  ASSUME NEW cs \in Seq(Conns), Apart(cs), NEW n \in Nodes, NEW k \in DOMAIN cs, NEW x \in Conns,
         x.kind = cs[k].kind, x.by = cs[k].by, x.to = cs[k].to, x.ends \ {n} = cs[k].ends \ {n},
         ~x.in => ~cs[k].in /\ (x.to = n => n \notin x.ends)
  PROVE  /\ Only(cs, [cs EXCEPT ![k] = x], n)
         /\ n \in x.ends => EndsIn([cs EXCEPT ![k] = x], n) = EndsIn(cs, n) \cup {k}
         /\ n \notin x.ends => EndsIn([cs EXCEPT ![k] = x], n) = EndsIn(cs, n) \ {k}
<1>. DEFINE c2 == [cs EXCEPT ![k] = x]
<1>1. c2 \in Seq(Conns) /\ DOMAIN c2 = DOMAIN cs /\ c2[k] = x /\ \A i \in DOMAIN cs : i # k => c2[i] = cs[i]
      OBVIOUS
<1>. HIDE DEF c2
<1>2. Apart(c2)
  <2> SUFFICES ASSUME NEW i \in DOMAIN cs
               PROVE  c2[i].by # c2[i].to /\ (~c2[i].in => c2[i].kind = "tcp" /\ c2[i].to \notin c2[i].ends)
      BY <1>1 DEF Apart
  <2>1. cs[i].by # cs[i].to /\ (~cs[i].in => cs[i].kind = "tcp" /\ cs[i].to \notin cs[i].ends)
        BY DEF Apart
  <2>2. CASE i # k
        BY <1>1, <2>1, <2>2
  <2>3. CASE i = k
        BY <1>1, <2>1, <2>3
  <2>. QED BY <2>2, <2>3
<1>3. Only(cs, c2, n)
  <2>1. \A i \in DOMAIN cs : /\ c2[i].kind = cs[i].kind /\ c2[i].by = cs[i].by /\ c2[i].to = cs[i].to
                             /\ c2[i].ends \ {n} = cs[i].ends \ {n}
        BY <1>1
  <2>. QED BY <1>1, <1>2, <2>1 DEF Only
<1>4. /\ n \in x.ends => EndsIn(c2, n) = EndsIn(cs, n) \cup {k}
      /\ n \notin x.ends => EndsIn(c2, n) = EndsIn(cs, n) \ {k}
      BY <1>1 DEF EndsIn
<1>. QED BY <1>3, <1>4, Zenon DEF c2

\* A connection by its parts.
LEMMA ConnIs ==
  ASSUME NEW cs \in Seq(Conns), NEW k \in DOMAIN cs
  PROVE  /\ cs[k] \in Conns /\ k \in Nat \ {0}
         /\ cs[k] = [kind |-> cs[k].kind, by |-> cs[k].by, to |-> cs[k].to, ends |-> cs[k].ends, in |-> cs[k].in, q |-> cs[k].q]
         /\ cs[k].kind \in {"dev", "tcp"} /\ cs[k].by \in Nodes /\ cs[k].to \in Nodes /\ cs[k].ends \in SUBSET Nodes
         /\ cs[k].in \in BOOLEAN /\ cs[k].q \in [Nodes -> Seq(Msgs)]
<1>1. cs[k] \in Conns /\ k \in Nat \ {0}
      BY LenProperties
<1>. DEFINE c == cs[k]
<1>. HIDE DEF c
<1>2. c \in Conns => /\ c = [kind |-> c.kind, by |-> c.by, to |-> c.to, ends |-> c.ends, in |-> c.in, q |-> c.q]
                     /\ c.kind \in {"dev", "tcp"} /\ c.by \in Nodes /\ c.to \in Nodes /\ c.ends \in SUBSET Nodes
                     /\ c.in \in BOOLEAN /\ c.q \in [Nodes -> Seq(Msgs)]
      BY Zenon DEF Conns
<1>. QED BY <1>1, <1>2 DEF c

\* send
LEMMA PutKeeps ==
  ASSUME NEW cs \in Seq(Conns), Apart(cs), NEW n \in Nodes, NEW k \in DOMAIN cs, NEW msg \in Msgs
  PROVE  Only(cs, Put(cs, n, k, msg), n) /\ EndsIn(Put(cs, n, k, msg), n) = EndsIn(cs, n)
<1>. DEFINE q2 == [cs[k].q EXCEPT ![Other(cs[k], n)] = Append(@, msg)]
            x == [cs[k] EXCEPT !.q = q2]
<1>1. Put(cs, n, k, msg) = [cs EXCEPT ![k] = x]
      BY DEF Put
<1>2. cs[k] \in Conns /\ cs[k].by \in Nodes /\ cs[k].to \in Nodes /\ cs[k].q \in [Nodes -> Seq(Msgs)]
      BY ConnIs
<1>3. Other(cs[k], n) \in Nodes
      BY <1>2 DEF Other
<1>4. q2 \in [Nodes -> Seq(Msgs)]
  <2>. DEFINE q == cs[k].q
              o == Other(cs[k], n)
  <2>1. q \in [Nodes -> Seq(Msgs)] /\ o \in Nodes
        BY <1>2, <1>3
  <2>. HIDE DEF q, o
  <2>2. [q EXCEPT ![o] = Append(@, msg)] \in [Nodes -> Seq(Msgs)]
    <3>1. Append(q[o], msg) \in Seq(Msgs)
          BY <2>1
    <3>. QED BY <2>1, <3>1
  <2>. QED BY <2>2 DEF q, o
<1>. HIDE DEF q2
<1>6. x \in Conns /\ x.kind = cs[k].kind /\ x.by = cs[k].by /\ x.to = cs[k].to /\ x.ends = cs[k].ends /\ x.in = cs[k].in
      BY <1>2, <1>4, Zenon DEF Conns
<1>. HIDE DEF x
<1>7. ~cs[k].in => cs[k].to \notin cs[k].ends
      BY DEF Apart
<1>8. /\ Only(cs, [cs EXCEPT ![k] = x], n)
      /\ n \in x.ends => EndsIn([cs EXCEPT ![k] = x], n) = EndsIn(cs, n) \cup {k}
      /\ n \notin x.ends => EndsIn([cs EXCEPT ![k] = x], n) = EndsIn(cs, n) \ {k}
  <2>1. /\ x \in Conns /\ x.kind = cs[k].kind /\ x.by = cs[k].by /\ x.to = cs[k].to
        /\ x.ends \ {n} = cs[k].ends \ {n}
        /\ ~x.in => ~cs[k].in /\ (x.to = n => n \notin x.ends)
        BY <1>6, <1>7
  <2>. QED BY <2>1, OnlyOne, Zenon
<1>9. n \in cs[k].ends <=> k \in EndsIn(cs, n)
      BY DEF EndsIn
<1>. QED BY <1>1, <1>6, <1>8, <1>9, Zenon

\* recv
LEMMA TakeKeeps ==
  ASSUME NEW cs \in Seq(Conns), Apart(cs), NEW n \in Nodes, NEW k \in DOMAIN cs, cs[k].q[n] # <<>>
  PROVE  /\ Only(cs, [cs EXCEPT ![k].q[n] = Tail(@)], n)
         /\ EndsIn([cs EXCEPT ![k].q[n] = Tail(@)], n) = EndsIn(cs, n)
         /\ Head(cs[k].q[n]) \in Msgs
<1>. DEFINE q2 == [cs[k].q EXCEPT ![n] = Tail(@)]
            x == [cs[k] EXCEPT !.q = q2]
<1>1. [cs EXCEPT ![k].q[n] = Tail(@)] = [cs EXCEPT ![k] = x]
      OBVIOUS
<1>2. cs[k] \in Conns /\ cs[k].q \in [Nodes -> Seq(Msgs)]
      BY ConnIs
<1>3. cs[k].q[n] \in Seq(Msgs)
      BY <1>2
<1>4. Tail(cs[k].q[n]) \in Seq(Msgs) /\ Head(cs[k].q[n]) \in Msgs
      BY <1>3, HeadTailProperties
<1>5. q2 \in [Nodes -> Seq(Msgs)]
      BY <1>2, <1>4
<1>. HIDE DEF q2
<1>6. x \in Conns /\ x.kind = cs[k].kind /\ x.by = cs[k].by /\ x.to = cs[k].to /\ x.ends = cs[k].ends /\ x.in = cs[k].in
      BY <1>2, <1>5, Zenon DEF Conns
<1>. HIDE DEF x
<1>7. ~cs[k].in => cs[k].to \notin cs[k].ends
      BY DEF Apart
<1>8. /\ Only(cs, [cs EXCEPT ![k] = x], n)
      /\ n \in x.ends => EndsIn([cs EXCEPT ![k] = x], n) = EndsIn(cs, n) \cup {k}
      /\ n \notin x.ends => EndsIn([cs EXCEPT ![k] = x], n) = EndsIn(cs, n) \ {k}
  <2>1. /\ x \in Conns /\ x.kind = cs[k].kind /\ x.by = cs[k].by /\ x.to = cs[k].to
        /\ x.ends \ {n} = cs[k].ends \ {n}
        /\ ~x.in => ~cs[k].in /\ (x.to = n => n \notin x.ends)
        BY <1>6, <1>7
  <2>. QED BY <2>1, OnlyOne, Zenon
<1>9. n \in cs[k].ends <=> k \in EndsIn(cs, n)
      BY DEF EndsIn
<1>. QED BY <1>1, <1>4, <1>6, <1>8, <1>9, Zenon

\* disconnect
LEMMA ShutKeeps ==
  ASSUME NEW cs \in Seq(Conns), Apart(cs), NEW n \in Nodes, NEW k \in DOMAIN cs \cup {0}
  PROVE  Only(cs, Shut(cs, n, k), n) /\ EndsIn(Shut(cs, n, k), n) = EndsIn(cs, n) \ {k}
<1>1. CASE k = 0
  <2>1. Shut(cs, n, k) = cs
        BY <1>1 DEF Shut
  <2>2. 0 \notin EndsIn(cs, n)
        BY LenProperties DEF EndsIn
  <2>. QED BY <1>1, <2>1, <2>2, OnlyNothing
<1>2. CASE k # 0
  <2>. DEFINE x == [cs[k] EXCEPT !.ends = @ \ {n}]
  <2>1. k \in DOMAIN cs /\ Shut(cs, n, k) = [cs EXCEPT ![k] = x]
        BY <1>2 DEF Shut
  <2>2. cs[k] \in Conns /\ cs[k].ends \in SUBSET Nodes
        BY <2>1, ConnIs
  <2>3. /\ x \in Conns /\ x.kind = cs[k].kind /\ x.by = cs[k].by /\ x.to = cs[k].to
        /\ x.ends = cs[k].ends \ {n} /\ x.in = cs[k].in
        BY <2>2, Zenon DEF Conns
  <2>. HIDE DEF x
  <2>4. /\ Only(cs, [cs EXCEPT ![k] = x], n)
        /\ n \in x.ends => EndsIn([cs EXCEPT ![k] = x], n) = EndsIn(cs, n) \cup {k}
        /\ n \notin x.ends => EndsIn([cs EXCEPT ![k] = x], n) = EndsIn(cs, n) \ {k}
    <3>1. /\ k \in DOMAIN cs /\ x \in Conns /\ x.kind = cs[k].kind /\ x.by = cs[k].by /\ x.to = cs[k].to
          /\ x.ends \ {n} = cs[k].ends \ {n}
          /\ ~x.in => ~cs[k].in /\ (x.to = n => n \notin x.ends)
          BY <2>1, <2>3
    <3>. QED BY <3>1, OnlyOne, Zenon
  <2>. QED BY <2>1, <2>3, <2>4, Zenon
<1>. QED BY <1>1, <1>2

\* accept: a connection is taken, by a device or to be closed at once.
LEMMA AcceptedKeeps ==
  ASSUME NEW cs \in Seq(Conns), Apart(cs), NEW n \in Nodes, NEW k \in DOMAIN cs
  PROVE  /\ Only(cs, [cs EXCEPT ![k].in = TRUE], n)
         /\ EndsIn([cs EXCEPT ![k].in = TRUE], n) = EndsIn(cs, n)
         /\ Only(cs, [cs EXCEPT ![k].in = TRUE, ![k].ends = @ \cup {n}], n)
         /\ EndsIn([cs EXCEPT ![k].in = TRUE, ![k].ends = @ \cup {n}], n) = EndsIn(cs, n) \cup {k}
<1>. DEFINE x == [cs[k] EXCEPT !.in = TRUE]
            y == [cs[k] EXCEPT !.in = TRUE, !.ends = @ \cup {n}]
<1>1. cs[k] \in Conns
      BY ConnIs
<1>2. [cs EXCEPT ![k].in = TRUE] = [cs EXCEPT ![k] = x]
      OBVIOUS
<1>3. [cs EXCEPT ![k].in = TRUE, ![k].ends = @ \cup {n}] = [cs EXCEPT ![k] = y]
  <2>1. cs \in Seq(Conns) /\ k \in DOMAIN cs
        OBVIOUS
  <2>. QED BY <1>1, <2>1, Zenon DEF Conns
<1>4. /\ x \in Conns /\ x.kind = cs[k].kind /\ x.by = cs[k].by /\ x.to = cs[k].to /\ x.ends = cs[k].ends /\ x.in
      /\ y \in Conns /\ y.kind = cs[k].kind /\ y.by = cs[k].by /\ y.to = cs[k].to /\ y.ends = cs[k].ends \cup {n} /\ y.in
      BY <1>1, Zenon DEF Conns
<1>. HIDE DEF x, y
<1>5. /\ Only(cs, [cs EXCEPT ![k] = x], n)
      /\ n \in x.ends => EndsIn([cs EXCEPT ![k] = x], n) = EndsIn(cs, n) \cup {k}
      /\ n \notin x.ends => EndsIn([cs EXCEPT ![k] = x], n) = EndsIn(cs, n) \ {k}
  <2>1. /\ x \in Conns /\ x.kind = cs[k].kind /\ x.by = cs[k].by /\ x.to = cs[k].to
        /\ x.ends \ {n} = cs[k].ends \ {n}
        /\ ~x.in => ~cs[k].in /\ (x.to = n => n \notin x.ends)
        BY <1>4
  <2>. QED BY <2>1, OnlyOne, Zenon
<1>6. /\ Only(cs, [cs EXCEPT ![k] = y], n)
      /\ n \in y.ends => EndsIn([cs EXCEPT ![k] = y], n) = EndsIn(cs, n) \cup {k}
      /\ n \notin y.ends => EndsIn([cs EXCEPT ![k] = y], n) = EndsIn(cs, n) \ {k}
  <2>1. /\ y \in Conns /\ y.kind = cs[k].kind /\ y.by = cs[k].by /\ y.to = cs[k].to
        /\ y.ends \ {n} = cs[k].ends \ {n}
        /\ ~y.in => ~cs[k].in /\ (y.to = n => n \notin y.ends)
        BY <1>4
  <2>. QED BY <2>1, OnlyOne, Zenon
<1>7. n \in cs[k].ends <=> k \in EndsIn(cs, n)
      BY DEF EndsIn
<1>8. n \in y.ends
      BY <1>4
<1>9. EndsIn([cs EXCEPT ![k] = x], n) = EndsIn(cs, n)
      BY <1>4, <1>5, <1>7, Zenon
<1>10. EndsIn([cs EXCEPT ![k] = y], n) = EndsIn(cs, n) \cup {k}
      BY <1>6, <1>8, Zenon
<1>11. Only(cs, [cs EXCEPT ![k].in = TRUE], n) /\ EndsIn([cs EXCEPT ![k].in = TRUE], n) = EndsIn(cs, n)
      BY <1>2, <1>5, <1>9
<1>12. /\ Only(cs, [cs EXCEPT ![k].in = TRUE, ![k].ends = @ \cup {n}], n)
       /\ EndsIn([cs EXCEPT ![k].in = TRUE, ![k].ends = @ \cup {n}], n) = EndsIn(cs, n) \cup {k}
      BY <1>3, <1>6, <1>10, Zenon
<1>. QED BY <1>11, <1>12, Zenon

\* dev.c's open: the line between two nodes.
LEMMA WireIs ==
  ASSUME NEW n \in Nodes, NEW o, o.to \in Nodes \ {n}, Lines(conns)
  PROVE  /\ Wire(n, o) \in DOMAIN conns /\ conns[Wire(n, o)].kind = "dev"
         /\ {conns[Wire(n, o)].by, conns[Wire(n, o)].to} = {n, o.to}
BY DEF Lines, Wire

LEMMA OpenWireKeeps ==
  ASSUME NEW n \in Nodes, NEW o, o.to \in Nodes \ {n}, conns \in Seq(Conns), Apart(conns), Lines(conns)
  PROVE  /\ Only(conns, OpenWire(n, o), n) /\ EndsIn(OpenWire(n, o), n) = EndsIn(conns, n) \cup {Wire(n, o)}
         /\ DOMAIN OpenWire(n, o) = DOMAIN conns
<1>. DEFINE k == Wire(n, o)
            e == <<>>
            q2 == [conns[k].q EXCEPT ![n] = IF o.passive THEN @ ELSE e]
            x == [conns[k] EXCEPT !.ends = @ \cup {n}, !.q = q2]
<1>1. k \in DOMAIN conns /\ conns[k].kind = "dev"
      BY WireIs
<1>. HIDE DEF k
<1>2. conns[k] \in Conns /\ conns[k].q \in [Nodes -> Seq(Msgs)] /\ conns[k].ends \in SUBSET Nodes
      BY <1>1, ConnIs
<1>3. OpenWire(n, o) = [conns EXCEPT ![k] = x]
  <2>1. OpenWire(n, o) = [conns EXCEPT ![k].ends = @ \cup {n}, ![k].q[n] = IF o.passive THEN @ ELSE e]
        BY DEF OpenWire, k
  <2>2. conns \in Seq(Conns) /\ k \in DOMAIN conns
        BY <1>1
  <2>. HIDE DEF e
  <2>3. [conns EXCEPT ![k].ends = @ \cup {n}, ![k].q[n] = IF o.passive THEN @ ELSE e] = [conns EXCEPT ![k] = x]
        BY <1>2, <2>2, Zenon DEF Conns
  <2>. QED BY <2>1, <2>3
<1>4. e \in Seq(Msgs)
      OBVIOUS
<1>. HIDE DEF e
<1>5. q2 \in [Nodes -> Seq(Msgs)]
      BY <1>2, <1>4
<1>. HIDE DEF q2
<1>6. /\ x \in Conns /\ x.kind = conns[k].kind /\ x.by = conns[k].by /\ x.to = conns[k].to
      /\ x.ends = conns[k].ends \cup {n} /\ x.in = conns[k].in
      BY <1>2, <1>5, Zenon DEF Conns
<1>. HIDE DEF x
<1>7. conns[k].in
      BY <1>1 DEF Apart
<1>8. x.ends \ {n} = conns[k].ends \ {n} /\ n \in x.ends /\ x.in
      BY <1>6, <1>7
<1>9. /\ Only(conns, [conns EXCEPT ![k] = x], n)
      /\ n \in x.ends => EndsIn([conns EXCEPT ![k] = x], n) = EndsIn(conns, n) \cup {k}
      /\ n \notin x.ends => EndsIn([conns EXCEPT ![k] = x], n) = EndsIn(conns, n) \ {k}
  <2>1. /\ k \in DOMAIN conns /\ x \in Conns /\ x.kind = conns[k].kind /\ x.by = conns[k].by /\ x.to = conns[k].to
        /\ x.ends \ {n} = conns[k].ends \ {n}
        /\ ~x.in => ~conns[k].in /\ (x.to = n => n \notin x.ends)
        BY <1>1, <1>6, <1>8
  <2>. QED BY <2>1, OnlyOne, Zenon
<1>. QED BY <1>1, <1>3, <1>8, <1>9, Zenon DEF k

\* posix-tcp.c's connect
LEMMA NewConnKeeps ==
  ASSUME NEW n \in Nodes, NEW o, o.to \in Nodes \ {n}, conns \in Seq(Conns), Apart(conns)
  PROVE  /\ Only(conns, NewConn(n, o), n) /\ EndsIn(NewConn(n, o), n) = EndsIn(conns, n) \cup {Len(conns) + 1}
         /\ Len(conns) + 1 \in DOMAIN NewConn(n, o) /\ Len(conns) + 1 \notin DOMAIN conns
<1>. DEFINE e == <<>>
            q2 == [m \in Nodes |-> e]
            x == [kind |-> "tcp", by |-> n, to |-> o.to, ends |-> {n}, in |-> FALSE, q |-> q2]
            c2 == NewConn(n, o)
<1>1. c2 = Append(conns, x)
      BY DEF NewConn
<1>2. e \in Seq(Msgs)
      OBVIOUS
<1>. HIDE DEF e
<1>3. q2 \in [Nodes -> Seq(Msgs)]
      BY <1>2
<1>. HIDE DEF q2
<1>4. /\ x \in Conns /\ x.kind = "tcp" /\ x.by = n /\ x.to = o.to /\ x.ends = {n} /\ ~x.in /\ n # o.to
      BY <1>3 DEF Conns
<1>. HIDE DEF x, c2
<1>5. /\ c2 \in Seq(Conns) /\ Len(c2) = Len(conns) + 1 /\ DOMAIN c2 = 1 .. Len(conns) + 1 /\ Len(conns) \in Nat
      /\ DOMAIN conns = 1 .. Len(conns)
      /\ \A k \in DOMAIN conns : c2[k] = conns[k]
      /\ c2[Len(conns) + 1] = x
      BY <1>1, <1>4, AppendProperties, LenProperties
<1>6. \A k \in DOMAIN c2 : k \in DOMAIN conns \/ k = Len(conns) + 1
      BY <1>5
<1>7. Apart(c2)
  <2>1. \A k \in DOMAIN conns : /\ c2[k].by # c2[k].to
                                /\ ~c2[k].in => c2[k].kind = "tcp" /\ c2[k].to \notin c2[k].ends
        BY <1>5 DEF Apart
  <2>2. x.by # x.to /\ x.to \notin x.ends /\ x.kind = "tcp"
        BY <1>4
  <2>. QED BY <1>5, <1>6, <2>1, <2>2 DEF Apart
<1>8. Only(conns, c2, n)
  <2>1. \A k \in DOMAIN c2 : k \notin DOMAIN conns => c2[k].ends \subseteq {n}
        BY <1>4, <1>5, <1>6
  <2>2. DOMAIN conns \subseteq DOMAIN c2
        BY <1>5
  <2>. QED BY <1>5, <1>7, <2>1, <2>2 DEF Only
<1>9. EndsIn(c2, n) = EndsIn(conns, n) \cup {Len(conns) + 1}
  <2>1. Len(conns) + 1 \in DOMAIN c2 /\ DOMAIN conns \subseteq DOMAIN c2 /\ n \in c2[Len(conns) + 1].ends
        BY <1>4, <1>5
  <2>. QED BY <1>5, <1>6, <2>1 DEF EndsIn
<1>10. Len(conns) + 1 \in DOMAIN c2 /\ Len(conns) + 1 \notin DOMAIN conns
      BY <1>5
<1>. QED BY <1>8, <1>9, <1>10 DEF c2

\* eb_socket_close, and the kernel when a program ends.
LEMMA LeftKeeps ==
  ASSUME NEW cs \in Seq(Conns), Apart(cs), NEW n \in Nodes, NEW c2,
         c2 = [k \in DOMAIN cs |-> c2[k]],
         \A k \in DOMAIN cs : /\ c2[k] \in Conns /\ c2[k].kind = cs[k].kind /\ c2[k].by = cs[k].by /\ c2[k].to = cs[k].to
                              /\ c2[k].ends \subseteq cs[k].ends /\ c2[k].ends \ {n} = cs[k].ends \ {n}
                              /\ cs[k].in => c2[k].in
  PROVE  Only(cs, c2, n) /\ EndsIn(c2, n) = {k \in DOMAIN cs : n \in c2[k].ends}
<1>1. DOMAIN c2 = DOMAIN cs
      BY Zenon
<1>2. c2 \in Seq(Conns)
  <2>1. Len(cs) \in Nat /\ DOMAIN cs = 1 .. Len(cs)
        BY LenProperties
  <2>2. c2 \in [1 .. Len(cs) -> Conns]
        BY <1>1, <2>1
  <2>. QED BY <2>1, <2>2, SeqDef
<1>3. Apart(c2)
  <2> SUFFICES ASSUME NEW k \in DOMAIN cs
               PROVE  c2[k].by # c2[k].to /\ (~c2[k].in => c2[k].kind = "tcp" /\ c2[k].to \notin c2[k].ends)
      BY <1>1 DEF Apart
  <2>1. cs[k].by # cs[k].to /\ (~cs[k].in => cs[k].kind = "tcp" /\ cs[k].to \notin cs[k].ends)
        BY DEF Apart
  <2>2. c2[k].ends \subseteq cs[k].ends
        OBVIOUS
  <2>. QED BY <2>1, <2>2
<1>4. Only(cs, c2, n)
  <2>1. \A k \in DOMAIN cs : c2[k].ends \ {n} = cs[k].ends \ {n}
        OBVIOUS
  <2>. QED BY <1>1, <1>2, <1>3, <2>1 DEF Only
<1>. QED BY <1>1, <1>4 DEF EndsIn

-----------------------------------------------------------------------------
(* The list of devices, and sets of widths.                                *)

\* eb_socket_check keeps the device that follows the one it is at.
LEMMA NextIs ==
  ASSUME NEW n, sock[n].devs \in Seq(Nat), IsInjective(sock[n].devs)
  PROVE  /\ \A j \in DOMAIN sock[n].devs :
              NextDev(n, sock[n].devs[j]) = IF j < Len(sock[n].devs) THEN sock[n].devs[j + 1] ELSE 0
         /\ \A d : d \notin Range(sock[n].devs) => NextDev(n, d) = 0
<1>. DEFINE s == sock[n].devs
<1>1. s \in Seq(Nat) /\ IsInjective(s) /\ Len(s) \in Nat /\ DOMAIN s = 1 .. Len(s)
      BY LenProperties
<1>. HIDE DEF s
<1>2. ASSUME NEW j \in DOMAIN s PROVE After(s, s[j]) = IF j < Len(s) THEN {s[j + 1]} ELSE {}
  <2>1. \A k \in 1 .. Len(s) - 1 : k \in DOMAIN s /\ (s[k] = s[j] => k = j)
        BY <1>1 DEF IsInjective
  <2>2. CASE j < Len(s)
    <3>1. {k \in 1 .. Len(s) - 1 : s[k] = s[j]} = {j}
          BY <1>1, <2>1, <2>2
    <3>2. After(s, s[j]) = {s[k + 1] : k \in {j}}
          BY <3>1, Zenon DEF After
    <3>. QED BY <2>2, <3>2
  <2>3. CASE ~(j < Len(s))
    <3>1. {k \in 1 .. Len(s) - 1 : s[k] = s[j]} = {}
          BY <1>1, <2>1, <2>3
    <3>2. After(s, s[j]) = {s[k + 1] : k \in {}}
          BY <3>1, Zenon DEF After
    <3>. QED BY <2>3, <3>2
  <2>. QED BY <2>2, <2>3
<1>3. ASSUME NEW d, d \notin Range(s) PROVE After(s, d) = {}
  <2>1. \A k \in 1 .. Len(s) - 1 : k \in DOMAIN s
        BY <1>1
  <2>2. {k \in 1 .. Len(s) - 1 : s[k] = d} = {}
        BY <1>3, <2>1 DEF Range
  <2>3. After(s, d) = {s[k + 1] : k \in {}}
        BY <2>2 DEF After
  <2>. QED BY <2>3
<1>4. \A d : NextDev(n, d) = IF After(s, d) = {} THEN 0 ELSE CHOOSE e \in After(s, d) : TRUE
      BY DEF NextDev, s
<1>5. ASSUME NEW j \in DOMAIN s PROVE NextDev(n, s[j]) = IF j < Len(s) THEN s[j + 1] ELSE 0
  <2>1. CASE j < Len(s)
        BY <1>2, <1>4, <2>1, Zenon
  <2>2. CASE ~(j < Len(s))
        BY <1>2, <1>4, <2>2
  <2>. QED BY <2>1, <2>2
<1>6. ASSUME NEW d, d \notin Range(s) PROVE NextDev(n, d) = 0
      BY <1>3, <1>4, <1>6
<1>. QED BY <1>5, <1>6 DEF s

LEMMA WidthsAre ==
  /\ None \in WidthSet
  /\ \A v, w \in WidthSet : Meet(v, w) \in WidthSet
  /\ \A w \in WidthSet : Refine(w) \in WidthSet
BY DEF None, WidthSet, Meet, Refine, Largest

-----------------------------------------------------------------------------
(* The invariant holds at the start, and every action keeps it.            *)

LEMMA InvIs ==
  ASSUME OpenInv, NEW n \in Nodes
  PROVE  /\ Types /\ NodeAt(n) /\ Flow(n) /\ Apart(conns) /\ Lines(conns) /\ conns \in Seq(Conns)
         /\ mem[n] \in Pools /\ sock[n] \in Socks /\ app[n] \in Apps /\ chk[n] \in Checks
         /\ Widths[n] \in WidthSet /\ udp \in SUBSET Datagrams
         /\ FreeOk(mem[n]) /\ IsInjective(sock[n].devs) /\ sock[n].devs \in Seq(Nat) /\ 0 \notin Range(sock[n].devs)
<1>1. Types /\ NodeAt(n) /\ Flow(n) /\ Apart(conns) /\ Lines(conns)
      BY DEF OpenInv, PoolInv, FlowInv, ConnInv
<1>2. /\ conns \in Seq(Conns) /\ mem[n] \in Pools /\ sock[n] \in Socks /\ app[n] \in Apps /\ chk[n] \in Checks
      /\ udp \in SUBSET Datagrams
      BY <1>1 DEF Types
<1>3. Widths[n] \in WidthSet
      BY OpenAssumption
<1>4. FreeOk(mem[n]) /\ IsInjective(sock[n].devs)
      BY <1>1 DEF NodeAt, Node, Parts
<1>5. sock[n].devs \in Seq(Nat) /\ 0 \notin Range(sock[n].devs)
  <2>1. Node(mem[n], sock[n], chk[n].link, EndsIn(conns, n))
        BY <1>1 DEF NodeAt
  <2>. DEFINE m == mem[n]
              s == sock[n]
              l == chk[n].link
              E == EndsIn(conns, n)
  <2>. HIDE DEF m, s, l, E
  <2>2. Node(m, s, l, E)
        BY <2>1 DEF m, s, l, E
  <2>3. s.devs \in Seq(Nat) /\ 0 \notin DOMAIN m.heap /\ \A d \in Range(s.devs) : d \in DOMAIN m.heap
        BY <2>2, NodeIs, Zenon
  <2>. QED BY <2>3 DEF m, s
<1>. QED BY <1>1, <1>2, <1>3, <1>4, <1>5

\* What one node does leaves the others as they are.
LEMMA OneNode ==
  ASSUME OpenInv, NEW n \in Nodes,
         mem' = [mem EXCEPT ![n] = mem'[n]], sock' = [sock EXCEPT ![n] = sock'[n]],
         app' = [app EXCEPT ![n] = app'[n]], chk' = [chk EXCEPT ![n] = chk'[n]],
         app'[n] \in Apps, chk'[n] \in Checks, udp' \in SUBSET Datagrams,
         Only(conns, conns', n), NodeAt(n)', Flow(n)'
  PROVE  OpenInv'
<1>1. Types /\ Lines(conns)
      BY InvIs
<1>2. Node(mem'[n], sock'[n], chk'[n].link, EndsIn(conns', n))
      BY DEF NodeAt
<1>3. mem'[n] \in Pools /\ sock'[n] \in Socks
      BY <1>2 DEF Node, FreeOk
<1>4. conns' \in Seq(Conns) /\ Apart(conns')
      BY DEF Only
<1>5. Types'
  <2>1. mem' \in [Nodes -> Pools]
        BY <1>1, <1>3 DEF Types
  <2>2. sock' \in [Nodes -> Socks]
        BY <1>1, <1>3 DEF Types
  <2>3. app' \in [Nodes -> Apps]
        BY <1>1 DEF Types
  <2>4. chk' \in [Nodes -> Checks]
        BY <1>1 DEF Types
  <2>. QED BY <1>4, <2>1, <2>2, <2>3, <2>4 DEF Types
<1>6. \A o \in Nodes \ {n} : EndsIn(conns', o) = EndsIn(conns, o)
      BY OnlyKeeps
<1>7. Lines(conns')
      BY <1>1, OnlyKeeps
<1>8. \A o \in Nodes \ {n} : mem'[o] = mem[o] /\ sock'[o] = sock[o] /\ app'[o] = app[o] /\ chk'[o] = chk[o]
      BY <1>1 DEF Types
<1>9. ASSUME NEW o \in Nodes, o # n PROVE NodeAt(o)' /\ Flow(o)'
  <2>1. NodeAt(o) /\ Flow(o)
        BY InvIs
  <2>2. mem'[o] = mem[o] /\ sock'[o] = sock[o] /\ app'[o] = app[o] /\ chk'[o] = chk[o] /\ EndsIn(conns', o) = EndsIn(conns, o)
        BY <1>6, <1>8, <1>9
  <2>3. NodeAt(o)'
        BY <2>1, <2>2 DEF NodeAt
  <2>4. Flow(o)'
        BY <2>1, <2>2 DEF Flow, Item
  <2>. QED BY <2>3, <2>4
<1>10. PoolInv' /\ FlowInv'
      BY <1>9 DEF PoolInv, FlowInv
<1>. QED BY <1>4, <1>5, <1>7, <1>10 DEF OpenInv, ConnInv

\* The records of a node that does nothing, and the start of a check.
LEMMA IdleIs ==
  /\ Idle \in Apps /\ Idle.pc = "idle"
  /\ NoCheck \in Checks /\ NoCheck.pc = "no" /\ NoCheck.link = 0 /\ NoCheck.at = 0 /\ NoCheck.next = 0
  /\ StartCheck \in Checks /\ StartCheck.pc = "start" /\ StartCheck.link = 0 /\ StartCheck.at = 0 /\ StartCheck.next = 0
  /\ Closed \in Socks /\ Closed.self = 0 /\ Closed.aux = 0
<1>1. Idle \in Apps /\ Idle.pc = "idle"
      BY WidthsAre DEF Idle, Apps
<1>2. /\ NoCheck \in Checks /\ NoCheck.pc = "no" /\ NoCheck.link = 0 /\ NoCheck.at = 0 /\ NoCheck.next = 0
      /\ StartCheck \in Checks /\ StartCheck.pc = "start" /\ StartCheck.link = 0 /\ StartCheck.at = 0 /\ StartCheck.next = 0
  <2>. DEFINE e == <<>>
  <2>1. e \in Seq(Nat)
        OBVIOUS
  <2>2. NoCheck = [pc |-> "no", link |-> 0, todo |-> e, at |-> 0, next |-> 0]
        BY DEF NoCheck
  <2>3. StartCheck = [NoCheck EXCEPT !.pc = "start"]
        BY DEF StartCheck
  <2>. HIDE DEF e
  <2>4. StartCheck = [pc |-> "start", link |-> 0, todo |-> e, at |-> 0, next |-> 0]
        BY <2>2, <2>3
  <2>. QED BY <2>1, <2>2, <2>4 DEF Checks
<1>3. Closed \in Socks /\ Closed.self = 0 /\ Closed.aux = 0
      BY DEF Closed, Socks
<1>. QED BY <1>1, <1>2, <1>3

LEMMA SocketOpenInv ==
  ASSUME OpenInv, NEW n \in Nodes, SocketOpen(n)
  PROVE  OpenInv'
<1>1. /\ Types /\ NodeAt(n) /\ Flow(n) /\ Apart(conns) /\ conns \in Seq(Conns) /\ app[n] \in Apps /\ chk[n] \in Checks
      /\ udp \in SUBSET Datagrams
      BY InvIs
<1>2. sock[n].self = 0 /\ app[n].pc = "idle" /\ UNCHANGED <<app, udp, conns>>
      BY DEF SocketOpen
<1>3. sock[n] = Closed /\ chk[n].pc = "no" /\ chk[n].link = 0
      BY <1>1, <1>2 DEF Flow
<1>4. Node(mem[n], Closed, 0, EndsIn(conns, n)) /\ FreeOk(mem[n])
      BY <1>1, <1>3 DEF NodeAt, Node
<1>5. EndsIn(conns, n) = {}
  <2>1. 0 = 0
        OBVIOUS
  <2>. QED BY <1>4, <2>1, ClosedHolds
<1>6. Only(conns, conns', n) /\ conns' = conns /\ app' = app /\ udp' = udp
      BY <1>1, <1>2, OnlyNothing
<1>7. mem \in [Nodes -> Pools] /\ sock \in [Nodes -> Socks] /\ app \in [Nodes -> Apps] /\ chk \in [Nodes -> Checks]
      BY <1>1 DEF Types
<1>8. CASE UNCHANGED <<mem, sock, chk>>
  <2>1. NodeAt(n)' /\ Flow(n)'
        BY <1>1, <1>6, <1>8 DEF NodeAt, Flow, Item
  <2>. QED BY <1>1, <1>6, <1>7, <1>8, <2>1, OneNode
<1>9. ASSUME Len(mem[n].free) >= 2, NEW res,
             LET self == Fresh(mem[n])
                 m1 == New(mem[n], [is |-> "socket"])
                 m2 == New(m1, [is |-> "aux"])
                 all == OpenTransports(m2, res)
                 new == [self |-> self, aux |-> Fresh(m1), trans |-> all.trans, devs |-> <<>>]
             IN IF all.status = "OK"
                THEN /\ mem' = [mem EXCEPT ![n] = all.m] /\ sock' = [sock EXCEPT ![n] = new]
                     /\ chk' = [chk EXCEPT ![n] = StartCheck]
                ELSE mem' = [mem EXCEPT ![n] = CloseAll(all.m, new)] /\ UNCHANGED <<sock, chk>>
      PROVE  OpenInv'
  <2>. DEFINE m1 == New(mem[n], [is |-> "socket"])
              m2 == New(m1, [is |-> "aux"])
              all == OpenTransports(m2, res)
              new == [self |-> Fresh(mem[n]), aux |-> Fresh(m1), trans |-> all.trans, devs |-> <<>>]
  <2>1. /\ Node(all.m, new, 0, {})
        /\ Node(CloseAll(all.m, new), Closed, 0, {})
        /\ new.self # 0 /\ new.aux # 0
        BY <1>4, <1>5, <1>9, SocketOpenKeeps
  <2>2. IF all.status = "OK"
        THEN /\ mem' = [mem EXCEPT ![n] = all.m] /\ sock' = [sock EXCEPT ![n] = new]
             /\ chk' = [chk EXCEPT ![n] = StartCheck]
        ELSE mem' = [mem EXCEPT ![n] = CloseAll(all.m, new)] /\ UNCHANGED <<sock, chk>>
        BY <1>9
  <2>. HIDE DEF m1, m2, all, new
  <2>3. CASE all.status = "OK"
    <3>1. /\ mem' = [mem EXCEPT ![n] = all.m] /\ sock' = [sock EXCEPT ![n] = new]
          /\ chk' = [chk EXCEPT ![n] = StartCheck]
          BY <2>2, <2>3
    <3>2. mem'[n] = all.m /\ sock'[n] = new /\ chk'[n] = StartCheck
          BY <1>7, <3>1
    <3>3. /\ mem' = [mem EXCEPT ![n] = mem'[n]] /\ sock' = [sock EXCEPT ![n] = sock'[n]]
          /\ chk' = [chk EXCEPT ![n] = chk'[n]] /\ app' = [app EXCEPT ![n] = app'[n]]
          BY <1>6, <1>7, <3>1, <3>2
    <3>4. NodeAt(n)'
          BY <1>5, <1>6, <2>1, <3>2, IdleIs DEF NodeAt
    <3>5. Flow(n)'
          BY <1>2, <1>6, <2>1, <3>2, IdleIs DEF Flow
    <3>6. chk'[n] \in Checks /\ app'[n] \in Apps
          BY <1>1, <1>6, <3>2, IdleIs
    <3>. QED BY <1>1, <1>6, <3>3, <3>4, <3>5, <3>6, OneNode
  <2>4. CASE all.status # "OK"
    <3>1. mem' = [mem EXCEPT ![n] = CloseAll(all.m, new)] /\ sock' = sock /\ chk' = chk
          BY <2>2, <2>4
    <3>2. mem'[n] = CloseAll(all.m, new)
          BY <1>7, <3>1
    <3>3. /\ mem' = [mem EXCEPT ![n] = mem'[n]] /\ sock' = [sock EXCEPT ![n] = sock'[n]]
          /\ chk' = [chk EXCEPT ![n] = chk'[n]] /\ app' = [app EXCEPT ![n] = app'[n]]
          BY <1>6, <1>7, <3>1, <3>2
    <3>4. NodeAt(n)'
          BY <1>3, <1>5, <1>6, <2>1, <3>1, <3>2 DEF NodeAt
    <3>5. Flow(n)'
          BY <1>1, <1>2, <1>6, <3>1 DEF Flow
    <3>6. chk'[n] \in Checks /\ app'[n] \in Apps
          BY <1>1, <1>6, <3>1
    <3>. QED BY <1>1, <1>6, <3>3, <3>4, <3>5, <3>6, OneNode
  <2>. QED BY <2>3, <2>4
<1>10. CASE ~(~Possible(Widths[n]) \/ Len(mem[n].free) < 2)
  <2>1. Len(mem[n].free) \in Nat
        BY <1>4, PoolIs
  <2>2. Len(mem[n].free) >= 2
        BY <1>10, <2>1
  <2>. QED BY <1>9, <1>10, <2>2, Zenon DEF SocketOpen
<1>11. CASE ~Possible(Widths[n]) \/ Len(mem[n].free) < 2
      BY <1>8, <1>11 DEF SocketOpen
<1>. QED BY <1>10, <1>11

LEMMA SocketCloseInv ==
  ASSUME OpenInv, NEW n \in Nodes, SocketClose(n)
  PROVE  OpenInv'
<1>1. /\ Types /\ NodeAt(n) /\ Flow(n) /\ Apart(conns) /\ conns \in Seq(Conns) /\ app[n] \in Apps /\ chk[n] \in Checks
      /\ udp \in SUBSET Datagrams /\ sock[n] \in Socks /\ FreeOk(mem[n])
      BY InvIs
<1>2. /\ mem \in [Nodes -> Pools] /\ sock \in [Nodes -> Socks] /\ app \in [Nodes -> Apps] /\ chk \in [Nodes -> Checks]
      BY <1>1 DEF Types
<1>3. /\ sock[n].self # 0 /\ app[n].pc = "idle" /\ chk[n].pc = "no" /\ sock[n].devs = <<>>
      /\ mem' = [mem EXCEPT ![n] = CloseAll(mem[n], sock[n])] /\ sock' = [sock EXCEPT ![n] = Closed]
      /\ conns' = [k \in DOMAIN conns |-> IF Arrived(n, k) THEN [conns[k] EXCEPT !.in = TRUE] ELSE conns[k]]
      /\ app' = app /\ chk' = chk /\ udp' = udp
      BY DEF SocketClose, Ready
<1>4. sock[n].aux # 0 /\ chk[n].link = 0 /\ chk[n].at = 0 /\ chk[n].next = 0
      BY <1>1, <1>3 DEF Flow
<1>5. Parts(mem[n], sock[n], 0) /\ Wired(mem[n], sock[n], EndsIn(conns, n))
      BY <1>1, <1>4 DEF NodeAt, Node
<1>6. Range(sock[n].devs) = {}
  <2>. DEFINE e == <<>>
  <2>1. Range(e) = {} /\ sock[n].devs = e
        BY <1>3, EmptyIs
  <2>. HIDE DEF e
  <2>. QED BY <2>1
<1>7. /\ IsInjective(sock[n].trans) /\ Range(sock[n].trans) = Are(mem[n], "transport")
      /\ Are(mem[n], "socket") = {sock[n].self} /\ Are(mem[n], "aux") = {sock[n].aux}
      /\ Are(mem[n], "device") = {} /\ Are(mem[n], "link") = {}
  <2>1. ({0} \cup {LinkOf(mem[n], d) : d \in Range(sock[n].devs)}) \ {0} = Are(mem[n], "link")
        BY <1>5 DEF Parts
  <2>2. Are(mem[n], "link") = {}
        BY <1>6, <2>1
  <2>. QED BY <1>3, <1>4, <1>5, <1>6, <2>2 DEF Parts
<1>8. Node(CloseAll(mem[n], sock[n]), Closed, 0, {})
      BY <1>1, <1>3, <1>4, <1>7, CloseAllKeeps
<1>9. EndsIn(conns, n) = {}
  <2>1. {ConnAt(mem[n], d) : d \in Range(sock[n].devs)} \ {0} = EndsIn(conns, n)
        BY <1>5 DEF Wired
  <2>. QED BY <1>6, <2>1
<1>10. Only(conns, conns', n) /\ EndsIn(conns', n) = {}
  <2>. DEFINE c2 == conns'
              left == FALSE
  <2>1. \A k \in DOMAIN conns : /\ c2[k] \in Conns /\ c2[k].kind = conns[k].kind /\ c2[k].by = conns[k].by
                                /\ c2[k].to = conns[k].to /\ c2[k].ends = conns[k].ends
                                /\ conns[k].in => c2[k].in
    <3> SUFFICES ASSUME NEW k \in DOMAIN conns
                 PROVE  /\ c2[k] \in Conns /\ c2[k].kind = conns[k].kind /\ c2[k].by = conns[k].by
                        /\ c2[k].to = conns[k].to /\ c2[k].ends = conns[k].ends /\ (conns[k].in => c2[k].in)
        OBVIOUS
    <3>1. c2[k] = IF Arrived(n, k) THEN [conns[k] EXCEPT !.in = TRUE] ELSE conns[k]
          BY <1>3
    <3>. DEFINE c == conns[k]
    <3>2. c \in Conns
          BY <1>1, ConnIs
    <3>. HIDE DEF c2
    <3>3. c2[k] = c \/ c2[k] = [c EXCEPT !.in = TRUE]
          BY <3>1
    <3>. HIDE DEF c
    <3>4. /\ c2[k] \in Conns /\ c2[k].kind = c.kind /\ c2[k].by = c.by
          /\ c2[k].to = c.to /\ c2[k].ends = c.ends /\ (c.in => c2[k].in)
          BY <3>2, <3>3, Zenon DEF Conns
    <3>. QED BY <3>4 DEF c
  <2>2. c2 = [k \in DOMAIN conns |-> c2[k]]
        BY <1>3
  <2>. HIDE DEF c2
  <2>3. Only(conns, c2, n) /\ EndsIn(c2, n) = {k \in DOMAIN conns : n \in c2[k].ends}
    <3>1. \A k \in DOMAIN conns : /\ c2[k].ends \subseteq conns[k].ends
                                  /\ c2[k].ends \ {n} = conns[k].ends \ {n}
          BY <2>1
    <3>. QED BY <1>1, <2>1, <2>2, <3>1, LeftKeeps
  <2>4. \A k \in DOMAIN conns : n \in c2[k].ends <=> n \in conns[k].ends
        BY <2>1
  <2>. QED BY <1>9, <2>3, <2>4 DEF c2, EndsIn
<1>11. /\ mem'[n] = CloseAll(mem[n], sock[n]) /\ sock'[n] = Closed /\ chk'[n] = chk[n] /\ app'[n] = app[n]
       /\ mem' = [mem EXCEPT ![n] = mem'[n]] /\ sock' = [sock EXCEPT ![n] = sock'[n]]
       /\ chk' = [chk EXCEPT ![n] = chk'[n]] /\ app' = [app EXCEPT ![n] = app'[n]]
      BY <1>2, <1>3
<1>12. NodeAt(n)'
      BY <1>4, <1>8, <1>10, <1>11 DEF NodeAt
<1>13. Flow(n)'
      BY <1>3, <1>4, <1>11, IdleIs DEF Flow
<1>14. app'[n] \in Apps /\ chk'[n] \in Checks /\ udp' \in SUBSET Datagrams
      BY <1>1, <1>3, <1>11
<1>. QED BY <1>10, <1>11, <1>12, <1>13, <1>14, OneNode

LEMMA ExitInv ==
  ASSUME OpenInv, NEW n \in Nodes, Exit(n)
  PROVE  OpenInv'
<1>1. /\ Types /\ NodeAt(n) /\ Flow(n) /\ Apart(conns) /\ conns \in Seq(Conns) /\ udp \in SUBSET Datagrams
      /\ FreeOk(mem[n])
      BY InvIs
<1>2. /\ mem \in [Nodes -> Pools] /\ sock \in [Nodes -> Socks] /\ app \in [Nodes -> Apps] /\ chk \in [Nodes -> Checks]
      BY <1>1 DEF Types
<1>. DEFINE new == [free |-> [i \in DOMAIN mem[n].heap |-> i], heap |-> [i \in DOMAIN mem[n].heap |-> Unused]]
<1>3. /\ mem' = [mem EXCEPT ![n] = new] /\ sock' = [sock EXCEPT ![n] = Closed] /\ app' = [app EXCEPT ![n] = Idle]
      /\ chk' = [chk EXCEPT ![n] = NoCheck] /\ udp' = udp
      /\ conns' = [k \in DOMAIN conns |-> [conns[k] EXCEPT !.ends = @ \ {n}, !.in = @ \/ conns[k].to = n]]
      BY Zenon DEF Exit
<1>4. Node(new, Closed, 0, {})
  <2>. DEFINE N == Len(mem[n].heap)
  <2>1. N \in Nat /\ DOMAIN mem[n].heap = 1 .. N
        BY <1>1, PoolIs
  <2>. HIDE DEF N
  <2>2. new = [free |-> [i \in 1 .. N |-> i], heap |-> [i \in 1 .. N |-> Unused]]
        BY <2>1
  <2>. QED BY <2>1, <2>2, ExitKeeps, Zenon
<1>. HIDE DEF new
<1>5. Only(conns, conns', n) /\ EndsIn(conns', n) = {}
  <2>. DEFINE c2 == conns'
  <2>1. \A k \in DOMAIN conns : /\ c2[k] \in Conns /\ c2[k].kind = conns[k].kind /\ c2[k].by = conns[k].by
                                /\ c2[k].to = conns[k].to /\ c2[k].ends = conns[k].ends \ {n}
                                /\ conns[k].in => c2[k].in
    <3> SUFFICES ASSUME NEW k \in DOMAIN conns
                 PROVE  /\ c2[k] \in Conns /\ c2[k].kind = conns[k].kind /\ c2[k].by = conns[k].by
                        /\ c2[k].to = conns[k].to /\ c2[k].ends = conns[k].ends \ {n} /\ (conns[k].in => c2[k].in)
        OBVIOUS
    <3>. DEFINE c == conns[k]
                b == c.in \/ c.to = n
    <3>1. c2[k] = [c EXCEPT !.ends = @ \ {n}, !.in = b]
          BY <1>3, Zenon
    <3>2. c \in Conns
          BY <1>1, ConnIs
    <3>3. b \in BOOLEAN /\ (c.in => b)
          BY <3>2 DEF Conns
    <3>. HIDE DEF c, c2, b
    <3>4. /\ c2[k] \in Conns /\ c2[k].kind = c.kind /\ c2[k].by = c.by
          /\ c2[k].to = c.to /\ c2[k].ends = c.ends \ {n} /\ c2[k].in = b
          BY <3>1, <3>2, <3>3, Zenon DEF Conns
    <3>. QED BY <3>3, <3>4 DEF c
  <2>2. c2 = [k \in DOMAIN conns |-> c2[k]]
        BY <1>3, Zenon
  <2>. HIDE DEF c2
  <2>3. Only(conns, c2, n) /\ EndsIn(c2, n) = {k \in DOMAIN conns : n \in c2[k].ends}
    <3>1. \A k \in DOMAIN conns : /\ c2[k].ends \subseteq conns[k].ends
                                  /\ c2[k].ends \ {n} = conns[k].ends \ {n}
          BY <2>1
    <3>. QED BY <1>1, <2>1, <2>2, <3>1, LeftKeeps
  <2>4. \A k \in DOMAIN conns : n \notin c2[k].ends
        BY <2>1
  <2>. QED BY <2>3, <2>4 DEF c2
<1>6. /\ mem'[n] = new /\ sock'[n] = Closed /\ chk'[n] = NoCheck /\ app'[n] = Idle
      /\ mem' = [mem EXCEPT ![n] = mem'[n]] /\ sock' = [sock EXCEPT ![n] = sock'[n]]
      /\ chk' = [chk EXCEPT ![n] = chk'[n]] /\ app' = [app EXCEPT ![n] = app'[n]]
      BY <1>2, <1>3, Zenon
<1>7. NodeAt(n)'
      BY <1>4, <1>5, <1>6, IdleIs DEF NodeAt
<1>8. Flow(n)'
      BY <1>6, IdleIs DEF Flow
<1>9. app'[n] \in Apps /\ chk'[n] \in Checks /\ udp' \in SUBSET Datagrams
      BY <1>1, <1>3, <1>6, IdleIs, Zenon
<1>. QED BY <1>5, <1>6, <1>7, <1>8, <1>9, OneNode

\* A device of the list, its item and its connection.
LEMMA DeviceIs ==
  ASSUME OpenInv, NEW n \in Nodes, NEW d \in Range(sock[n].devs)
  PROVE  /\ Item(n, d) = mem[n].heap[d] /\ Item(n, d) \in Devs /\ d \in DOMAIN mem[n].heap /\ d \in Nat /\ d # 0
         /\ LinkOf(mem[n], d) = Item(n, d).link /\ Item(n, d).link \in Nat
         /\ ConnOf(n, d) = ConnAt(mem[n], d) /\ ConnOf(n, d) \in DOMAIN conns \cup {0}
         /\ ConnOf(n, d) # 0 => n \in conns[ConnOf(n, d)].ends /\ Item(n, d).link # 0
<1>. DEFINE m == mem[n]
            s == sock[n]
            l == chk[n].link
            E == EndsIn(conns, n)
<1>1. Node(m, s, l, E) /\ FreeOk(m)
      BY InvIs DEF NodeAt
<1>. HIDE DEF m, s, l, E
<1>2. d \in Range(s.devs)
      BY DEF s
<1>3. d \in DOMAIN m.heap /\ m.heap[d] \in Devs
      BY <1>1, <1>2, NodeIs, Zenon
<1>4. d \in Nat /\ d # 0
      BY <1>1, <1>3, PoolIs
<1>5. {ConnAt(m, e) : e \in Range(s.devs)} \ {0} = E
      BY <1>1 DEF Node, Wired
<1>6. ConnAt(m, d) # 0 => ConnAt(m, d) \in E
      BY <1>2, <1>5
<1>7. Item(n, d) = m.heap[d] /\ LinkOf(m, d) = Item(n, d).link
      BY DEF Item, LinkOf, m
<1>8. ConnOf(n, d) = ConnAt(m, d)
      BY DEF ConnOf, ConnAt, Item, LinkOf, m
<1>9. ConnAt(m, d) # 0 => ConnAt(m, d) \in DOMAIN conns /\ n \in conns[ConnAt(m, d)].ends
      BY <1>6 DEF E, EndsIn
<1>10. ConnAt(m, d) # 0 => LinkOf(m, d) # 0
      BY DEF ConnAt
<1>11. Item(n, d).link \in Nat
      BY <1>3, <1>7 DEF Devs
<1>. QED BY <1>3, <1>4, <1>7, <1>8, <1>9, <1>10, <1>11 DEF m

\* eb_device_close
LEMMA CloseDevIs ==
  ASSUME OpenInv, NEW n \in Nodes, NEW d \in Range(sock[n].devs), CloseDev(n, d)
  PROVE  /\ mem' = [mem EXCEPT ![n] = mem'[n]] /\ sock' = [sock EXCEPT ![n] = sock'[n]]
         /\ sock'[n].self = sock[n].self /\ sock'[n].aux = sock[n].aux
         /\ Range(sock'[n].devs) = Range(sock[n].devs) \ {d} /\ sock'[n].devs = Without(sock[n].devs, d)
         /\ Only(conns, conns', n) /\ Node(mem'[n], sock'[n], chk[n].link, EndsIn(conns', n))
         /\ \A i \in DOMAIN mem[n].heap : i # d /\ i # LinkOf(mem[n], d) => mem'[n].heap[i] = mem[n].heap[i]
<1>1. /\ Types /\ NodeAt(n) /\ Apart(conns) /\ conns \in Seq(Conns) /\ sock[n] \in Socks
      BY InvIs
<1>2. mem \in [Nodes -> Pools] /\ sock \in [Nodes -> Socks]
      BY <1>1 DEF Types
<1>3. /\ mem' = [mem EXCEPT ![n] = CloseDevMem(mem[n], d)]
      /\ sock' = [sock EXCEPT ![n].devs = Without(@, d)]
      /\ conns' = Shut(conns, n, ConnOf(n, d))
      BY DEF CloseDev
<1>4. /\ mem'[n] = CloseDevMem(mem[n], d) /\ sock'[n] = [sock[n] EXCEPT !.devs = Without(@, d)]
      /\ mem' = [mem EXCEPT ![n] = mem'[n]] /\ sock' = [sock EXCEPT ![n] = sock'[n]]
      BY <1>2, <1>3
<1>5. ConnOf(n, d) = ConnAt(mem[n], d) /\ ConnOf(n, d) \in DOMAIN conns \cup {0}
      BY DeviceIs
<1>6. Only(conns, conns', n) /\ EndsIn(conns', n) = EndsIn(conns, n) \ {ConnAt(mem[n], d)}
      BY <1>1, <1>3, <1>5, ShutKeeps
<1>7. Node(mem[n], sock[n], chk[n].link, EndsIn(conns, n))
      BY <1>1 DEF NodeAt
<1>8. /\ Node(CloseDevMem(mem[n], d), [sock[n] EXCEPT !.devs = Without(@, d)], chk[n].link, EndsIn(conns, n) \ {ConnAt(mem[n], d)})
      /\ DOMAIN CloseDevMem(mem[n], d).heap = DOMAIN mem[n].heap
      /\ Range(Without(sock[n].devs, d)) = Range(sock[n].devs) \ {d}
      /\ \A i \in DOMAIN mem[n].heap : i # d /\ i # LinkOf(mem[n], d) => CloseDevMem(mem[n], d).heap[i] = mem[n].heap[i]
  <2>1. Closes(mem[n], sock[n], chk[n].link, EndsIn(conns, n), d)
        BY <1>7, CloseKeeps
  <2>. QED BY <2>1 DEF Closes
<1>9. sock'[n].self = sock[n].self /\ sock'[n].aux = sock[n].aux /\ sock'[n].devs = Without(sock[n].devs, d)
      BY <1>1, <1>4 DEF Socks
<1>. QED BY <1>4, <1>6, <1>8, <1>9

LEMMA DeviceCloseInv ==
  ASSUME OpenInv, NEW n \in Nodes, NEW d \in Range(sock[n].devs), DeviceClose(n, d)
  PROVE  OpenInv'
<1>1. /\ Types /\ Flow(n) /\ app[n] \in Apps /\ chk[n] \in Checks /\ udp \in SUBSET Datagrams
      BY InvIs
<1>2. app \in [Nodes -> Apps] /\ chk \in [Nodes -> Checks]
      BY <1>1 DEF Types
<1>3. /\ sock[n].self # 0 /\ app[n].pc = "idle" /\ chk[n].pc = "no" /\ CloseDev(n, d)
      /\ app' = app /\ chk' = chk /\ udp' = udp
      BY DEF DeviceClose, Ready
<1>4. /\ mem' = [mem EXCEPT ![n] = mem'[n]] /\ sock' = [sock EXCEPT ![n] = sock'[n]]
      /\ sock'[n].self = sock[n].self /\ sock'[n].aux = sock[n].aux
      /\ Only(conns, conns', n) /\ Node(mem'[n], sock'[n], chk[n].link, EndsIn(conns', n))
      BY <1>3, CloseDevIs
<1>5. NodeAt(n)'
      BY <1>3, <1>4 DEF NodeAt
<1>6. Flow(n)'
      BY <1>1, <1>3, <1>4 DEF Flow
<1>7. app' = [app EXCEPT ![n] = app'[n]] /\ chk' = [chk EXCEPT ![n] = chk'[n]]
      BY <1>2, <1>3
<1>. QED BY <1>1, <1>3, <1>4, <1>5, <1>6, <1>7, OneNode

LEMMA OpenDoneInv ==
  ASSUME OpenInv, NEW n \in Nodes, OpenDone(n)
  PROVE  OpenInv'
<1>. DEFINE d == app[n].dev
            w == Meet(Item(n, d).widths, app[n].want)
<1>1. /\ Types /\ NodeAt(n) /\ Flow(n) /\ app[n] \in Apps /\ chk[n] \in Checks /\ udp \in SUBSET Datagrams
      /\ Apart(conns) /\ conns \in Seq(Conns) /\ FreeOk(mem[n])
      BY InvIs
<1>2. /\ mem \in [Nodes -> Pools] /\ sock \in [Nodes -> Socks] /\ app \in [Nodes -> Apps] /\ chk \in [Nodes -> Checks]
      BY <1>1 DEF Types
<1>3. /\ app[n].pc = "probe" /\ chk[n].pc = "no" /\ app' = [app EXCEPT ![n] = Idle] /\ chk' = chk /\ udp' = udp
      /\ IF Item(n, d).link = 0 \/ ~Possible(w) THEN CloseDev(n, d)
         ELSE mem' = [mem EXCEPT ![n].heap[d].widths = Refine(w)] /\ UNCHANGED <<sock, conns>>
      BY DEF OpenDone, Probing
<1>4. d \in Range(sock[n].devs) /\ sock[n].self # 0 /\ chk[n].at = 0
      BY <1>1, <1>3 DEF Flow
<1>5. app'[n] = Idle /\ app' = [app EXCEPT ![n] = app'[n]] /\ chk' = [chk EXCEPT ![n] = chk'[n]] /\ chk'[n] = chk[n]
      BY <1>2, <1>3
<1>6. app'[n] \in Apps /\ chk'[n] \in Checks /\ udp' \in SUBSET Datagrams /\ app'[n].pc = "idle"
      BY <1>1, <1>3, <1>5, IdleIs
<1>. HIDE DEF d
<1>7. CASE CloseDev(n, d)
  <2>1. /\ mem' = [mem EXCEPT ![n] = mem'[n]] /\ sock' = [sock EXCEPT ![n] = sock'[n]]
        /\ sock'[n].self = sock[n].self /\ sock'[n].aux = sock[n].aux
        /\ Only(conns, conns', n) /\ Node(mem'[n], sock'[n], chk[n].link, EndsIn(conns', n))
        BY <1>4, <1>7, CloseDevIs
  <2>2. NodeAt(n)'
        BY <1>3, <2>1 DEF NodeAt
  <2>3. Flow(n)'
        BY <1>1, <1>3, <1>4, <1>6, <2>1 DEF Flow
  <2>. QED BY <1>5, <1>6, <2>1, <2>2, <2>3, OneNode
<1>8. CASE mem' = [mem EXCEPT ![n].heap[d].widths = Refine(w)] /\ UNCHANGED <<sock, conns>>
  <2>1. Item(n, d) \in Devs
        BY <1>4, DeviceIs
  <2>2. Item(n, d).widths \in WidthSet /\ app[n].want \in WidthSet
        BY <1>1, <2>1 DEF Devs, Apps
  <2>3. Refine(w) \in WidthSet
        BY <2>2, WidthsAre
  <2>. DEFINE m2 == [mem[n] EXCEPT !.heap[d].widths = Refine(w)]
  <2>. HIDE DEF w
  <2>4. mem'[n] = m2 /\ mem' = [mem EXCEPT ![n] = mem'[n]] /\ sock'[n] = sock[n] /\ sock' = [sock EXCEPT ![n] = sock'[n]]
        BY <1>2, <1>8
  <2>5. Node(mem[n], sock[n], chk[n].link, EndsIn(conns, n))
        BY <1>1 DEF NodeAt
  <2>6. Node(m2, sock[n], chk[n].link, EndsIn(conns, n))
        BY <1>4, <2>3, <2>5, RetagKeeps, Zenon
  <2>7. NodeAt(n)'
        BY <1>3, <1>8, <2>4, <2>6 DEF NodeAt
  <2>8. Flow(n)'
        BY <1>1, <1>3, <1>4, <1>6, <2>4 DEF Flow
  <2>9. Only(conns, conns', n)
        BY <1>1, <1>8, OnlyNothing
  <2>. QED BY <1>5, <1>6, <2>4, <2>7, <2>8, <2>9, OneNode
<1>. QED BY <1>3, <1>7, <1>8

LEMMA OpenExpireInv ==
  ASSUME OpenInv, NEW n \in Nodes, OpenExpire(n)
  PROVE  OpenInv'
<1>. DEFINE d == app[n].dev
<1>1. /\ Types /\ NodeAt(n) /\ Flow(n) /\ app[n] \in Apps /\ chk[n] \in Checks /\ udp \in SUBSET Datagrams
      /\ Apart(conns) /\ conns \in Seq(Conns)
      BY InvIs
<1>2. /\ mem \in [Nodes -> Pools] /\ sock \in [Nodes -> Socks] /\ app \in [Nodes -> Apps] /\ chk \in [Nodes -> Checks]
      BY <1>1 DEF Types
<1>3. /\ app[n].pc = "probe" /\ chk[n].pc = "no" /\ chk' = chk
      /\ IF NextTry(app[n].tries) = 0 THEN CloseDev(n, d) /\ app' = [app EXCEPT ![n] = Idle] /\ udp' = udp
         ELSE /\ app' = [app EXCEPT ![n].tries = NextTry(@)]
              /\ udp' = udp \cup {Datagram(n, Item(n, d).to, Probe(app[n].want, d))}
              /\ UNCHANGED <<mem, sock, conns>>
      BY DEF OpenExpire, Probing
<1>4. d \in Range(sock[n].devs) /\ sock[n].self # 0 /\ chk[n].at = 0 /\ app[n].tries > 0 /\ app[n].tries \in Nat
      BY <1>1, <1>3 DEF Flow, Apps
<1>5. chk' = [chk EXCEPT ![n] = chk'[n]] /\ chk'[n] = chk[n]
      BY <1>2, <1>3
<1>6. CASE CloseDev(n, d) /\ app' = [app EXCEPT ![n] = Idle] /\ udp' = udp
  <2>1. /\ mem' = [mem EXCEPT ![n] = mem'[n]] /\ sock' = [sock EXCEPT ![n] = sock'[n]]
        /\ sock'[n].self = sock[n].self /\ sock'[n].aux = sock[n].aux
        /\ Only(conns, conns', n) /\ Node(mem'[n], sock'[n], chk[n].link, EndsIn(conns', n))
        BY <1>4, <1>6, CloseDevIs
  <2>2. NodeAt(n)'
        BY <1>3, <2>1 DEF NodeAt
  <2>3. app'[n] = Idle /\ app' = [app EXCEPT ![n] = app'[n]]
        BY <1>2, <1>6
  <2>4. app'[n] \in Apps /\ app'[n].pc = "idle" /\ udp' \in SUBSET Datagrams /\ chk'[n] \in Checks
        BY <1>1, <1>5, <1>6, <2>3, IdleIs
  <2>5. Flow(n)'
        BY <1>1, <1>3, <1>4, <2>1, <2>4 DEF Flow
  <2>. QED BY <1>5, <2>1, <2>2, <2>3, <2>4, <2>5, OneNode
<1>7. CASE /\ NextTry(app[n].tries) # 0 /\ app' = [app EXCEPT ![n].tries = NextTry(@)]
           /\ udp' = udp \cup {Datagram(n, Item(n, d).to, Probe(app[n].want, d))}
           /\ UNCHANGED <<mem, sock, conns>>
  <2>1. Item(n, d) \in Devs /\ d \in Nat
        BY <1>4, DeviceIs
  <2>2. Datagram(n, Item(n, d).to, Probe(app[n].want, d)) \in Datagrams
    <3>1. Item(n, d).to \in Nodes /\ app[n].want \in WidthSet
          BY <1>1, <2>1 DEF Devs, Apps
    <3>. HIDE DEF d
    <3>2. Probe(app[n].want, d) \in Msgs
          BY <2>1, <3>1 DEF Probe, Msgs
    <3>. QED BY <3>1, <3>2 DEF Datagram, Datagrams
  <2>3. app'[n] = [app[n] EXCEPT !.tries = NextTry(app[n].tries)] /\ app' = [app EXCEPT ![n] = app'[n]]
        BY <1>2, <1>7
  <2>4. NextTry(app[n].tries) \in Nat /\ NextTry(app[n].tries) > 0
        BY <1>4, <1>7 DEF NextTry
  <2>5. app'[n] \in Apps /\ app'[n].pc = app[n].pc /\ app'[n].dev = app[n].dev /\ app'[n].tries > 0
        BY <1>1, <2>3, <2>4 DEF Apps
  <2>6. udp' \in SUBSET Datagrams /\ chk'[n] \in Checks
        BY <1>1, <1>5, <1>7, <2>2
  <2>7. NodeAt(n)' /\ Flow(n)'
        BY <1>1, <1>3, <1>7, <2>5 DEF NodeAt, Flow, Item
  <2>8. Only(conns, conns', n)
        BY <1>1, <1>7, OnlyNothing
  <2>9. mem' = [mem EXCEPT ![n] = mem'[n]] /\ sock' = [sock EXCEPT ![n] = sock'[n]]
        BY <1>2, <1>7
  <2>. QED BY <1>5, <2>3, <2>5, <2>6, <2>7, <2>8, <2>9, OneNode
<1>. QED BY <1>3, <1>6, <1>7

LEMMA CheckStartInv ==
  ASSUME OpenInv, NEW n \in Nodes, CheckStart(n)
  PROVE  OpenInv'
<1>. DEFINE g == IF Full(mem[n]) THEN 0 ELSE Fresh(mem[n])
            new == [NoCheck EXCEPT !.pc = "transports", !.todo = Polled(n), !.link = g]
<1>1. /\ Types /\ NodeAt(n) /\ Flow(n) /\ app[n] \in Apps /\ chk[n] \in Checks /\ udp \in SUBSET Datagrams
      /\ Apart(conns) /\ conns \in Seq(Conns) /\ sock[n] \in Socks /\ FreeOk(mem[n])
      BY InvIs
<1>2. /\ mem \in [Nodes -> Pools] /\ sock \in [Nodes -> Socks] /\ app \in [Nodes -> Apps] /\ chk \in [Nodes -> Checks]
      BY <1>1 DEF Types
<1>3. /\ sock[n].self # 0 /\ chk[n].pc \in {"start", "no"} /\ chk' = [chk EXCEPT ![n] = new]
      /\ mem' = IF Full(mem[n]) THEN mem ELSE [mem EXCEPT ![n] = New(mem[n], Link(0))]
      /\ sock' = sock /\ app' = app /\ udp' = udp /\ conns' = conns
      BY DEF CheckStart
<1>4. chk[n].link = 0
      BY <1>1, <1>3 DEF Flow
<1>5. Node(mem[n], sock[n], 0, EndsIn(conns, n))
      BY <1>1, <1>4 DEF NodeAt
<1>6. g \in Nat /\ Node(mem'[n], sock[n], g, EndsIn(conns, n)) /\ mem' = [mem EXCEPT ![n] = mem'[n]]
      /\ \A i \in DOMAIN mem[n].heap : mem[n].heap[i].is # "free" => mem'[n].heap[i] = mem[n].heap[i]
  <2>1. CASE Full(mem[n])
        BY <1>2, <1>3, <1>5, <2>1
  <2>2. CASE ~Full(mem[n])
    <3>1. mem'[n] = New(mem[n], Link(0)) /\ mem' = [mem EXCEPT ![n] = mem'[n]]
          BY <1>2, <1>3, <2>2
    <3>2. /\ Node(New(mem[n], Link(0)), sock[n], Fresh(mem[n]), EndsIn(conns, n))
          /\ \A i \in DOMAIN mem[n].heap : mem[n].heap[i].is # "free" => New(mem[n], Link(0)).heap[i] = mem[n].heap[i]
          BY <1>5, <2>2, CheckStartKeeps
    <3>3. Fresh(mem[n]) \in Nat
          BY <3>2 DEF Node
    <3>. QED BY <2>2, <3>1, <3>2, <3>3
  <2>. QED BY <2>1, <2>2
<1>7. Polled(n) \in Seq(Nat)
  <2>. DEFINE q == sock[n].trans
              K == {k \in DOMAIN q : Item(n, q[k]).kind \in {"udp", "tcp"}}
  <2>1. q \in Seq(Nat)
        BY <1>1 DEF Socks
  <2>. HIDE DEF q
  <2>2. K \in SUBSET DOMAIN q
        OBVIOUS
  <2>. HIDE DEF K
  <2>3. Select(q, K) \in Seq(Nat)
        BY <2>1, <2>2, SelectIs
  <2>. QED BY <2>3 DEF Polled, q, K
<1>. HIDE DEF g
<1>8. new \in Checks /\ new.pc = "transports" /\ new.link = g /\ new.at = 0 /\ new.next = 0
  <2>1. NoCheck \in Checks /\ NoCheck.at = 0 /\ NoCheck.next = 0
        BY IdleIs
  <2>. HIDE DEF NoCheck
  <2>. QED BY <1>6, <1>7, <2>1, Zenon DEF Checks
<1>. HIDE DEF new
<1>9. chk'[n] = new /\ chk' = [chk EXCEPT ![n] = chk'[n]] /\ sock' = [sock EXCEPT ![n] = sock'[n]]
      /\ app' = [app EXCEPT ![n] = app'[n]]
      BY <1>2, <1>3
<1>10. NodeAt(n)'
      BY <1>3, <1>6, <1>8, <1>9 DEF NodeAt
<1>11. Flow(n)'
  <2>1. app[n].pc = "probe" => app[n].dev \in Range(sock[n].devs)
        BY <1>1 DEF Flow
  <2>2. app[n].pc = "probe" => mem'[n].heap[app[n].dev] = mem[n].heap[app[n].dev]
    <3> SUFFICES ASSUME app[n].pc = "probe" PROVE mem'[n].heap[app[n].dev] = mem[n].heap[app[n].dev]
        OBVIOUS
    <3>1. Item(n, app[n].dev) = mem[n].heap[app[n].dev] /\ Item(n, app[n].dev) \in Devs /\ app[n].dev \in DOMAIN mem[n].heap
          BY <2>1, DeviceIs
    <3>2. mem[n].heap[app[n].dev].is # "free"
          BY <3>1 DEF Devs
    <3>. QED BY <1>6, <3>1, <3>2
  <2>. QED BY <1>1, <1>3, <1>8, <1>9, <2>2 DEF Flow, Item
<1>12. app'[n] \in Apps /\ chk'[n] \in Checks /\ udp' \in SUBSET Datagrams /\ Only(conns, conns', n)
      BY <1>1, <1>3, <1>8, <1>9, OnlyNothing
<1>. QED BY <1>6, <1>9, <1>10, <1>11, <1>12, OneNode

LEMMA CheckEndInv ==
  ASSUME OpenInv, NEW n \in Nodes, CheckEnd(n)
  PROVE  OpenInv'
<1>1. /\ Types /\ NodeAt(n) /\ Flow(n) /\ app[n] \in Apps /\ chk[n] \in Checks /\ udp \in SUBSET Datagrams
      /\ Apart(conns) /\ conns \in Seq(Conns)
      BY InvIs
<1>2. /\ mem \in [Nodes -> Pools] /\ sock \in [Nodes -> Socks] /\ app \in [Nodes -> Apps] /\ chk \in [Nodes -> Checks]
      BY <1>1 DEF Types
<1>3. /\ chk[n].pc = "devices" /\ chk' = [chk EXCEPT ![n] = NoCheck]
      /\ mem' = IF chk[n].link = 0 THEN mem ELSE [mem EXCEPT ![n] = Free(mem[n], chk[n].link)]
      /\ sock' = sock /\ app' = app /\ udp' = udp /\ conns' = conns
      BY DEF CheckEnd
<1>. DEFINE l == chk[n].link
<1>4. Node(mem[n], sock[n], l, EndsIn(conns, n))
      BY <1>1 DEF NodeAt
<1>5. Node(mem'[n], sock[n], 0, EndsIn(conns, n)) /\ mem' = [mem EXCEPT ![n] = mem'[n]]
      /\ \A i \in DOMAIN mem[n].heap : i # l => mem'[n].heap[i] = mem[n].heap[i]
  <2>1. CASE l = 0
        BY <1>2, <1>3, <1>4, <2>1
  <2>2. CASE l # 0
    <3>1. mem'[n] = Free(mem[n], l) /\ mem' = [mem EXCEPT ![n] = mem'[n]]
          BY <1>2, <1>3, <2>2
    <3>. HIDE DEF l
    <3>2. /\ Node(Free(mem[n], l), sock[n], 0, EndsIn(conns, n))
          /\ \A i \in DOMAIN mem[n].heap : i # l => Free(mem[n], l).heap[i] = mem[n].heap[i]
          BY <1>4, <2>2, CheckEndKeeps, Zenon
    <3>. QED BY <3>1, <3>2
  <2>. QED BY <2>1, <2>2
<1>6. chk'[n] = NoCheck /\ chk' = [chk EXCEPT ![n] = chk'[n]] /\ sock' = [sock EXCEPT ![n] = sock'[n]]
      /\ app' = [app EXCEPT ![n] = app'[n]]
      BY <1>2, <1>3
<1>7. NodeAt(n)'
      BY <1>3, <1>5, <1>6, IdleIs DEF NodeAt
<1>8. sock[n].self # 0
      BY <1>1, <1>3 DEF Flow
<1>9. Flow(n)'
  <2>1. app[n].pc = "probe" => app[n].dev \in Range(sock[n].devs)
        BY <1>1 DEF Flow
  <2>2. app[n].pc = "probe" => mem'[n].heap[app[n].dev] = mem[n].heap[app[n].dev]
    <3> SUFFICES ASSUME app[n].pc = "probe" PROVE mem'[n].heap[app[n].dev] = mem[n].heap[app[n].dev]
        OBVIOUS
    <3>1. Item(n, app[n].dev) = mem[n].heap[app[n].dev] /\ Item(n, app[n].dev) \in Devs /\ app[n].dev \in DOMAIN mem[n].heap
          BY <2>1, DeviceIs
    <3>2. app[n].dev # l
      <4>1. l # 0 => mem[n].heap[l].is = "link"
        <5>. HIDE DEF l
        <5>. QED BY <1>4, NodeIs
      <4>2. mem[n].heap[app[n].dev].is = "device" /\ 0 \notin DOMAIN mem[n].heap
            BY <1>4, <3>1, NodeIs DEF Devs
      <4>. QED BY <3>1, <4>1, <4>2
    <3>. QED BY <1>5, <3>1, <3>2
  <2>. QED BY <1>1, <1>3, <1>6, <1>8, <2>2, IdleIs DEF Flow, Item
<1>10. app'[n] \in Apps /\ chk'[n] \in Checks /\ udp' \in SUBSET Datagrams /\ Only(conns, conns', n)
      BY <1>1, <1>3, <1>6, IdleIs, OnlyNothing
<1>. QED BY <1>5, <1>6, <1>7, <1>9, <1>10, OneNode

\* The next device of eb_socket_check, as Visit finds it.
LEMMA VisitIs ==
  ASSUME OpenInv, NEW n \in Nodes, NEW d \in Range(sock[n].devs) \cup {0}
  PROVE  /\ Visit(n, d) \in Checks /\ Visit(n, d).pc = "devices" /\ Visit(n, d).link = chk[n].link
         /\ Visit(n, d).at = d
         /\ d = 0 => Visit(n, d).next = 0
         /\ d # 0 => IsNext(sock[n].devs, d, Visit(n, d).next)
<1>. DEFINE s == sock[n].devs
            e == <<>>
            v == Visit(n, d)
            nx == NextDev(n, d)
<1>1. chk[n] \in Checks /\ s \in Seq(Nat) /\ IsInjective(s) /\ 0 \notin Range(s)
      BY InvIs
<1>2. /\ \A j \in DOMAIN s : NextDev(n, s[j]) = IF j < Len(s) THEN s[j + 1] ELSE 0
      /\ \A x : x \notin Range(s) => NextDev(n, x) = 0
      BY <1>1, NextIs
<1>3. e \in Seq(Nat)
      OBVIOUS
<1>4. v = [chk[n] EXCEPT !.pc = "devices", !.todo = e, !.at = d, !.next = nx]
      BY DEF Visit
<1>. HIDE DEF e, v, nx
<1>5. v.pc = "devices" /\ v.link = chk[n].link /\ v.at = d /\ v.next = nx
      BY <1>1, <1>4 DEF Checks
<1>. HIDE DEF s
<1>6. Len(s) \in Nat /\ DOMAIN s = 1 .. Len(s) /\ \A i \in 1 .. Len(s) : s[i] \in Nat
      BY <1>1, LenProperties
<1>7. CASE d = 0
  <2>1. nx = 0
        BY <1>1, <1>2, <1>7 DEF nx
  <2>2. v \in Checks
        BY <1>1, <1>3, <1>4, <1>7, <2>1, Zenon DEF Checks
  <2>. QED BY <1>5, <1>7, <2>1, <2>2 DEF v
<1>8. CASE d # 0
  <2>1. d \in Range(s)
        BY <1>8 DEF s
  <2>2. PICK j \in DOMAIN s : s[j] = d
        BY <2>1 DEF Range
  <2>3. nx = IF j < Len(s) THEN s[j + 1] ELSE 0
        BY <1>2, <2>2 DEF nx
  <2>4. IsNext(s, d, nx)
        BY <2>2, <2>3 DEF IsNext
  <2>5. d \in Nat /\ nx \in Nat
        BY <1>6, <2>2, <2>3
  <2>6. v \in Checks
        BY <1>1, <1>3, <1>4, <2>5, Zenon DEF Checks
  <2>. QED BY <1>5, <1>8, <2>4, <2>6 DEF v, s
<1>. QED BY <1>7, <1>8

\* The device at hand goes: the next one is still there, with the one after it.
LEMMA NextStays ==
  ASSUME NEW s \in Seq(Nat), IsInjective(s), 0 \notin Range(s), NEW at, NEW next, IsNext(s, at, next)
  PROVE  /\ at \in Range(s) /\ next \in Range(s) \cup {0} /\ next # at
         /\ \A nn : next # 0 /\ IsNext(s, next, nn) => IsNext(Without(s, at), next, nn)
<1>1. Len(s) \in Nat /\ DOMAIN s = 1 .. Len(s) /\ \A i \in 1 .. Len(s) : s[i] \in Range(s)
      BY LenProperties DEF Range
<1>2. PICK j \in DOMAIN s : s[j] = at /\ next = IF j < Len(s) THEN s[j + 1] ELSE 0
      BY DEF IsNext
<1>3. at \in Range(s) /\ next \in Range(s) \cup {0} /\ next # at
  <2>1. CASE j < Len(s)
    <3>1. j + 1 \in DOMAIN s /\ j + 1 # j
          BY <1>1, <2>1
    <3>2. s[j + 1] # s[j]
          BY <3>1 DEF IsInjective
    <3>. QED BY <1>1, <1>2, <2>1, <3>1, <3>2
  <2>2. CASE ~(j < Len(s))
    <3>1. at \in Range(s)
          BY <1>1, <1>2
    <3>. QED BY <1>2, <2>2, <3>1
  <2>. QED BY <2>1, <2>2
<1>4. ASSUME NEW nn, next # 0, IsNext(s, next, nn) PROVE IsNext(Without(s, at), next, nn)
  <2>1. j < Len(s) /\ next = s[j + 1] /\ j + 1 \in DOMAIN s
        BY <1>1, <1>2, <1>4
  <2>2. PICK i \in DOMAIN s : s[i] = next /\ nn = IF i < Len(s) THEN s[i + 1] ELSE 0
        BY <1>4, Zenon DEF IsNext
  <2>3. i = j + 1
        BY <2>1, <2>2 DEF IsInjective
  <2>. DEFINE r == RemoveAt(s, j)
  <2>4. Without(s, at) = r
        BY <1>2, WithoutIs
  <2>5. /\ Len(r) = Len(s) - 1 /\ DOMAIN r = 1 .. Len(s) - 1
        /\ \A k \in 1 .. Len(s) - 1 : r[k] = IF k < j THEN s[k] ELSE s[k + 1]
        BY RemoveAtIs
  <2>. HIDE DEF r
  <2>6. j \in DOMAIN r /\ r[j] = s[j + 1]
        BY <1>1, <2>1, <2>5
  <2>7. nn = IF j < Len(r) THEN r[j + 1] ELSE 0
    <3>1. CASE j < Len(r)
      <4>1. j + 1 \in 1 .. Len(s) - 1 /\ ~(j + 1 < j) /\ i < Len(s)
            BY <1>1, <2>3, <2>5, <3>1
      <4>. QED BY <2>2, <2>3, <2>5, <3>1, <4>1, Zenon
    <3>2. CASE ~(j < Len(r))
      <4>1. ~(i < Len(s))
            BY <1>1, <2>3, <2>5, <3>2
      <4>. QED BY <2>2, <3>2, <4>1
    <3>. QED BY <3>1, <3>2
  <2>8. IsNext(r, next, nn)
        BY <2>1, <2>6, <2>7, Zenon DEF IsNext
  <2>. QED BY <2>4, <2>8
<1>. QED BY <1>3, <1>4

\* eb_socket_check goes on, and its node keeps its items.
LEMMA GoOnInv ==
  ASSUME OpenInv, NEW n \in Nodes, UNCHANGED <<mem, sock, app>>, udp' \in SUBSET Datagrams,
         Only(conns, conns', n), EndsIn(conns', n) = EndsIn(conns, n),
         NEW c \in Checks, chk' = [chk EXCEPT ![n] = c], c.link = chk[n].link,
         chk[n].pc \in {"transports", "devices"}, c.pc \in {"transports", "devices"}, c.at = 0 => c.next = 0,
         c.at # 0 => c.pc = "devices" /\ IsNext(sock[n].devs, c.at, c.next)
  PROVE  OpenInv'
<1>1. Types /\ NodeAt(n) /\ Flow(n) /\ app[n] \in Apps
      BY InvIs
<1>2. mem \in [Nodes -> Pools] /\ sock \in [Nodes -> Socks] /\ app \in [Nodes -> Apps] /\ chk \in [Nodes -> Checks]
      BY <1>1 DEF Types
<1>3. chk'[n] = c /\ chk' = [chk EXCEPT ![n] = chk'[n]]
      BY <1>2
<1>4. /\ mem' = [mem EXCEPT ![n] = mem'[n]] /\ sock' = [sock EXCEPT ![n] = sock'[n]]
      /\ app' = [app EXCEPT ![n] = app'[n]] /\ app'[n] \in Apps /\ chk'[n] \in Checks
      BY <1>1, <1>2, <1>3
<1>5. NodeAt(n)'
      BY <1>1, <1>3 DEF NodeAt
<1>6. Flow(n)'
      BY <1>1, <1>3 DEF Flow, Item
<1>. QED BY <1>3, <1>4, <1>5, <1>6, OneNode, Zenon

LEMMA CheckNextInv ==
  ASSUME OpenInv, NEW n \in Nodes, CheckNext(n)
  PROVE  OpenInv'
<1>1. /\ Types /\ Flow(n) /\ Apart(conns) /\ conns \in Seq(Conns) /\ udp \in SUBSET Datagrams
      /\ chk[n] \in Checks /\ sock[n].devs \in Seq(Nat)
      BY InvIs
<1>2. /\ chk[n].pc = "transports" /\ UNCHANGED <<mem, sock, app>> /\ udp' = udp /\ conns' = conns
      /\ chk' = IF chk[n].todo = <<>> THEN [chk EXCEPT ![n] = Visit(n, First(sock[n].devs))] ELSE NextTransport(n)
      BY DEF CheckNext
<1>3. Only(conns, conns', n) /\ EndsIn(conns', n) = EndsIn(conns, n) /\ udp' \in SUBSET Datagrams
      BY <1>1, <1>2, OnlyNothing
<1>4. CASE chk[n].todo = <<>>
  <2>1. First(sock[n].devs) \in Range(sock[n].devs) \cup {0}
    <3>1. CASE sock[n].devs = <<>>
          BY <3>1 DEF First
    <3>2. CASE sock[n].devs # <<>>
          BY <1>1, <3>2, HeadTailIs DEF First
    <3>. QED BY <3>1, <3>2
  <2>. DEFINE d == First(sock[n].devs)
              c == Visit(n, d)
  <2>. HIDE DEF d
  <2>2. d \in Range(sock[n].devs) \cup {0}
        BY <2>1 DEF d
  <2>3. /\ c \in Checks /\ c.pc = "devices" /\ c.link = chk[n].link /\ c.at = d
        /\ d = 0 => c.next = 0
        /\ d # 0 => IsNext(sock[n].devs, d, c.next)
        BY <2>2, VisitIs
  <2>4. chk' = [chk EXCEPT ![n] = c]
        BY <1>2, <1>4 DEF d
  <2>. HIDE DEF c
  <2>. QED BY <1>2, <1>3, <2>3, <2>4, GoOnInv, Zenon
<1>5. CASE chk[n].todo # <<>>
  <2>. DEFINE c == [chk[n] EXCEPT !.todo = Tail(@)]
  <2>1. chk[n].todo \in Seq(Nat)
        BY <1>1 DEF Checks
  <2>2. Tail(chk[n].todo) \in Seq(Nat)
        BY <1>5, <2>1, HeadTailIs
  <2>3. c \in Checks /\ c.pc = chk[n].pc /\ c.link = chk[n].link /\ c.at = chk[n].at /\ c.next = chk[n].next
        BY <1>1, <2>2, Zenon DEF Checks
  <2>4. chk[n].at = 0 /\ chk[n].next = 0
        BY <1>1, <1>2 DEF Flow
  <2>5. chk' = [chk EXCEPT ![n] = c]
        BY <1>1, <1>2, <1>5 DEF NextTransport, Types
  <2>. HIDE DEF c
  <2>. QED BY <1>2, <1>3, <2>3, <2>4, <2>5, GoOnInv, Zenon
<1>. QED BY <1>4, <1>5

LEMMA DeviceNextInv ==
  ASSUME OpenInv, NEW n \in Nodes, NEW sends \in BOOLEAN, DeviceNext(n, sends)
  PROVE  OpenInv'
<1>. DEFINE d == Here(n)
            k == Conn(n)
            msg == [t |-> "data", w |-> Item(n, d).widths, tag |-> 0]
            c == Visit(n, chk[n].next)
<1>1. /\ Types /\ Flow(n) /\ Apart(conns) /\ conns \in Seq(Conns) /\ udp \in SUBSET Datagrams
      /\ chk[n] \in Checks /\ sock[n].devs \in Seq(Nat) /\ IsInjective(sock[n].devs) /\ 0 \notin Range(sock[n].devs)
      BY InvIs
<1>2. /\ chk[n].pc = "devices" /\ d # 0 /\ UNCHANGED <<mem, sock, app>> /\ udp' = udp /\ chk' = MoveOn(n)
      /\ sends => k # 0
      /\ conns' = IF sends THEN Put(conns, n, k, msg) ELSE conns
      BY DEF DeviceNext, Visiting
<1>3. d = chk[n].at /\ k = ConnOf(n, d)
      BY DEF Here, Conn
<1>4. IsNext(sock[n].devs, d, chk[n].next)
      BY <1>1, <1>2, <1>3 DEF Flow
<1>5. d \in Range(sock[n].devs) /\ chk[n].next \in Range(sock[n].devs) \cup {0}
      BY <1>1, <1>4, NextStays
<1>6. Item(n, d) \in Devs /\ k \in DOMAIN conns \cup {0}
      BY <1>3, <1>5, DeviceIs
<1>7. msg \in Msgs
      BY <1>6 DEF Msgs, Devs
<1>. HIDE DEF k, msg
<1>8. Only(conns, conns', n) /\ EndsIn(conns', n) = EndsIn(conns, n) /\ udp' \in SUBSET Datagrams
  <2>1. CASE sends
        BY <1>1, <1>2, <1>6, <1>7, <2>1, PutKeeps
  <2>2. CASE ~sends
        BY <1>1, <1>2, <2>2, OnlyNothing
  <2>. QED BY <2>1, <2>2
<1>9. /\ c \in Checks /\ c.pc = "devices" /\ c.link = chk[n].link /\ c.at = chk[n].next
      /\ chk[n].next = 0 => c.next = 0
      /\ chk[n].next # 0 => IsNext(sock[n].devs, chk[n].next, c.next)
      BY <1>5, VisitIs
<1>10. chk' = [chk EXCEPT ![n] = c]
      BY <1>2 DEF MoveOn
<1>. HIDE DEF c
<1>. QED BY <1>2, <1>8, <1>9, <1>10, GoOnInv, Zenon

LEMMA LoseInv ==
  ASSUME OpenInv, NEW p \in udp, Lose(p)
  PROVE  OpenInv'
<1>1. Types /\ PoolInv /\ FlowInv /\ ConnInv
      BY DEF OpenInv
<1>2. udp' \in SUBSET Datagrams /\ UNCHANGED <<mem, sock, app, chk, conns>>
      BY <1>1 DEF Lose, Types
<1>3. Types' /\ ConnInv'
      BY <1>1, <1>2 DEF Types, ConnInv
<1>4. PoolInv'
      BY <1>1, <1>2 DEF PoolInv, NodeAt
<1>5. FlowInv'
      BY <1>1, <1>2 DEF FlowInv, Flow, Item
<1>. QED BY <1>3, <1>4, <1>5 DEF OpenInv

LEMMA TopLevelInv ==
  ASSUME OpenInv, NEW n \in Nodes, NEW p \in udp, NEW again \in BOOLEAN, TopLevel(n, p, again)
  PROVE  OpenInv'
<1>. DEFINE rest == IF again THEN udp ELSE udp \ {p}
            c == [chk[n] EXCEPT !.todo = Tail(@)]
            answer == Datagram(n, p.from, Resp(Widths[n], p.msg.tag))
            tag == p.msg.tag
            w == p.msg.w
<1>1. /\ Types /\ NodeAt(n) /\ Flow(n) /\ Apart(conns) /\ conns \in Seq(Conns) /\ udp \in SUBSET Datagrams
      /\ chk[n] \in Checks /\ app[n] \in Apps /\ Widths[n] \in WidthSet /\ FreeOk(mem[n])
      BY InvIs
<1>2. mem \in [Nodes -> Pools] /\ sock \in [Nodes -> Socks] /\ app \in [Nodes -> Apps] /\ chk \in [Nodes -> Checks]
      BY <1>1 DEF Types
<1>3. /\ chk[n].pc = "transports" /\ chk[n].todo # <<>> /\ UNCHANGED <<sock, app>> /\ conns' = conns
      BY DEF TopLevel, At
<1>4. p.from \in Nodes /\ tag \in Nat /\ w \in WidthSet
      BY <1>1 DEF Datagrams, Msgs
<1>5. rest \in SUBSET Datagrams /\ answer \in Datagrams
      BY <1>1, <1>4 DEF Datagram, Datagrams, Resp, Msgs
<1>6. Only(conns, conns', n) /\ EndsIn(conns', n) = EndsIn(conns, n)
      BY <1>1, <1>3, OnlyNothing
<1>7. c \in Checks /\ c.pc = chk[n].pc /\ c.link = chk[n].link /\ c.at = chk[n].at /\ c.next = chk[n].next
  <2>1. chk[n].todo \in Seq(Nat)
        BY <1>1 DEF Checks
  <2>2. Tail(chk[n].todo) \in Seq(Nat)
        BY <1>3, <2>1, HeadTailIs
  <2>. QED BY <1>1, <2>2, Zenon DEF Checks
<1>8. chk[n].at = 0 /\ chk[n].next = 0
      BY <1>1, <1>3 DEF Flow
<1>9. NextTransport(n) = [chk EXCEPT ![n] = c]
      BY <1>2 DEF NextTransport
<1>. HIDE DEF rest, c, answer, tag, w
<1>10. CASE mem' = mem /\ udp' = rest \cup {answer} /\ chk' \in {chk, NextTransport(n)}
  <2>1. udp' \in SUBSET Datagrams /\ mem' = mem
        BY <1>5, <1>10
  <2>2. CASE chk' = chk
    <3>1. chk' = [chk EXCEPT ![n] = chk[n]]
          BY <1>2, <2>2
    <3>. QED BY <1>1, <1>3, <1>6, <1>8, <2>1, <3>1, GoOnInv, Zenon
  <2>3. CASE chk' = NextTransport(n)
    <3>1. chk' = [chk EXCEPT ![n] = c]
          BY <1>9, <2>3
    <3>. QED BY <1>3, <1>6, <1>7, <1>8, <2>1, <3>1, GoOnInv, Zenon
  <2>. QED BY <1>10, <2>2, <2>3
<1>11. CASE /\ udp' = rest /\ chk' = NextTransport(n)
            /\ mem' = [mem EXCEPT ![n].heap =
                  [i \in DOMAIN @ |-> IF i \in Tagged(n, tag) THEN [@[i] EXCEPT !.widths = w] ELSE @[i]]]
  <2>. DEFINE m == mem[n]
              s == sock[n]
              l == chk[n].link
              E == EndsIn(conns, n)
              T == Tagged(n, tag)
              h == [i \in DOMAIN m.heap |-> IF i \in T THEN [m.heap[i] EXCEPT !.widths = w] ELSE m.heap[i]]
              m2 == [m EXCEPT !.heap = h]
  <2>1. mem'[n] = m2 /\ mem' = [mem EXCEPT ![n] = m2]
        BY <1>2, <1>11
  <2>2. Node(m, s, l, E)
        BY <1>1 DEF NodeAt
  <2>3. T \subseteq Range(s.devs)
        BY DEF Tagged
  <2>4. m = [free |-> m.free, heap |-> m.heap]
        BY <1>1 DEF FreeOk, Pools
  <2>. HIDE DEF m, s, l, E, T
  <2>5. m2.heap = h /\ m2.free = m.free /\ m2 = [free |-> m.free, heap |-> m2.heap]
    <3>. HIDE DEF h
    <3>. QED BY <2>4
  <2>6. /\ \A i \in DOMAIN m.heap : m.heap[i] \in Items
        /\ \A i \in Range(s.devs) : i \in DOMAIN m.heap /\ m.heap[i] \in Devs /\ m.heap[i].is = "device"
    <3>1. FreeOk(m)
          BY <1>1 DEF m
    <3>. QED BY <2>2, <3>1, NodeIs, PoolIs
  <2>7. ASSUME NEW i \in Range(s.devs)
        PROVE  LET x == [m.heap[i] EXCEPT !.widths = w]
               IN x \in Devs /\ x.is = "device" /\ x.link = m.heap[i].link /\ x.passive = m.heap[i].passive
        BY <1>4, <2>6 DEF Devs
  <2>8. \A i \in DOMAIN m.heap : h[i] = IF i \in T THEN [m.heap[i] EXCEPT !.widths = w] ELSE m.heap[i]
        OBVIOUS
  <2>9. h = [i \in DOMAIN m.heap |-> h[i]]
        OBVIOUS
  <2>. HIDE DEF h, m2
  <2>10. ASSUME NEW i \in DOMAIN m.heap
         PROVE  /\ m2.heap[i] \in Items
                /\ \/ m2.heap[i] = m.heap[i]
                   \/ i \in Range(s.devs) /\ m2.heap[i].is = "device" /\ m2.heap[i].link = m.heap[i].link
    <3>1. CASE i \in T
      <4>1. i \in Range(s.devs) /\ m2.heap[i] = [m.heap[i] EXCEPT !.widths = w]
            BY <2>3, <2>5, <2>8, <3>1
      <4>2. m2.heap[i] \in Devs /\ m2.heap[i].is = "device" /\ m2.heap[i].link = m.heap[i].link
            BY <2>7, <4>1
      <4>. QED BY <4>1, <4>2 DEF Items
    <3>2. CASE i \notin T
          BY <2>5, <2>6, <2>8, <3>2, Zenon
    <3>. QED BY <3>1, <3>2
  <2>11. m2.heap = [i \in DOMAIN m.heap |-> m2.heap[i]]
        BY <2>5, <2>9
  <2>12. Node(m2, s, l, E)
        BY <2>2, <2>5, <2>10, <2>11, WidthsKeep
  <2>13. chk'[n] = c /\ chk' = [chk EXCEPT ![n] = chk'[n]] /\ c.link = l
        BY <1>2, <1>7, <1>9, <1>11 DEF l
  <2>14. NodeAt(n)'
        BY <1>3, <1>6, <2>1, <2>12, <2>13 DEF NodeAt, s, E
  <2>15. Flow(n)'
    <3>1. app[n].pc = "probe" => app[n].dev \in Range(s.devs) /\ ~m.heap[app[n].dev].passive
          BY <1>1 DEF Flow, Item, m, s
    <3>2. app[n].pc = "probe" => ~m2.heap[app[n].dev].passive
      <4>1. \A i \in Range(s.devs) : m2.heap[i].passive = m.heap[i].passive
            BY <2>5, <2>6, <2>7, <2>8, Zenon
      <4>. QED BY <3>1, <4>1
    <3>3. app'[n].pc = "probe" => ~Item(n, app[n].dev)'.passive
          BY <1>3, <2>1, <3>2 DEF Item
    <3>. QED BY <1>1, <1>3, <1>7, <1>8, <2>13, <3>3 DEF Flow, Item
  <2>16. /\ mem' = [mem EXCEPT ![n] = mem'[n]] /\ sock' = [sock EXCEPT ![n] = sock'[n]]
         /\ app' = [app EXCEPT ![n] = app'[n]] /\ app'[n] \in Apps /\ chk'[n] \in Checks /\ udp' \in SUBSET Datagrams
        BY <1>1, <1>2, <1>3, <1>5, <1>7, <1>11, <2>1, <2>13
  <2>. QED BY <1>6, <2>13, <2>14, <2>15, <2>16, OneNode
<1>. QED BY <1>10, <1>11 DEF TopLevel, rest, answer, tag, w

LEMMA AcceptInv ==
  ASSUME OpenInv, NEW n \in Nodes, NEW k \in DOMAIN conns, Accept(n, k)
  PROVE  OpenInv'
<1>1. /\ Types /\ NodeAt(n) /\ Flow(n) /\ Apart(conns) /\ conns \in Seq(Conns) /\ udp \in SUBSET Datagrams
      /\ chk[n] \in Checks /\ app[n] \in Apps /\ sock[n] \in Socks
      BY InvIs
<1>2. mem \in [Nodes -> Pools] /\ sock \in [Nodes -> Socks] /\ app \in [Nodes -> Apps] /\ chk \in [Nodes -> Checks]
      BY <1>1 DEF Types
<1>3. /\ chk[n].pc = "transports" /\ chk[n].link # 0 /\ conns[k].to = n /\ ~conns[k].in
      /\ app' = app /\ udp' = udp
      BY DEF Accept, At, Arrived
<1>4. chk[n].at = 0 /\ chk[n].next = 0 /\ sock[n].self # 0
      BY <1>1, <1>3 DEF Flow
<1>5. n \notin conns[k].ends /\ k \in Nat \ {0} /\ conns[k].by \in Nodes
      BY <1>1, <1>3, ConnIs DEF Apart
<1>6. /\ Only(conns, [conns EXCEPT ![k].in = TRUE], n)
      /\ EndsIn([conns EXCEPT ![k].in = TRUE], n) = EndsIn(conns, n)
      /\ Only(conns, [conns EXCEPT ![k].in = TRUE, ![k].ends = @ \cup {n}], n)
      /\ EndsIn([conns EXCEPT ![k].in = TRUE, ![k].ends = @ \cup {n}], n) = EndsIn(conns, n) \cup {k}
      BY <1>1, AcceptedKeeps, Zenon
<1>7. CASE Len(mem[n].free) < 2
  <2>1. conns' = [conns EXCEPT ![k].in = TRUE] /\ UNCHANGED <<mem, sock, app>> /\ chk' = [chk EXCEPT ![n] = chk[n]]
        BY <1>2, <1>3, <1>7 DEF Accept
  <2>. QED BY <1>1, <1>3, <1>4, <1>6, <2>1, GoOnInv, Zenon
<1>8. CASE ~(Len(mem[n].free) < 2)
  <2>. DEFINE m == mem[n]
              s == sock[n]
              l == chk[n].link
              E == EndsIn(conns, n)
              dev == Device([kind |-> "tcp", to |-> conns[k].by], l, TRUE, None)
              m2 == New(New([m EXCEPT !.heap[l] = Link(k)], dev), Link(0))
              s2 == [s EXCEPT !.devs = <<Fresh(m)>> \o @]
              c == [chk[n] EXCEPT !.link = m.free[2]]
  <2>1. /\ mem' = [mem EXCEPT ![n] = m2] /\ chk' = [chk EXCEPT ![n] = c] /\ sock' = [sock EXCEPT ![n] = s2]
        /\ conns' = [conns EXCEPT ![k].in = TRUE, ![k].ends = @ \cup {n}]
        BY <1>2, <1>8 DEF Accept
  <2>2. Node(m, s, l, E) /\ FreeOk(m)
        BY <1>1, InvIs DEF NodeAt
  <2>3. dev \in Devs /\ dev.link = l
        BY <1>1, <1>5, WidthsAre DEF Device, Devs, AllKinds, Checks
  <2>4. k \notin E
        BY <1>5 DEF EndsIn
  <2>5. l # 0 /\ Len(m.free) >= 2
    <3>1. Len(m.free) \in Nat
          BY <2>2, PoolIs
    <3>. QED BY <1>3, <1>8, <3>1
  <2>6. c \in Checks /\ c.link = m.free[2] /\ c.pc = "transports" /\ c.at = 0 /\ c.next = 0
    <3>1. m.free[2] \in Nat
          BY <2>2, <2>5, PoolIs
    <3>. QED BY <1>1, <1>3, <1>4, <3>1, Zenon DEF Checks
  <2>7. mem'[n] = m2 /\ chk'[n] = c /\ sock'[n] = s2
        BY <1>2, <2>1
  <2>8. app[n].pc = "probe" => app[n].dev \in Range(s.devs) /\ ~m.heap[app[n].dev].passive /\ app[n].tries > 0
        BY <1>1 DEF Flow, Item
  <2>9. EndsIn(conns', n) = E \cup {k} /\ Only(conns, conns', n)
        BY <1>6, <2>1, Zenon
  <2>10. s \in Socks
        BY <1>1
  <2>11. sock[n].devs = s.devs /\ s.self # 0 /\ s.aux # 0
        BY <1>1, <1>4 DEF Flow
  <2>. HIDE DEF m, s, l, E, dev, c
  <2>12. /\ Node(m2, s2, m.free[2], E \cup {k})
         /\ DOMAIN m2.heap = DOMAIN m.heap /\ Fresh(m) = m.free[1]
         /\ m.heap[m.free[1]].is = "free"
         /\ \A i \in DOMAIN m.heap : m.heap[i].is # "free" /\ i # l => m2.heap[i] = m.heap[i]
    <3>1. Node(m, s, l, E) /\ l # 0 /\ Len(m.free) >= 2 /\ dev \in Devs /\ dev.link = l /\ k \in Nat \ {0} /\ k \notin E
          BY <1>5, <2>2, <2>3, <2>4, <2>5
    <3>2. m2 = AcceptedMem(m, l, dev, k)
          BY DEF AcceptedMem
    <3>. HIDE DEF m2
    <3>3. With(E, k) = E \cup {k}
          BY <2>2, <3>1 DEF With, Node, Wired
    <3>4. /\ Node(AcceptedMem(m, l, dev, k), [s EXCEPT !.devs = <<Fresh(m)>> \o @], m.free[2], With(E, k))
          /\ DOMAIN AcceptedMem(m, l, dev, k).heap = DOMAIN m.heap /\ Fresh(m) = m.free[1]
          /\ m.heap[m.free[1]].is = "free"
          /\ \A i \in DOMAIN m.heap : m.heap[i].is # "free" /\ i # l => AcceptedMem(m, l, dev, k).heap[i] = m.heap[i]
          /\ Added(m, AcceptedMem(m, l, dev, k), l, dev, k)
      <4>1. Accepts(m, s, l, E, dev, k)
            BY <3>1 DEF Accepts
      <4>. QED BY <4>1, AcceptKeeps, Zenon
    <3>. QED BY <3>2, <3>3, <3>4
  <2>13. s2.self = s.self /\ s2.aux = s.aux /\ Range(s2.devs) = {Fresh(m)} \cup Range(s.devs)
    <3>. DEFINE one == <<Fresh(m)>>
                q == s.devs
    <3>1. Fresh(m) \in Nat /\ q \in Seq(Nat)
      <4>1. m.free[1] \in Nat
            BY <2>2, <2>5, PoolIs
      <4>. QED BY <2>10, <2>12, <4>1 DEF Socks
    <3>2. one \in Seq(Nat) /\ Range(one) = {Fresh(m)}
          BY <3>1, OneIs
    <3>3. s2 = [s EXCEPT !.devs = one \o q]
          OBVIOUS
    <3>. HIDE DEF one, q, s2
    <3>4. Range(one \o q) = Range(one) \cup Range(q)
          BY <3>1, <3>2, ConcatIs
    <3>5. s2.self = s.self /\ s2.aux = s.aux /\ s2.devs = one \o q
          BY <2>10, <3>3, Zenon DEF Socks
    <3>. QED BY <3>2, <3>4, <3>5 DEF q
  <2>14. app[n].pc = "probe" => ~m2.heap[app[n].dev].passive
    <3>1. \A i \in Range(s.devs) : i \in DOMAIN m.heap /\ m.heap[i].is = "device"
          BY <2>2, NodeIs, Zenon
    <3>2. m.heap[l].is = "link"
          BY <2>2, <2>5, NodeIs
    <3>3. \A i \in Range(s.devs) : m2.heap[i] = m.heap[i]
      <4>. HIDE DEF m2
      <4>. QED BY <2>12, <3>1, <3>2
    <3>. HIDE DEF m2
    <3>. QED BY <2>8, <3>3
  <2>. HIDE DEF m2, s2, c
  <2>15. NodeAt(n)'
        BY <2>6, <2>7, <2>9, <2>12 DEF NodeAt
  <2>16. Flow(n)'
    <3>1. app'[n].pc = "probe" => app'[n].dev \in Range(s2.devs) /\ ~Item(n, app[n].dev)'.passive /\ app'[n].tries > 0
          BY <1>3, <2>7, <2>8, <2>13, <2>14 DEF Item
    <3>. QED BY <1>3, <2>6, <2>7, <2>11, <2>13, <3>1 DEF Flow, Item
  <2>17. /\ mem' = [mem EXCEPT ![n] = mem'[n]] /\ sock' = [sock EXCEPT ![n] = sock'[n]]
         /\ app' = [app EXCEPT ![n] = app'[n]] /\ chk' = [chk EXCEPT ![n] = chk'[n]]
         /\ app'[n] \in Apps /\ chk'[n] \in Checks /\ udp' \in SUBSET Datagrams
        BY <1>1, <1>2, <1>3, <2>1, <2>6, <2>7
  <2>. QED BY <2>9, <2>15, <2>16, <2>17, OneNode
<1>. QED BY <1>7, <1>8

LEMMA SameInv ==
  ASSUME OpenInv, UNCHANGED <<mem, sock, app, chk, udp, conns>>
  PROVE  OpenInv'
<1>1. Types /\ PoolInv /\ FlowInv /\ ConnInv
      BY DEF OpenInv
<1>2. Types' /\ ConnInv'
      BY <1>1 DEF Types, ConnInv
<1>3. PoolInv'
      BY <1>1 DEF PoolInv, NodeAt
<1>4. FlowInv'
      BY <1>1 DEF FlowInv, Flow, Item
<1>. QED BY <1>2, <1>3, <1>4 DEF OpenInv

LEMMA DeviceOpenInv ==
  ASSUME OpenInv, NEW n \in Nodes, NEW o \in Opens(n), DeviceOpen(n, o)
  PROVE  OpenInv'
<1>1. /\ Types /\ NodeAt(n) /\ Flow(n) /\ Apart(conns) /\ Lines(conns) /\ conns \in Seq(Conns)
      /\ udp \in SUBSET Datagrams /\ chk[n] \in Checks /\ app[n] \in Apps /\ sock[n] \in Socks /\ FreeOk(mem[n])
      /\ Widths[n] \in WidthSet
      BY InvIs
<1>2. mem \in [Nodes -> Pools] /\ sock \in [Nodes -> Socks] /\ app \in [Nodes -> Apps] /\ chk \in [Nodes -> Checks]
      BY <1>1 DEF Types
<1>3. /\ sock[n].self # 0 /\ app[n].pc = "idle" /\ chk[n].pc = "no" /\ chk' = chk
      /\ o.kind = "dev" => n \notin conns[Wire(n, o)].ends
      BY DEF DeviceOpen, Ready
<1>4. /\ o.kind \in AllKinds /\ o.to \in Nodes \ {n} /\ o.widths \in WidthSet /\ o.attempts \in Nat
      /\ o.passive \in BOOLEAN
      BY OpenAssumption
<1>5. CASE Refused(n, o)
  <2>1. UNCHANGED <<mem, sock, app, chk, udp, conns>>
        BY <1>3, <1>5 DEF DeviceOpen
  <2>. QED BY <2>1, SameInv
<1>6. CASE ~Refused(n, o)
  <2>. DEFINE m == mem[n]
              s == sock[n]
              l == chk[n].link
              E == EndsIn(conns, n)
              d == Fresh(m)
              want == Meet(o.widths, Widths[n])
              k == IF o.kind = "dev" THEN Wire(n, o) ELSE IF o.kind = "tcp" THEN Len(conns) + 1 ELSE 0
              cs == IF o.kind = "dev" THEN OpenWire(n, o) ELSE IF o.kind = "tcp" THEN NewConn(n, o) ELSE conns
              tries == IF Stream(o.kind) THEN 1 ELSE o.attempts
              probed == ~o.passive /\ tries # 0
              dev == Device(o, m.free[2], o.passive, IF o.passive \/ probed THEN None ELSE want)
              msg == Probe(want, d)
              asking == [pc |-> "probe", dev |-> d, want |-> want, tries |-> tries]
              s2 == [s EXCEPT !.devs = <<d>> \o @]
              m2 == OpenedMem(m, dev, k)
  <2>1. /\ mem' = [mem EXCEPT ![n] = m2] /\ sock' = [sock EXCEPT ![n] = s2]
        /\ app' = IF probed THEN [app EXCEPT ![n] = asking] ELSE app
        /\ conns' = IF probed /\ Stream(o.kind) THEN Put(cs, n, k, msg) ELSE cs
        /\ udp' = IF probed /\ ~Stream(o.kind) THEN udp \cup {Datagram(n, o.to, msg)} ELSE udp
        BY <1>2, <1>6 DEF DeviceOpen, OpenedMem
  <2>2. Node(m, s, l, E) /\ FreeOk(m)
        BY <1>1, InvIs DEF NodeAt
  <2>3. want \in WidthSet
        BY <1>1, <1>4, WidthsAre
  <2>4. Len(m.free) >= 2 /\ m.free[1] \in Nat /\ m.free[2] \in Nat
    <3>1. ~(Len(m.free) < 2)
          BY <1>6 DEF Refused
    <3>2. Len(m.free) \in Nat
          BY <2>2, PoolIs
    <3>. QED BY <2>2, <3>1, <3>2, PoolIs
  <2>5. dev \in Devs /\ dev.link = m.free[2] /\ dev.passive = o.passive
    <3>. HIDE DEF m, want, probed
    <3>. QED BY <1>4, <2>3, <2>4, WidthsAre DEF Device, Devs
  <2>6. tries \in Nat
        BY <1>4
  <2>7. s \in Socks /\ s.self # 0 /\ s.aux # 0
        BY <1>1, <1>3 DEF Flow
  <2>8. chk[n].at = 0 /\ chk[n].next = 0 /\ l = 0
        BY <1>1, <1>3 DEF Flow
  <2>9. k \in Nat /\ k \notin E /\ EndsIn(cs, n) = With(E, k) /\ Only(conns, cs, n) /\ (Stream(o.kind) => k \in DOMAIN cs)
    <3>1. 0 \notin E
          BY <2>2, NodeIs
    <3>2. CASE o.kind = "dev"
      <4>1. /\ Only(conns, OpenWire(n, o), n) /\ EndsIn(OpenWire(n, o), n) = EndsIn(conns, n) \cup {Wire(n, o)}
            /\ DOMAIN OpenWire(n, o) = DOMAIN conns
            BY <1>1, <1>4, OpenWireKeeps
      <4>2. Wire(n, o) \in DOMAIN conns
            BY <1>1, <1>4, WireIs
      <4>3. Wire(n, o) \in Nat \ {0}
            BY <1>1, <4>2, ConnIs
      <4>4. k = Wire(n, o) /\ cs = OpenWire(n, o) /\ n \notin conns[Wire(n, o)].ends
            BY <1>3, <3>2
      <4>. HIDE DEF k, cs
      <4>. QED BY <3>1, <4>1, <4>2, <4>3, <4>4 DEF With, EndsIn
    <3>3. CASE o.kind = "tcp"
      <4>1. /\ Only(conns, NewConn(n, o), n) /\ EndsIn(NewConn(n, o), n) = EndsIn(conns, n) \cup {Len(conns) + 1}
            /\ Len(conns) + 1 \in DOMAIN NewConn(n, o) /\ Len(conns) + 1 \notin DOMAIN conns
            BY <1>1, <1>4, NewConnKeeps
      <4>2. Len(conns) + 1 \in Nat \ {0}
            BY <1>1, LenProperties
      <4>3. k = Len(conns) + 1 /\ cs = NewConn(n, o)
            BY <3>3
      <4>. HIDE DEF k, cs
      <4>. QED BY <3>1, <4>1, <4>2, <4>3 DEF With, EndsIn
    <3>4. CASE o.kind \notin {"dev", "tcp"}
      <4>1. k = 0 /\ cs = conns /\ ~Stream(o.kind)
            BY <3>4 DEF Stream
      <4>2. Only(conns, conns, n)
            BY <1>1, OnlyNothing
      <4>. HIDE DEF k, cs
      <4>. QED BY <3>1, <4>1, <4>2 DEF With
    <3>. QED BY <3>2, <3>3, <3>4
  <2>10. k \in Nat /\ k \notin E
        BY <2>9
  <2>. HIDE DEF m, s, l, E, k, cs, tries, want, probed, dev
  <2>11. Fits(m, s, l, E, dev, k)
        BY <2>2, <2>4, <2>5, <2>10 DEF Fits
  <2>12. /\ Node(m2, s2, l, With(E, k))
         /\ Fresh(m) = m.free[1]
         /\ m2.heap[d] = dev
    <3>1. /\ Node(OpenedMem(m, dev, k), [s EXCEPT !.devs = <<Fresh(m)>> \o @], l, With(E, k))
          /\ Fresh(m) = m.free[1] /\ Fresh(m) \in DOMAIN m.heap /\ m.free[2] \in DOMAIN m.heap
          /\ DOMAIN OpenedMem(m, dev, k).heap = DOMAIN m.heap
          /\ \A i \in DOMAIN m.heap : m.heap[i].is # "free" => OpenedMem(m, dev, k).heap[i] = m.heap[i]
          /\ OpenedMem(m, dev, k).heap[Fresh(m)] = dev
          /\ m.heap[m.free[1]].is = "free" /\ m.heap[m.free[2]].is = "free"
          /\ Added(m, OpenedMem(m, dev, k), l, dev, k)
          BY <2>11, OpenKeeps, Zenon
    <3>. QED BY <3>1
  <2>13. d \in Nat
        BY <2>4, <2>12
  <2>14. s2.self = s.self /\ s2.aux = s.aux /\ d \in Range(s2.devs)
    <3>. DEFINE one == <<d>>
                q == s.devs
    <3>1. q \in Seq(Nat)
          BY <2>7 DEF Socks
    <3>2. one \in Seq(Nat) /\ Range(one) = {d}
          BY <2>13, OneIs
    <3>3. s2 = [s EXCEPT !.devs = one \o q]
          OBVIOUS
    <3>. HIDE DEF one, q, s2, d
    <3>4. Range(one \o q) = Range(one) \cup Range(q)
          BY <3>1, <3>2, ConcatIs
    <3>5. s2.self = s.self /\ s2.aux = s.aux /\ s2.devs = one \o q
          BY <2>7, <3>3, Zenon DEF Socks
    <3>. QED BY <3>2, <3>4, <3>5
  <2>15. msg \in Msgs
    <3>. HIDE DEF d
    <3>. QED BY <2>3, <2>13 DEF Probe, Msgs
  <2>. HIDE DEF m2, s2, msg
  <2>16. Only(conns, conns', n) /\ EndsIn(conns', n) = With(E, k)
    <3>1. CASE probed /\ Stream(o.kind)
      <4>1. cs \in Seq(Conns) /\ Apart(cs) /\ k \in DOMAIN cs
            BY <2>9, <3>1 DEF Only
      <4>2. Only(cs, Put(cs, n, k, msg), n) /\ EndsIn(Put(cs, n, k, msg), n) = EndsIn(cs, n)
            BY <2>15, <4>1, PutKeeps
      <4>3. conns' = Put(cs, n, k, msg)
            BY <2>1, <3>1
      <4>4. Only(conns, Put(cs, n, k, msg), n)
            BY <2>9, <4>2, OnlyTwice
      <4>. QED BY <2>9, <4>2, <4>3, <4>4
    <3>2. CASE ~(probed /\ Stream(o.kind))
      <4>1. conns' = cs
            BY <2>1, <3>2
      <4>. QED BY <2>9, <4>1
    <3>. QED BY <3>1, <3>2
  <2>17. udp' \in SUBSET Datagrams
    <3>1. Datagram(n, o.to, msg) \in Datagrams
          BY <1>4, <2>15 DEF Datagram, Datagrams
    <3>. QED BY <1>1, <2>1, <3>1
  <2>18. mem'[n] = m2 /\ sock'[n] = s2 /\ chk'[n] = chk[n]
        BY <1>2, <1>3, <2>1
  <2>19. NodeAt(n)'
        BY <2>12, <2>16, <2>18 DEF NodeAt, l
  <2>20. /\ app' = [app EXCEPT ![n] = app'[n]] /\ app'[n] \in Apps
         /\ app'[n].pc = "probe" => app'[n].dev = d /\ ~o.passive /\ app'[n].tries > 0
    <3>1. CASE probed
      <4>. HIDE DEF d
      <4>1. asking \in Apps
            BY <2>3, <2>6, <2>13 DEF Apps
      <4>2. app'[n] = asking /\ app' = [app EXCEPT ![n] = app'[n]]
            BY <1>2, <2>1, <3>1
      <4>3. ~o.passive /\ tries > 0
            BY <2>6, <3>1 DEF probed
      <4>. QED BY <4>1, <4>2, <4>3
    <3>2. CASE ~probed
      <4>1. app' = app
            BY <2>1, <3>2
      <4>. QED BY <1>1, <1>2, <1>3, <4>1
    <3>. QED BY <3>1, <3>2
  <2>21. Flow(n)'
    <3>1. ~o.passive => ~m2.heap[d].passive
          BY <2>5, <2>12
    <3>. HIDE DEF d
    <3>2. app'[n].pc = "probe" => /\ app'[n].dev \in Range(sock'[n].devs) /\ ~(mem'[n].heap[app'[n].dev]).passive
                                  /\ app'[n].tries > 0
          BY <2>14, <2>18, <2>20, <3>1
    <3>3. chk'[n].at = 0 /\ chk'[n].next = 0 /\ chk'[n].link = 0 /\ sock'[n].self # 0 /\ sock'[n].aux # 0
          BY <2>7, <2>8, <2>14, <2>18 DEF l
    <3>. QED BY <3>2, <3>3 DEF Flow, Item
  <2>22. /\ mem' = [mem EXCEPT ![n] = mem'[n]] /\ sock' = [sock EXCEPT ![n] = sock'[n]]
         /\ chk' = [chk EXCEPT ![n] = chk'[n]] /\ chk'[n] \in Checks
        BY <1>1, <1>2, <1>3, <2>1, <2>18
  <2>. QED BY <2>16, <2>17, <2>19, <2>20, <2>21, <2>22, OneNode
<1>. QED BY <1>5, <1>6

\* "kill" in eb_device_slave.
LEMMA KillInv ==
  ASSUME OpenInv, NEW n \in Nodes, Visiting(n), Conn(n) # 0, NEW cs, Only(conns, cs, n),
         EndsIn(cs, n) = EndsIn(conns, n), Kill(n, cs), UNCHANGED <<app, udp>>
  PROVE  OpenInv'
<1>. DEFINE d == Here(n)
            k == Conn(n)
            m == mem[n]
            s == sock[n]
            l == chk[n].link
            E == EndsIn(conns, n)
            next == chk[n].next
            c == Visit(n, next)
<1>1. /\ Types /\ NodeAt(n) /\ Flow(n) /\ Apart(conns) /\ conns \in Seq(Conns) /\ udp \in SUBSET Datagrams
      /\ chk[n] \in Checks /\ app[n] \in Apps /\ s \in Socks
      /\ s.devs \in Seq(Nat) /\ IsInjective(s.devs) /\ 0 \notin Range(s.devs)
      BY InvIs
<1>2. mem \in [Nodes -> Pools] /\ sock \in [Nodes -> Socks] /\ app \in [Nodes -> Apps] /\ chk \in [Nodes -> Checks]
      BY <1>1 DEF Types
<1>3. chk[n].pc = "devices" /\ d # 0 /\ d = chk[n].at /\ k = ConnOf(n, d)
      BY DEF Visiting, Here, Conn
<1>4. IsNext(s.devs, d, next) /\ s.self # 0 /\ s.aux # 0
      BY <1>1, <1>3 DEF Flow
<1>5. /\ d \in Range(s.devs) /\ next \in Range(s.devs) \cup {0}
      /\ \A nn : next # 0 /\ IsNext(s.devs, next, nn) => IsNext(Without(s.devs, d), next, nn)
      BY <1>1, <1>4, NextStays
<1>6. /\ Item(n, d) = m.heap[d] /\ LinkOf(m, d) = Item(n, d).link /\ k = ConnAt(m, d)
      /\ k \in DOMAIN conns /\ LinkOf(m, d) # 0
      BY <1>3, <1>5, DeviceIs
<1>7. /\ c \in Checks /\ c.pc = "devices" /\ c.link = chk[n].link /\ c.at = next
      /\ next = 0 => c.next = 0
      /\ next # 0 => IsNext(s.devs, next, c.next)
      BY <1>5, VisitIs
<1>8. chk' = [chk EXCEPT ![n] = c] /\ conns' = Shut(cs, n, k)
      BY DEF Kill, MoveOn
<1>9. Node(m, s, l, E)
      BY <1>1 DEF NodeAt
<1>10. /\ app[n].pc = "probe" => app[n].dev \in Range(s.devs) /\ ~m.heap[app[n].dev].passive /\ app[n].tries > 0
      BY <1>1 DEF Flow, Item
<1>11. IF m.heap[d].passive
       THEN /\ mem' = [mem EXCEPT ![n] = CloseDevMem(m, d)]
            /\ sock' = [sock EXCEPT ![n] = [s EXCEPT !.devs = Without(@, d)]]
       ELSE mem' = [mem EXCEPT ![n] = Free([m EXCEPT !.heap[d].link = 0], LinkOf(m, d))] /\ sock' = sock
      BY <1>2, <1>6 DEF Kill
<1>12. Only(conns, conns', n) /\ EndsIn(conns', n) = E \ {ConnAt(m, d)}
  <2>1. cs \in Seq(Conns) /\ Apart(cs) /\ k \in DOMAIN cs \cup {0}
        BY <1>6 DEF Only
  <2>. HIDE DEF k
  <2>2. Only(cs, Shut(cs, n, k), n) /\ EndsIn(Shut(cs, n, k), n) = EndsIn(cs, n) \ {k}
        BY <2>1, ShutKeeps
  <2>3. Only(conns, Shut(cs, n, k), n)
        BY <2>2, OnlyTwice
  <2>. QED BY <1>6, <1>8, <2>2, <2>3
<1>13. chk'[n] = c /\ chk' = [chk EXCEPT ![n] = chk'[n]]
      BY <1>2, <1>8
<1>14. app'[n] = app[n] /\ app' = [app EXCEPT ![n] = app'[n]] /\ app'[n] \in Apps /\ chk'[n] \in Checks
       /\ udp' \in SUBSET Datagrams
      BY <1>1, <1>2, <1>7, <1>13
<1>15. \A i \in Range(s.devs) : i \in DOMAIN m.heap /\ i # LinkOf(m, d)
  <2>. HIDE DEF m, s, l, E, d
  <2>1. /\ \A i \in Range(s.devs) : i \in DOMAIN m.heap /\ m.heap[i].is = "device"
        /\ m.heap[LinkOf(m, d)].is = "link"
        BY <1>5, <1>6, <1>9, NodeIs
  <2>. QED BY <2>1
<1>. HIDE DEF m, s, l, E, d, k, c, next
<1>16. CASE m.heap[d].passive
  <2>. DEFINE m2 == CloseDevMem(m, d)
              s2 == [s EXCEPT !.devs = Without(@, d)]
  <2>1. /\ Node(m2, s2, l, E \ {ConnAt(m, d)}) /\ DOMAIN m2.heap = DOMAIN m.heap
        /\ Range(Without(s.devs, d)) = Range(s.devs) \ {d}
        /\ \A i \in DOMAIN m.heap : i # d /\ i # LinkOf(m, d) => m2.heap[i] = m.heap[i]
    <3>1. Node(m, s, l, E) /\ d \in Range(s.devs)
          BY <1>5, <1>9
    <3>2. /\ Node(CloseDevMem(m, d), [s EXCEPT !.devs = Without(@, d)], l, E \ {ConnAt(m, d)})
          /\ DOMAIN CloseDevMem(m, d).heap = DOMAIN m.heap
          /\ Range(Without(s.devs, d)) = Range(s.devs) \ {d}
          /\ \A i \in DOMAIN m.heap : i # d /\ i # LinkOf(m, d) => CloseDevMem(m, d).heap[i] = m.heap[i]
      <4>1. Closes(m, s, l, E, d)
            BY <3>1, CloseKeeps
      <4>. QED BY <4>1 DEF Closes
    <3>. QED BY <3>2
  <2>2. s2.self = s.self /\ s2.aux = s.aux /\ s2.devs = Without(s.devs, d)
        BY <1>1 DEF Socks
  <2>. HIDE DEF m2, s2
  <2>3. mem' = [mem EXCEPT ![n] = m2] /\ sock' = [sock EXCEPT ![n] = s2]
        BY <1>11, <1>16 DEF m2, s2
  <2>4. mem'[n] = m2 /\ sock'[n] = s2
        BY <1>2, <2>3
  <2>5. NodeAt(n)'
        BY <1>7, <1>12, <1>13, <2>1, <2>4 DEF NodeAt, l
  <2>6. app[n].pc = "probe" => app[n].dev \in Range(s2.devs) /\ ~m2.heap[app[n].dev].passive
        BY <1>10, <1>15, <1>16, <2>1, <2>2
  <2>7. next # 0 => IsNext(s2.devs, next, c.next)
        BY <1>5, <1>7, <2>2
  <2>8. Flow(n)'
        BY <1>4, <1>7, <1>10, <1>13, <1>14, <2>2, <2>4, <2>6, <2>7 DEF Flow, Item
  <2>9. mem' = [mem EXCEPT ![n] = mem'[n]] /\ sock' = [sock EXCEPT ![n] = sock'[n]]
        BY <2>3, <2>4, Zenon
  <2>. QED BY <1>12, <1>13, <1>14, <2>5, <2>8, <2>9, OneNode
<1>17. CASE ~m.heap[d].passive
  <2>. DEFINE m2 == Free([m EXCEPT !.heap[d].link = 0], LinkOf(m, d))
  <2>1. /\ Node(m2, s, l, E \ {ConnAt(m, d)}) /\ DOMAIN m2.heap = DOMAIN m.heap
        /\ m2.heap[d] = [m.heap[d] EXCEPT !.link = 0]
        /\ \A i \in DOMAIN m.heap : i # d /\ i # LinkOf(m, d) => m2.heap[i] = m.heap[i]
    <3>1. Node(m, s, l, E) /\ d \in Range(s.devs) /\ LinkOf(m, d) # 0
          BY <1>5, <1>6, <1>9
    <3>. QED BY <3>1, BreakKeeps
  <2>. HIDE DEF m2
  <2>2. mem' = [mem EXCEPT ![n] = m2] /\ sock' = sock
        BY <1>11, <1>17 DEF m2
  <2>3. mem'[n] = m2 /\ sock'[n] = s
        BY <1>2, <2>2 DEF s
  <2>4. NodeAt(n)'
        BY <1>7, <1>12, <1>13, <2>1, <2>3 DEF NodeAt, l
  <2>5. ~m2.heap[d].passive
    <3>1. m.heap[d] \in Devs
          BY <1>5, <1>9, NodeIs
    <3>. QED BY <1>17, <2>1, <3>1 DEF Devs
  <2>6. app[n].pc = "probe" => ~m2.heap[app[n].dev].passive
        BY <1>10, <1>15, <2>1, <2>5, Zenon
  <2>7. Flow(n)'
        BY <1>4, <1>7, <1>10, <1>13, <1>14, <2>3, <2>6 DEF Flow, Item
  <2>8. mem' = [mem EXCEPT ![n] = mem'[n]] /\ sock' = [sock EXCEPT ![n] = sock'[n]]
        BY <1>2, <2>2, <2>3
  <2>. QED BY <1>12, <1>13, <1>14, <2>4, <2>7, <2>8, OneNode
<1>. QED BY <1>16, <1>17

\* A device gets its widths while eb_socket_check runs.
LEMMA RetagInv ==
  ASSUME OpenInv, NEW n \in Nodes, NEW e \in Range(sock[n].devs), NEW v \in WidthSet,
         mem' = [mem EXCEPT ![n].heap[e].widths = v], UNCHANGED <<sock, app, udp>>,
         Only(conns, conns', n), EndsIn(conns', n) = EndsIn(conns, n),
         NEW c \in Checks, chk' = [chk EXCEPT ![n] = c], c.link = chk[n].link,
         chk[n].pc = "devices", c.pc = "devices", c.at = 0 => c.next = 0,
         c.at # 0 => IsNext(sock[n].devs, c.at, c.next)
  PROVE  OpenInv'
<1>. DEFINE m == mem[n]
            s == sock[n]
            l == chk[n].link
            E == EndsIn(conns, n)
            m2 == [m EXCEPT !.heap[e].widths = v]
<1>1. /\ Types /\ NodeAt(n) /\ Flow(n) /\ udp \in SUBSET Datagrams /\ app[n] \in Apps
      BY InvIs
<1>2. mem \in [Nodes -> Pools] /\ sock \in [Nodes -> Socks] /\ app \in [Nodes -> Apps] /\ chk \in [Nodes -> Checks]
      BY <1>1 DEF Types
<1>3. mem'[n] = m2 /\ mem' = [mem EXCEPT ![n] = mem'[n]] /\ sock'[n] = s /\ sock' = [sock EXCEPT ![n] = sock'[n]]
      BY <1>2
<1>4. Node(m, s, l, E) /\ e \in Range(s.devs)
      BY <1>1 DEF NodeAt
<1>5. app[n].pc = "probe" => app[n].dev \in Range(s.devs) /\ ~m.heap[app[n].dev].passive /\ app[n].tries > 0
      BY <1>1 DEF Flow, Item
<1>6. s.self # 0 /\ s.aux # 0
      BY <1>1 DEF Flow
<1>7. /\ app'[n] = app[n] /\ app' = [app EXCEPT ![n] = app'[n]] /\ app'[n] \in Apps /\ udp' \in SUBSET Datagrams
      /\ chk'[n] = c /\ chk' = [chk EXCEPT ![n] = chk'[n]]
      BY <1>1, <1>2
<1>8. EndsIn(conns', n) = E /\ c.link = l /\ (c.at # 0 => IsNext(s.devs, c.at, c.next))
      OBVIOUS
<1>. HIDE DEF m, s, l, E
<1>9. /\ Node(m2, s, l, E) /\ DOMAIN m2.heap = DOMAIN m.heap
      /\ m2.heap[e] = [m.heap[e] EXCEPT !.widths = v]
      /\ \A i \in DOMAIN m.heap : i # e => m2.heap[i] = m.heap[i]
      BY <1>4, RetagKeeps
<1>10. \A i \in Range(s.devs) : i \in DOMAIN m.heap /\ m.heap[i] \in Devs
      BY <1>4, NodeIs, Zenon
<1>. HIDE DEF m2
<1>11. m2.heap[e].passive = m.heap[e].passive
      BY <1>4, <1>9, <1>10 DEF Devs
<1>12. app[n].pc = "probe" => ~m2.heap[app[n].dev].passive
      BY <1>5, <1>9, <1>10, <1>11, Zenon
<1>13. NodeAt(n)'
      BY <1>3, <1>7, <1>8, <1>9 DEF NodeAt
<1>14. Flow(n)'
      BY <1>3, <1>5, <1>6, <1>7, <1>8, <1>12, Zenon DEF Flow, Item
<1>. QED BY <1>3, <1>7, <1>13, <1>14, OneNode, Zenon

\* The device at hand and its connection, when there is something to read.
LEMMA ReadIs ==
  ASSUME OpenInv, NEW n \in Nodes, Visiting(n), Conn(n) # 0, Input(n) # <<>>
  PROVE  LET cs == [conns EXCEPT ![Conn(n)].q[n] = Tail(@)]
         IN /\ Only(conns, cs, n) /\ EndsIn(cs, n) = EndsIn(conns, n) /\ Head(Input(n)) \in Msgs
            /\ Here(n) \in Range(sock[n].devs) /\ Conn(n) \in DOMAIN conns
            /\ \A msg \in Msgs : /\ Only(conns, Put(cs, n, Conn(n), msg), n)
                                 /\ EndsIn(Put(cs, n, Conn(n), msg), n) = EndsIn(conns, n)
<1>. DEFINE k == Conn(n)
            cs == [conns EXCEPT ![k].q[n] = Tail(@)]
<1>1. /\ Flow(n) /\ Apart(conns) /\ conns \in Seq(Conns)
      /\ sock[n].devs \in Seq(Nat) /\ IsInjective(sock[n].devs) /\ 0 \notin Range(sock[n].devs)
      BY InvIs
<1>2. chk[n].at # 0 /\ chk[n].at = Here(n) /\ k = ConnOf(n, Here(n))
      BY DEF Visiting, Here, Conn
<1>3. IsNext(sock[n].devs, Here(n), chk[n].next)
      BY <1>1, <1>2 DEF Flow
<1>4. Here(n) \in Range(sock[n].devs)
      BY <1>1, <1>3, NextStays
<1>5. k \in DOMAIN conns
      BY <1>2, <1>4, DeviceIs
<1>6. conns[k].q[n] # <<>> /\ Input(n) = conns[k].q[n]
      BY DEF Input
<1>. HIDE DEF k
<1>7. /\ Only(conns, [conns EXCEPT ![k].q[n] = Tail(@)], n)
      /\ EndsIn([conns EXCEPT ![k].q[n] = Tail(@)], n) = EndsIn(conns, n)
      /\ Head(conns[k].q[n]) \in Msgs
      BY <1>1, <1>5, <1>6, TakeKeeps
<1>. HIDE DEF cs
<1>8. Only(conns, cs, n) /\ EndsIn(cs, n) = EndsIn(conns, n)
      BY <1>7 DEF cs
<1>9. cs \in Seq(Conns) /\ Apart(cs) /\ k \in DOMAIN cs
      BY <1>5, <1>8 DEF Only
<1>10. ASSUME NEW msg \in Msgs
       PROVE  Only(conns, Put(cs, n, k, msg), n) /\ EndsIn(Put(cs, n, k, msg), n) = EndsIn(conns, n)
  <2>1. Only(cs, Put(cs, n, k, msg), n) /\ EndsIn(Put(cs, n, k, msg), n) = EndsIn(cs, n)
        BY <1>9, PutKeeps
  <2>2. Only(conns, Put(cs, n, k, msg), n)
        BY <1>8, <2>1, OnlyTwice
  <2>. QED BY <1>8, <2>1, <2>2
<1>. QED BY <1>4, <1>5, <1>6, <1>7, <1>8, <1>10, Zenon DEF cs, k

LEMMA LinkHeaderInv ==
  ASSUME OpenInv, NEW n \in Nodes, LinkHeader(n)
  PROVE  OpenInv'
<1>. DEFINE k == Conn(n)
            d == Here(n)
            msg == Head(Input(n))
            cs == [conns EXCEPT ![k].q[n] = Tail(@)]
            resp == Resp(Widths[n], msg.tag)
            answered == Put(cs, n, k, resp)
            w == Negotiated(n, msg.w)
            c == Visit(n, chk[n].next)
<1>1. /\ Types /\ Flow(n) /\ Widths[n] \in WidthSet /\ chk[n] \in Checks
      /\ sock[n].devs \in Seq(Nat) /\ IsInjective(sock[n].devs) /\ 0 \notin Range(sock[n].devs)
      BY InvIs
<1>2. Visiting(n) /\ k # 0 /\ Input(n) # <<>> /\ UNCHANGED <<app, udp>>
      BY DEF LinkHeader
<1>3. chk[n].pc = "devices" /\ d = chk[n].at /\ chk[n].at # 0
      BY <1>2 DEF Visiting, Here
<1>4. /\ Only(conns, cs, n) /\ EndsIn(cs, n) = EndsIn(conns, n) /\ msg \in Msgs /\ d \in Range(sock[n].devs)
      /\ \A x \in Msgs : Only(conns, Put(cs, n, k, x), n) /\ EndsIn(Put(cs, n, k, x), n) = EndsIn(conns, n)
      BY <1>2, ReadIs, Zenon
<1>5. msg.tag \in Nat /\ msg.w \in WidthSet
      BY <1>4 DEF Msgs
<1>6. resp \in Msgs /\ w \in WidthSet
  <2>1. resp \in Msgs
        BY <1>1, <1>5 DEF Resp, Msgs
  <2>2. w \in WidthSet
        BY <1>1, <1>5, WidthsAre DEF Negotiated
  <2>. QED BY <2>1, <2>2
<1>7. Only(conns, answered, n) /\ EndsIn(answered, n) = EndsIn(conns, n)
      BY <1>4, <1>6, Zenon
<1>8. IsNext(sock[n].devs, d, chk[n].next)
      BY <1>1, <1>3 DEF Flow
<1>9. chk[n].next \in Range(sock[n].devs) \cup {0}
      BY <1>1, <1>8, NextStays
<1>10. /\ c \in Checks /\ c.pc = "devices" /\ c.link = chk[n].link /\ c.at = chk[n].next
       /\ c.at = 0 => c.next = 0
       /\ c.at # 0 => IsNext(sock[n].devs, c.at, c.next)
  <2>1. /\ c \in Checks /\ c.pc = "devices" /\ c.link = chk[n].link /\ c.at = chk[n].next
        /\ chk[n].next = 0 => c.next = 0
        /\ chk[n].next # 0 => IsNext(sock[n].devs, chk[n].next, c.next)
        BY <1>9, VisitIs
  <2>. HIDE DEF c
  <2>. QED BY <2>1
<1>11. MoveOn(n) = [chk EXCEPT ![n] = c]
      BY DEF MoveOn
<1>12. \/ mem' = [mem EXCEPT ![n].heap[d].widths = w] /\ conns' = answered /\ UNCHANGED <<sock, chk>>
       \/ Kill(n, answered)
       \/ /\ Tagged(n, msg.tag) # {}
          /\ mem' = [mem EXCEPT ![n].heap[msg.tag].widths = msg.w]
          /\ conns' = cs /\ chk' = MoveOn(n) /\ UNCHANGED sock
       \/ Kill(n, cs)
  <2>. HIDE DEF k, d, w, answered, cs
  <2>1. CASE msg.t = "probe" /\ Item(n, d).passive /\ Possible(w)
        BY <2>1 DEF LinkHeader, k, d, w, answered, cs
  <2>2. CASE msg.t = "probe" /\ Item(n, d).passive /\ ~Possible(w)
        BY <2>2 DEF LinkHeader, k, d, w, answered, cs
  <2>3. CASE msg.t = "resp" /\ ~Item(n, d).passive /\ Tagged(n, msg.tag) # {}
        BY <2>3 DEF LinkHeader, k, d, w, answered, cs
  <2>4. CASE /\ ~(msg.t = "probe" /\ Item(n, d).passive /\ Possible(w))
             /\ ~(msg.t = "probe" /\ Item(n, d).passive /\ ~Possible(w))
             /\ ~(msg.t = "resp" /\ ~Item(n, d).passive /\ Tagged(n, msg.tag) # {})
        BY <2>4 DEF LinkHeader, k, d, w, answered, cs
  <2>. QED BY <2>1, <2>2, <2>3, <2>4
<1>. HIDE DEF d, answered, cs, w, c, msg
<1>13. CASE mem' = [mem EXCEPT ![n].heap[d].widths = w] /\ conns' = answered /\ UNCHANGED <<sock, chk>>
  <2>1. chk' = [chk EXCEPT ![n] = chk[n]]
        BY <1>1, <1>13 DEF Types
  <2>2. Only(conns, conns', n) /\ EndsIn(conns', n) = EndsIn(conns, n)
        BY <1>7, <1>13
  <2>3. chk[n].at # 0 => IsNext(sock[n].devs, chk[n].at, chk[n].next)
        BY <1>3, <1>8
  <2>. QED BY <1>1, <1>2, <1>3, <1>4, <1>6, <1>13, <2>1, <2>2, <2>3, RetagInv, Zenon
<1>14. CASE Kill(n, answered)
      BY <1>2, <1>7, <1>14, KillInv
<1>15. CASE /\ Tagged(n, msg.tag) # {}
            /\ mem' = [mem EXCEPT ![n].heap[msg.tag].widths = msg.w]
            /\ conns' = cs /\ chk' = MoveOn(n) /\ UNCHANGED sock
  <2>1. msg.tag \in Range(sock[n].devs)
        BY <1>15 DEF Tagged
  <2>2. Only(conns, conns', n) /\ EndsIn(conns', n) = EndsIn(conns, n)
        BY <1>4, <1>15
  <2>. DEFINE e == msg.tag
              v == msg.w
  <2>3. /\ e \in Range(sock[n].devs) /\ v \in WidthSet /\ mem' = [mem EXCEPT ![n].heap[e].widths = v]
        /\ UNCHANGED <<sock, app, udp>> /\ chk' = [chk EXCEPT ![n] = c]
        BY <1>2, <1>5, <1>11, <1>15, <2>1
  <2>. HIDE DEF e, v
  <2>. QED BY <1>3, <1>10, <2>2, <2>3, RetagInv, Zenon
<1>16. CASE Kill(n, cs)
      BY <1>2, <1>4, <1>16, KillInv
<1>. QED BY <1>12, <1>13, <1>14, <1>15, <1>16

LEMMA LinkRecordsInv ==
  ASSUME OpenInv, NEW n \in Nodes, LinkRecords(n)
  PROVE  OpenInv'
<1>. DEFINE k == Conn(n)
            cs == [conns EXCEPT ![k].q[n] = Tail(@)]
<1>1. Types /\ Flow(n) /\ chk[n] \in Checks /\ udp \in SUBSET Datagrams
      BY InvIs
<1>2. /\ Visiting(n) /\ k # 0 /\ Input(n) # <<>> /\ UNCHANGED <<app, udp>>
      /\ (conns' = cs /\ UNCHANGED <<mem, sock, chk>>) \/ Kill(n, cs)
      BY DEF LinkRecords
<1>3. Only(conns, cs, n) /\ EndsIn(cs, n) = EndsIn(conns, n)
      BY <1>2, ReadIs
<1>. HIDE DEF cs
<1>4. CASE conns' = cs /\ UNCHANGED <<mem, sock, chk>>
  <2>1. chk' = [chk EXCEPT ![n] = chk[n]]
        BY <1>1, <1>4 DEF Types
  <2>2. chk[n].pc = "devices" /\ chk[n].at # 0 /\ IsNext(sock[n].devs, chk[n].at, chk[n].next)
        BY <1>1, <1>2 DEF Visiting, Here, Flow
  <2>3. Only(conns, conns', n) /\ EndsIn(conns', n) = EndsIn(conns, n) /\ udp' \in SUBSET Datagrams
        BY <1>1, <1>2, <1>3, <1>4
  <2>. QED BY <1>1, <1>2, <1>4, <2>1, <2>2, <2>3, GoOnInv, Zenon
<1>5. CASE Kill(n, cs)
      BY <1>2, <1>3, <1>5, KillInv
<1>. QED BY <1>2, <1>4, <1>5

LEMMA LinkEofInv ==
  ASSUME OpenInv, NEW n \in Nodes, LinkEof(n)
  PROVE  OpenInv'
<1>1. conns \in Seq(Conns) /\ Apart(conns)
      BY InvIs
<1>2. Visiting(n) /\ Conn(n) # 0 /\ Kill(n, conns) /\ UNCHANGED <<app, udp>>
      BY DEF LinkEof
<1>3. Only(conns, conns, n)
      BY <1>1, OnlyNothing
<1>. QED BY <1>2, <1>3, KillInv

\* A set of two.
LEMMA PairIs ==
  ASSUME NEW p, IsFiniteSet(p), Cardinality(p) = 2
  PROVE  LET a == CHOOSE a \in p : TRUE
             b == CHOOSE b \in p : b # a
         IN a \in p /\ b \in p /\ a # b /\ p = {a, b}
<1>. DEFINE a == CHOOSE a \in p : TRUE
            b == CHOOSE b \in p : b # a
<1>1. p # {}
      BY FS_EmptySet
<1>2. a \in p
      BY <1>1
<1>. HIDE DEF a
<1>3. IsFiniteSet(p \ {a}) /\ Cardinality(p \ {a}) = 1
      BY <1>2, FS_RemoveElement
<1>4. PICK x : p \ {a} = {x}
      BY <1>3, FS_Singleton, Zenon
<1>5. \E y \in p : y # a
      BY <1>4
<1>6. b \in p /\ b # a
      BY <1>5
<1>. HIDE DEF b
<1>7. p = {a, b}
      BY <1>2, <1>4, <1>6
<1>. QED BY <1>2, <1>6, <1>7 DEF a, b

\* The serial lines that there are: SetToSeq of the pairs has each of them.
LEMMA PairsAre ==
  ASSUME NEW pairs, pairs = SetToSeq({p \in SUBSET Nodes : Cardinality(p) = 2})
  PROVE  /\ pairs \in Seq({p \in SUBSET Nodes : Cardinality(p) = 2})
         /\ \A a, b \in Nodes : a # b => \E k \in DOMAIN pairs : pairs[k] = {a, b}
<1>. DEFINE P == {p \in SUBSET Nodes : Cardinality(p) = 2}
            c == Cardinality(P)
<1>1. IsFiniteSet(P)
  <2>1. IsFiniteSet(SUBSET Nodes)
        BY OpenAssumption, FS_SUBSET
  <2>. QED BY <2>1, FS_Subset
<1>2. \A a, b \in Nodes : a # b => {a, b} \in P
  <2> SUFFICES ASSUME NEW a \in Nodes, NEW b \in Nodes, a # b PROVE Cardinality({a, b}) = 2
      OBVIOUS
  <2>1. IsFiniteSet({a}) /\ Cardinality({a}) = 1
        BY FS_Singleton, Zenon
  <2>2. b \notin {a}
        OBVIOUS
  <2>. DEFINE A == {a}
              B == A \cup {b}
  <2>3. IsFiniteSet(A) /\ Cardinality(A) = 1 /\ b \notin A
        BY <2>1, <2>2
  <2>. HIDE DEF A
  <2>4. Cardinality(B) = 2
        BY <2>3, FS_AddElement
  <2>5. B = {a, b}
        BY DEF A
  <2>. HIDE DEF B
  <2>. QED BY <2>4, <2>5
<1>3. pairs = SetToSeq(P)
      OBVIOUS
<1>. HIDE DEF P
<1>4. c \in Nat /\ ExistsBijection(1 .. c, P)
      BY <1>1, FS_CardinalityType
<1>5. \E f \in [1 .. c -> P] : IsInjective(f)
      BY <1>4 DEF ExistsBijection, Bijection, Injection
<1>6. pairs \in [1 .. c -> P] /\ IsInjective(pairs)
      BY <1>3, <1>5, Zenon DEF SetToSeq
<1>7. pairs \in Seq(P) /\ DOMAIN pairs = 1 .. c
      BY <1>4, <1>6, SeqDef
<1>8. pairs \in Injection(1 .. c, P)
      BY <1>6 DEF Injection
<1>9. Cardinality(1 .. c) = c
      BY <1>4, FS_Interval
<1>10. pairs \in Surjection(1 .. c, P)
      BY <1>1, <1>8, <1>9, FS_Injection
<1>11. \A x \in P : \E k \in 1 .. c : pairs[k] = x
      BY <1>10 DEF Surjection
<1>12. \A a, b \in Nodes : a # b => \E k \in DOMAIN pairs : pairs[k] = {a, b}
      BY <1>2, <1>7, <1>11, Zenon
<1>. QED BY <1>7, <1>12, Zenon DEF P

LEMMA InitInv == Init => OpenInv
<1> SUFFICES ASSUME Init PROVE OpenInv
    OBVIOUS
<1>1. PICK size \in [Nodes -> UNION {PoolSizes(n) : n \in Nodes}] :
        /\ \A n \in Nodes : size[n] \in PoolSizes(n)
        /\ mem = [n \in Nodes |-> [free |-> [i \in 1 .. size[n] |-> i], heap |-> [i \in 1 .. size[n] |-> Unused]]]
      BY Zenon DEF Init
<1>2. /\ sock = [n \in Nodes |-> Closed] /\ app = [n \in Nodes |-> Idle] /\ chk = [n \in Nodes |-> NoCheck]
      /\ udp = {}
      BY DEF Init
<1>. DEFINE pairs == SetToSeq({p \in SUBSET Nodes : Cardinality(p) = 2})
<1>3. conns = [k \in DOMAIN pairs |-> LET a == CHOOSE a \in pairs[k] : TRUE IN
                 [kind |-> "dev", by |-> a, to |-> CHOOSE b \in pairs[k] : b # a, ends |-> {}, in |-> TRUE,
                  q |-> [n \in Nodes |-> <<>>]]]
      BY DEF Init
<1>4. /\ pairs \in Seq({p \in SUBSET Nodes : Cardinality(p) = 2})
      /\ \A a, b \in Nodes : a # b => \E k \in DOMAIN pairs : pairs[k] = {a, b}
      BY PairsAre, Zenon
<1>. HIDE DEF pairs
<1>5. Len(pairs) \in Nat /\ DOMAIN pairs = 1 .. Len(pairs)
      BY <1>4, LenProperties
<1>6. ASSUME NEW k \in DOMAIN pairs
      PROVE  /\ conns[k] \in Conns /\ conns[k].by # conns[k].to /\ conns[k].kind = "dev" /\ conns[k].in
             /\ conns[k].ends = {} /\ {conns[k].by, conns[k].to} = pairs[k]
  <2>. DEFINE p == pairs[k]
              a == CHOOSE a \in p : TRUE
              b == CHOOSE b \in p : b # a
              q == [n \in Nodes |-> <<>>]
  <2>1. p \in SUBSET Nodes /\ Cardinality(p) = 2
        BY <1>4, <1>5
  <2>2. conns[k] = [kind |-> "dev", by |-> a, to |-> b, ends |-> {}, in |-> TRUE, q |-> q]
        BY <1>3
  <2>. HIDE DEF p
  <2>3. IsFiniteSet(p)
        BY <2>1, OpenAssumption, FS_Subset
  <2>4. a \in p /\ b \in p /\ a # b /\ p = {a, b}
        BY <2>1, <2>3, PairIs
  <2>5. q \in [Nodes -> Seq(Msgs)]
        OBVIOUS
  <2>. HIDE DEF a, b, q
  <2>6. conns[k] \in Conns
        BY <2>1, <2>2, <2>4, <2>5 DEF Conns
  <2>. QED BY <2>2, <2>4, <2>6 DEF p
<1>7. DOMAIN conns = DOMAIN pairs /\ conns \in Seq(Conns)
  <2>1. conns = [k \in 1 .. Len(pairs) |-> conns[k]]
        BY <1>3, <1>5
  <2>2. conns \in [1 .. Len(pairs) -> Conns]
        BY <1>5, <1>6, <2>1
  <2>. QED BY <1>5, <2>2, SeqDef
<1>8. ConnInv
  <2>1. Apart(conns)
        BY <1>6, <1>7 DEF Apart
  <2>2. \A k \in DOMAIN pairs : conns[k].kind = "dev" /\ {conns[k].by, conns[k].to} = pairs[k]
        BY <1>6
  <2>3. Lines(conns)
    <3> SUFFICES ASSUME NEW a \in Nodes, NEW b \in Nodes, a # b
                 PROVE  \E k \in DOMAIN conns : conns[k].kind = "dev" /\ {conns[k].by, conns[k].to} = {a, b}
        BY Zenon DEF Lines
    <3>1. PICK k \in DOMAIN pairs : pairs[k] = {a, b}
          BY <1>4, Zenon
    <3>2. conns[k].kind = "dev" /\ {conns[k].by, conns[k].to} = {a, b} /\ k \in DOMAIN conns
          BY <1>7, <2>2, <3>1, Zenon
    <3>. QED BY <3>2
  <2>. QED BY <2>1, <2>3 DEF ConnInv
<1>9. \A n \in Nodes : EndsIn(conns, n) = {}
      BY <1>6, <1>7 DEF EndsIn
<1>10. ASSUME NEW n \in Nodes PROVE Node(mem[n], Closed, 0, {})
  <2>1. size[n] \in Nat
        BY <1>1, OpenAssumption
  <2>2. mem[n] = [free |-> [i \in 1 .. size[n] |-> i], heap |-> [i \in 1 .. size[n] |-> Unused]]
        BY <1>1
  <2>. QED BY <2>1, <2>2, ExitKeeps
<1>11. PoolInv
      BY <1>2, <1>9, <1>10, IdleIs, Zenon DEF PoolInv, NodeAt
<1>12. FlowInv
      BY <1>2, IdleIs DEF FlowInv, Flow
<1>13. Types
  <2>1. \A n \in Nodes : mem[n] \in Pools
        BY <1>10 DEF Node, FreeOk
  <2>2. mem \in [Nodes -> Pools]
        BY <1>1, <2>1
  <2>. QED BY <1>2, <1>7, <2>2, IdleIs DEF Types
<1>. QED BY <1>8, <1>11, <1>12, <1>13 DEF OpenInv

LEMMA NextInv == OpenInv /\ [Next]_vars => OpenInv'
<1> SUFFICES ASSUME OpenInv, [Next]_vars PROVE OpenInv'
    OBVIOUS
<1>1. ASSUME NEW n \in Nodes, SocketOpen(n) PROVE OpenInv'
      BY <1>1, SocketOpenInv
<1>2. ASSUME NEW n \in Nodes, SocketClose(n) PROVE OpenInv'
      BY <1>2, SocketCloseInv
<1>3. ASSUME NEW n \in Nodes, Exit(n) PROVE OpenInv'
      BY <1>3, ExitInv
<1>4. ASSUME NEW n \in Nodes, NEW o \in Opens(n), DeviceOpen(n, o) PROVE OpenInv'
      BY <1>4, DeviceOpenInv
<1>5. ASSUME NEW n \in Nodes, OpenDone(n) PROVE OpenInv'
      BY <1>5, OpenDoneInv
<1>6. ASSUME NEW n \in Nodes, OpenExpire(n) PROVE OpenInv'
      BY <1>6, OpenExpireInv
<1>7. ASSUME NEW n \in Nodes, NEW d \in Range(sock[n].devs), DeviceClose(n, d) PROVE OpenInv'
      BY <1>7, DeviceCloseInv
<1>8. ASSUME NEW n \in Nodes, Inside(n) PROVE OpenInv'
  <2>1. CASE CheckStart(n)
        BY <2>1, CheckStartInv
  <2>2. CASE CheckNext(n)
        BY <2>2, CheckNextInv
  <2>3. CASE LinkHeader(n)
        BY <2>3, LinkHeaderInv
  <2>4. CASE LinkRecords(n)
        BY <2>4, LinkRecordsInv
  <2>5. CASE LinkEof(n)
        BY <2>5, LinkEofInv
  <2>6. CASE CheckEnd(n)
        BY <2>6, CheckEndInv
  <2>7. ASSUME NEW sends \in BOOLEAN, DeviceNext(n, sends) PROVE OpenInv'
        BY <2>7, DeviceNextInv
  <2>8. ASSUME NEW k \in DOMAIN conns, Accept(n, k) PROVE OpenInv'
        BY <2>8, AcceptInv
  <2>9. ASSUME NEW p \in udp, NEW again \in BOOLEAN, TopLevel(n, p, again) PROVE OpenInv'
        BY <2>9, TopLevelInv
  <2>. QED BY <1>8, <2>1, <2>2, <2>3, <2>4, <2>5, <2>6, <2>7, <2>8, <2>9 DEF Inside
<1>9. ASSUME NEW p \in udp, Lose(p) PROVE OpenInv'
      BY <1>9, LoseInv
<1>10. CASE UNCHANGED vars
      BY <1>10, SameInv DEF vars
<1>. QED BY <1>1, <1>2, <1>3, <1>4, <1>5, <1>6, <1>7, <1>8, <1>9, <1>10 DEF Next

-----------------------------------------------------------------------------
(* What the invariant says of the properties that the runs check.          *)

LEMMA TypesFollow == OpenInv => TypeOK
<1> SUFFICES ASSUME OpenInv, NEW n \in Nodes
             PROVE  /\ app[n].pc = "probe" => app[n].dev \in Devices(n) /\ app[n].tries > 0
                    /\ {chk[n].at, chk[n].next} \subseteq Devices(n) \cup {0}
                    /\ chk[n].link # 0 => Item(n, chk[n].link) = Link(0)
                    /\ \A d \in Devices(n) : /\ Item(n, d).is = "device"
                                             /\ Item(n, d).link # 0 => Item(n, Item(n, d).link).is = "link"
                    /\ \A t \in Range(sock[n].trans) : Item(n, t).is = "transport"
    BY DEF TypeOK
<1>1. /\ NodeAt(n) /\ Flow(n)
      /\ sock[n].devs \in Seq(Nat) /\ IsInjective(sock[n].devs) /\ 0 \notin Range(sock[n].devs)
      BY InvIs
<1>. DEFINE m == mem[n]
            s == sock[n]
            l == chk[n].link
            E == EndsIn(conns, n)
<1>2. Node(m, s, l, E)
      BY <1>1 DEF NodeAt
<1>3. app[n].pc = "probe" => app[n].dev \in Devices(n) /\ app[n].tries > 0
      BY <1>1 DEF Flow, Devices
<1>4. {chk[n].at, chk[n].next} \subseteq Devices(n) \cup {0}
  <2>1. CASE chk[n].at = 0
        BY <1>1, <2>1 DEF Flow
  <2>2. CASE chk[n].at # 0
    <3>1. IsNext(sock[n].devs, chk[n].at, chk[n].next)
          BY <1>1, <2>2 DEF Flow
    <3>. QED BY <1>1, <3>1, NextStays DEF Devices
  <2>. QED BY <2>1, <2>2
<1>5. \A i : Item(n, i) = m.heap[i]
      BY DEF Item
<1>6. Devices(n) = Range(s.devs)
      BY DEF Devices
<1>. HIDE DEF m, s, l, E
<1>7. l # 0 => m.heap[l] = Link(0)
      BY <1>2, NodeIs
<1>8. \A d \in Range(s.devs) : /\ m.heap[d].is = "device"
                               /\ LinkOf(m, d) # 0 => m.heap[LinkOf(m, d)].is = "link"
      BY <1>2, NodeIs
<1>9. \A t \in Range(s.trans) : m.heap[t].is = "transport"
      BY <1>2, NodeIs
<1>10. \A d \in Devices(n) : /\ Item(n, d).is = "device"
                             /\ Item(n, d).link # 0 => Item(n, Item(n, d).link).is = "link"
      BY <1>5, <1>6, <1>8 DEF LinkOf
<1>11. chk[n].link # 0 => Item(n, chk[n].link) = Link(0)
      BY <1>5, <1>7 DEF l
<1>12. \A t \in Range(sock[n].trans) : Item(n, t).is = "transport"
      BY <1>5, <1>9 DEF s
<1>. QED BY <1>3, <1>4, <1>10, <1>11, <1>12

\* Joined sequences that have no item in common.
LEMMA OnceJoined ==
  ASSUME NEW s \in Seq(Nat), NEW t \in Seq(Nat), Once(s), Once(t), Range(s) \cap Range(t) \subseteq {0}
  PROVE  s \o t \in Seq(Nat) /\ Range(s \o t) = Range(s) \cup Range(t) /\ Once(s \o t)
<1>1. s \o t \in Seq(Nat) /\ Range(s \o t) = Range(s) \cup Range(t)
      BY ConcatIs
<1>2. /\ Len(s) \in Nat /\ Len(t) \in Nat
      /\ DOMAIN s = 1 .. Len(s) /\ DOMAIN t = 1 .. Len(t) /\ DOMAIN (s \o t) = 1 .. Len(s) + Len(t)
      /\ \A i \in 1 .. Len(s) + Len(t) : (s \o t)[i] = IF i <= Len(s) THEN s[i] ELSE t[i - Len(s)]
      BY ConcatProperties, LenProperties
<1>3. /\ \A i \in 1 .. Len(s) : s[i] \in Range(s)
      /\ \A i \in 1 .. Len(t) : t[i] \in Range(t)
      BY <1>2, Zenon DEF Range
<1>. DEFINE q == s \o t
<1>. HIDE DEF q
<1>4. ASSUME NEW i \in DOMAIN q, NEW j \in DOMAIN q, q[i] = q[j], q[i] # 0 PROVE i = j
  <2>1. i \in 1 .. Len(s) + Len(t) /\ j \in 1 .. Len(s) + Len(t)
        BY <1>2 DEF q
  <2>2. /\ q[i] = IF i <= Len(s) THEN s[i] ELSE t[i - Len(s)]
        /\ q[j] = IF j <= Len(s) THEN s[j] ELSE t[j - Len(s)]
        BY <1>2, <2>1 DEF q
  <2>3. CASE i <= Len(s) /\ j <= Len(s)
    <3>1. i \in DOMAIN s /\ j \in DOMAIN s
          BY <1>2, <2>1, <2>3
    <3>2. q[i] = s[i] /\ q[j] = s[j]
          BY <2>2, <2>3
    <3>. QED BY <1>4, <3>1, <3>2, Zenon DEF Once
  <2>4. CASE i > Len(s) /\ j > Len(s)
    <3>1. i - Len(s) \in DOMAIN t /\ j - Len(s) \in DOMAIN t
          BY <1>2, <2>1, <2>4
    <3>2. ~(i <= Len(s)) /\ ~(j <= Len(s))
          BY <1>2, <2>1, <2>4
    <3>3. q[i] = t[i - Len(s)] /\ q[j] = t[j - Len(s)]
          BY <2>2, <3>2
    <3>4. i - Len(s) = j - Len(s)
          BY <1>4, <3>1, <3>3, Zenon DEF Once
    <3>. QED BY <1>2, <2>1, <3>4
  <2>5. CASE i <= Len(s) /\ j > Len(s)
    <3>1. i \in 1 .. Len(s) /\ j - Len(s) \in 1 .. Len(t) /\ q[i] = s[i] /\ q[j] = t[j - Len(s)]
          BY <1>2, <2>1, <2>2, <2>5
    <3>2. q[i] \in Range(s) \cap Range(t)
          BY <1>3, <1>4, <3>1, Zenon
    <3>. QED BY <1>4, <3>2
  <2>6. CASE i > Len(s) /\ j <= Len(s)
    <3>1. j \in 1 .. Len(s) /\ i - Len(s) \in 1 .. Len(t) /\ q[j] = s[j] /\ q[i] = t[i - Len(s)]
          BY <1>2, <2>1, <2>2, <2>6
    <3>2. q[i] \in Range(s) \cap Range(t)
          BY <1>3, <1>4, <3>1
    <3>. QED BY <1>4, <3>2
  <2>. QED BY <1>2, <2>1, <2>3, <2>4, <2>5, <2>6
<1>5. Once(q)
      BY <1>4 DEF Once
<1>. QED BY <1>1, <1>5 DEF q

\* All the items of a pool, by who holds them.
Placed(m, s, l) ==
  <<s.self, s.aux, l>> \o s.trans \o s.devs \o [i \in DOMAIN s.devs |-> LinkOf(m, s.devs[i])] \o m.free
LEMMA PlacedIs ==
  ASSUME NEW m, NEW s, NEW l, NEW E, Node(m, s, l, E)
  PROVE  Once(Placed(m, s, l)) /\ Range(Placed(m, s, l)) \ {0} = DOMAIN m.heap
<1>. DEFINE own == <<s.self, s.aux, l>>
            t == s.trans
            d == s.devs
            links == [i \in DOMAIN d |-> LinkOf(m, d[i])]
            f == m.free
            L == {LinkOf(m, e) : e \in Range(d)}
<1>1. FreeOk(m) /\ s \in Socks /\ l \in Nat /\ Parts(m, s, l)
      BY DEF Node
<1>2. t \in Seq(Nat) /\ d \in Seq(Nat) /\ f \in Seq(Nat) /\ s.self \in Nat /\ s.aux \in Nat
      BY <1>1 DEF Socks, FreeOk, Pools
<1>3. /\ IsInjective(t) /\ Range(t) = Are(m, "transport")
      /\ IsInjective(d) /\ Range(d) = Are(m, "device")
      /\ {s.self} \ {0} = Are(m, "socket") /\ {s.aux} \ {0} = Are(m, "aux")
      /\ ({l} \cup L) \ {0} = Are(m, "link")
      /\ \A x, y \in Range(d) : LinkOf(m, x) = LinkOf(m, y) /\ LinkOf(m, x) # 0 => x = y
      /\ \A x \in Range(d) : LinkOf(m, x) = l => l = 0
      /\ IsInjective(f) /\ Range(f) = Are(m, "free")
      BY <1>1 DEF Parts, FreeOk
<1>4. \A x \in Range(d) : LinkOf(m, x) \in Nat
      BY NodeIs
<1>5. 0 \notin DOMAIN m.heap /\ \A i \in DOMAIN m.heap : m.heap[i] \in Items
      BY <1>1, PoolIs
<1>6. \A i \in DOMAIN m.heap : m.heap[i].is \in {"free", "socket", "aux", "transport", "link", "device"}
      BY <1>5, ItemIs
<1>7. DOMAIN m.heap = Are(m, "free") \cup Are(m, "socket") \cup Are(m, "aux") \cup Are(m, "transport")
                      \cup Are(m, "link") \cup Are(m, "device")
      BY <1>6 DEF Are
<1>8. \A j, k \in {"free", "socket", "aux", "transport", "link", "device"} : j # k => Are(m, j) \cap Are(m, k) = {}
      BY DEF Are
<1>9. 0 \notin Are(m, "transport") /\ 0 \notin Are(m, "device") /\ 0 \notin Are(m, "free")
      BY <1>5 DEF Are
<1>10. own \in Seq(Nat) /\ Len(own) = 3 /\ own[1] = s.self /\ own[2] = s.aux /\ own[3] = l /\ Range(own) = {s.self, s.aux, l}
  <2>1. own \in Seq(Nat) /\ Len(own) = 3 /\ DOMAIN own = 1 .. 3 /\ own[1] = s.self /\ own[2] = s.aux /\ own[3] = l
        BY <1>1, <1>2
  <2>. HIDE DEF own
  <2>2. \A i \in DOMAIN own : i \in {1, 2, 3}
        BY <2>1
  <2>3. 1 \in DOMAIN own /\ 2 \in DOMAIN own /\ 3 \in DOMAIN own
        BY <2>1
  <2>4. Range(own) = {s.self, s.aux, l}
        BY <2>1, <2>2, <2>3 DEF Range
  <2>. QED BY <2>1, <2>4
<1>11. links \in Seq(Nat) /\ DOMAIN links = DOMAIN d /\ Range(links) = L
  <2>1. Len(d) \in Nat /\ DOMAIN d = 1 .. Len(d)
        BY <1>2, LenProperties
  <2>2. \A i \in DOMAIN d : d[i] \in Range(d)
        BY DEF Range
  <2>3. links \in [1 .. Len(d) -> Nat]
        BY <1>4, <2>1, <2>2
  <2>4. links \in Seq(Nat)
        BY <2>1, <2>3, SeqDef
  <2>. QED BY <2>1, <2>4, Zenon DEF Range
<1>21. L \cap {l} \subseteq {0}
      BY <1>3
<1>12. Once(links)
  <2> SUFFICES ASSUME NEW i \in DOMAIN d, NEW j \in DOMAIN d, LinkOf(m, d[i]) = LinkOf(m, d[j]), LinkOf(m, d[i]) # 0
               PROVE  i = j
      BY DEF Once
  <2>1. d[i] \in Range(d) /\ d[j] \in Range(d)
        BY DEF Range
  <2>2. d[i] = d[j]
        BY <1>3, <2>1
  <2>. QED BY <1>3, <2>2 DEF IsInjective
<1>. HIDE DEF own, t, d, links, f, L
<1>13. Once(t) /\ Once(d) /\ Once(f)
      BY <1>3 DEF Once, IsInjective
<1>14. Once(own)
  <2>1. DOMAIN own = {1, 2, 3}
    <3>1. DOMAIN own = 1 .. 3
          BY <1>10, LenProperties
    <3>. QED BY <3>1
  <2>2. s.self # 0 => s.self # s.aux /\ s.self # l
        BY <1>3, <1>8
  <2>3. s.aux # 0 => s.aux # l
        BY <1>3, <1>8
  <2>. QED BY <1>10, <2>1, <2>2, <2>3 DEF Once
<1>15. own \o t \in Seq(Nat) /\ Range(own \o t) = Range(own) \cup Range(t) /\ Once(own \o t)
  <2>1. Range(own) \cap Range(t) \subseteq {0}
        BY <1>3, <1>8, <1>10
  <2>. QED BY <1>2, <1>10, <1>13, <1>14, <2>1, OnceJoined
<1>. DEFINE q1 == own \o t
            q2 == q1 \o d
            q3 == q2 \o links
            q4 == q3 \o f
<1>16. q2 \in Seq(Nat) /\ Range(q2) = Range(own) \cup Range(t) \cup Range(d) /\ Once(q2)
  <2>1. Range(q1) \cap Range(d) \subseteq {0}
        BY <1>3, <1>8, <1>10, <1>15
  <2>. HIDE DEF q1
  <2>2. q1 \in Seq(Nat) /\ Once(q1) /\ Range(q1) = Range(own) \cup Range(t)
        BY <1>15 DEF q1
  <2>3. q1 \o d \in Seq(Nat) /\ Range(q1 \o d) = Range(q1) \cup Range(d) /\ Once(q1 \o d)
        BY <1>2, <1>13, <2>1, <2>2, OnceJoined
  <2>. QED BY <2>2, <2>3
<1>. HIDE DEF q1, q2
<1>17. q3 \in Seq(Nat) /\ Range(q3) = Range(own) \cup Range(t) \cup Range(d) \cup L /\ Once(q3)
  <2>1. Range(links) \ {0} \subseteq Are(m, "link")
        BY <1>3, <1>11
  <2>3. (Range(t) \cup Range(d) \cup ({s.self, s.aux} \ {0})) \cap Are(m, "link") = {}
        BY <1>3, <1>8
  <2>4. Range(q2) \cap Range(links) \subseteq {0}
        BY <1>10, <1>11, <1>16, <1>21, <2>1, <2>3
  <2>2. q2 \o links \in Seq(Nat) /\ Range(q2 \o links) = Range(q2) \cup Range(links) /\ Once(q2 \o links)
        BY <1>11, <1>12, <1>16, <2>4, OnceJoined
  <2>. QED BY <1>11, <1>16, <2>2
<1>. HIDE DEF q3
<1>18. Range(q4) = Range(own) \cup Range(t) \cup Range(d) \cup L \cup Range(f) /\ Once(q4)
  <2>1. Range(q3) \cap Range(f) \subseteq {0}
        BY <1>3, <1>8, <1>10, <1>17
  <2>2. q3 \o f \in Seq(Nat) /\ Range(q3 \o f) = Range(q3) \cup Range(f) /\ Once(q3 \o f)
        BY <1>2, <1>13, <1>17, <2>1, OnceJoined
  <2>. QED BY <1>17, <2>2
<1>. HIDE DEF q4
<1>19. Placed(m, s, l) = q4
      BY DEF Placed, own, t, d, links, f, q1, q2, q3, q4
<1>20. Range(q4) \ {0} = DOMAIN m.heap
      BY <1>3, <1>5, <1>7, <1>9, <1>10, <1>18
<1>. QED BY <1>18, <1>19, <1>20

LEMMA NothingLeaksFollows == OpenInv => NothingLeaks
<1> SUFFICES ASSUME OpenInv, NEW n \in Nodes
             PROVE  /\ Once(Held(n) \o mem[n].free)
                    /\ Range(Held(n) \o mem[n].free) \ {0} = DOMAIN mem[n].heap
                    /\ \A k \in DOMAIN conns : n \in conns[k].ends <=> \E d \in Devices(n) : ConnOf(n, d) = k
    BY DEF NothingLeaks
<1>1. Node(mem[n], sock[n], chk[n].link, EndsIn(conns, n)) /\ conns \in Seq(Conns)
      BY InvIs DEF NodeAt
<1>2. Held(n) \o mem[n].free = Placed(mem[n], sock[n], chk[n].link)
      BY DEF Held, Placed, Item, LinkOf
<1>3. Once(Placed(mem[n], sock[n], chk[n].link))
      /\ Range(Placed(mem[n], sock[n], chk[n].link)) \ {0} = DOMAIN mem[n].heap
      BY <1>1, PlacedIs
<1>4. {ConnAt(mem[n], d) : d \in Devices(n)} \ {0} = EndsIn(conns, n)
      BY <1>1 DEF Node, Wired, Devices
<1>5. \A d \in Devices(n) : ConnOf(n, d) = ConnAt(mem[n], d)
      BY DeviceIs DEF Devices
<1>6. \A k \in DOMAIN conns : k # 0
      BY <1>1, ConnIs
<1>7. ASSUME NEW k \in DOMAIN conns PROVE n \in conns[k].ends <=> \E d \in Devices(n) : ConnOf(n, d) = k
  <2>1. n \in conns[k].ends <=> k \in EndsIn(conns, n)
        BY DEF EndsIn
  <2>2. k \in EndsIn(conns, n) <=> \E d \in Devices(n) : ConnAt(mem[n], d) = k
        BY <1>4, <1>6
  <2>. QED BY <1>5, <2>1, <2>2
<1>. QED BY <1>2, <1>3, <1>7

-----------------------------------------------------------------------------
\* At every moment the items of each pool are with their holders and the connections
\* with their devices, a check is where it may be, and two nodes have a line.
THEOREM OpenInvariant == Spec => []OpenInv
BY InitInv, NextInv, PTL DEF Spec

\* Items have their types, and eb_socket_check looks only at devices that are open, also
\* when it has closed the one before (socket.c:418-433).
THEOREM TypeCorrect == Spec => []TypeOK
BY OpenInvariant, TypesFollow, PTL

\* Every item of a pool is free or held once, and the open connections of a node are those
\* of its devices: whatever fails, at whatever point the pool is empty, whichever device
\* eb_socket_check closes, and when the program ends (array.c:36-57, socket.c:78-146,
\* device.c:50-165, slave.c:451-464).
THEOREM PoolsNeverLeak == Spec => []NothingLeaks
BY OpenInvariant, NothingLeaksFollows, PTL

-----------------------------------------------------------------------------
(* Both ends of a connection agree.                                        *)

\* A device d of pool m, when its program does p: [conn, kind, passive, widths] and, while
\* it waits for the answer to its probe, what it wants.
Seen(m, p, d) ==
  [dev |-> d, conn |-> ConnAt(m, d), kind |-> m.heap[d].kind, passive |-> m.heap[d].passive,
   widths |-> m.heap[d].widths, asks |-> p.dev = d, want |-> IF p.dev = d THEN p.want ELSE None]
View(m, s, p) == {Seen(m, p, d) : d \in Range(s.devs)}
Views == [n \in Nodes |-> View(mem[n], sock[n], app[n])]

Heard(c, n) == Range(c.q[n])

\* A device x of node n: an open one has chosen widths, one that waits asks for some of its
\* socket's; its connection is of its kind, and one that accepted it is passive.
Sound(x, n, cs) ==
  /\ ~x.passive /\ ~x.asks => Refined(x.widths) /\ Meet(x.widths, Widths[n]) = x.widths
  /\ x.asks => ~x.passive /\ Meet(x.want, Widths[n]) = x.want
  /\ x.conn # 0 => /\ x.conn \in DOMAIN cs /\ x.kind = cs[x.conn].kind /\ n \in {cs[x.conn].by, cs[x.conn].to}
                   /\ x.kind = "tcp" /\ n = cs[x.conn].to => x.passive /\ cs[x.conn].in

\* Node b answers probes; node a, which connected, sends one probe and then data.
Messages(c) ==
  /\ \A m \in Heard(c, c.to) : m.t # "resp" /\ (m.t = "data" => c.in /\ m.w # None)
  /\ \A m \in Heard(c, c.by) : m.t = "resp" /\ m.w = Widths[c.to]
\* y at the accepting end understands the data on their way with its widths.
Understood(c, y) == \A m \in Heard(c, c.to) : m.t = "data" => m.w = y.widths
\* x at the connecting end waits: nobody has sent it anything before y knew its widths.
Waits(c, x, Ys) ==
  /\ \A m \in Heard(c, c.to) : m.t = "probe" /\ m.w = x.want
  /\ x.widths \in {None, Widths[c.to]}
  /\ \A y \in Ys : y.widths \in {None, Negotiated(c.to, x.want)}
  /\ x.widths # None \/ Heard(c, c.by) # {} => c.in /\ \A y \in Ys : y.widths = Negotiated(c.to, x.want)
\* It is open.
Talks(c, x, Ys) == c.in /\ \A y \in Ys : y.widths = x.widths
Pair(c, Xs, Ys) ==
  /\ Messages(c) /\ \A y \in Ys : Understood(c, y)
  /\ \A x \in Xs : ~x.passive => IF x.asks THEN Waits(c, x, Ys) ELSE Talks(c, x, Ys)
On(S, k) == {x \in S : x.conn = k}
PairAt(V, cs, k) == cs[k].kind = "tcp" => Pair(cs[k], On(V[cs[k].by], k), On(V[cs[k].to], k))

Agree(V, cs) == /\ \A n \in Nodes : \A x \in V[n] : Sound(x, n, cs)
                /\ \A k \in DOMAIN cs : PairAt(V, cs, k)
Rests == \A n \in Nodes : app[n].pc = "idle" => app[n].dev = 0
AgreeInv == Rests /\ (stray \/ Agree(Views, conns))

-----------------------------------------------------------------------------
(* What keeps them in agreement.                                           *)

\* x is one of S, or one of them that lost its connection.
Thinner(x, S) ==
  x \in S \/ (x.conn = 0 /\ \E z \in S : /\ x.passive = z.passive /\ x.asks = z.asks
                                         /\ x.widths = z.widths /\ x.want = z.want)
\* Each device of node n is as it was, but for those that concern the connections K.
Kept(S, S2, n, c2, K) ==
  \A x \in S2 : Thinner(x, S) \/ (Sound(x, n, c2) /\ (x.conn # 0 => x.conn \in K))
\* On the other connections there is nothing new.
Quiet(cs, c2, K) ==
  /\ \A k \in DOMAIN cs : /\ k \in DOMAIN c2 /\ c2[k].kind = cs[k].kind /\ c2[k].by = cs[k].by /\ c2[k].to = cs[k].to
                          /\ cs[k].in => c2[k].in
  /\ \A k \in DOMAIN c2 \ K : /\ k \in DOMAIN cs
                              /\ \A n \in {cs[k].by, cs[k].to} : Heard(c2[k], n) \subseteq Heard(cs[k], n)

\* A device stays sound.
LEMMA SoundStays ==
  ASSUME NEW cs, NEW c2, NEW K, Quiet(cs, c2, K), NEW n, NEW S, \A x \in S : Sound(x, n, cs), NEW x, Thinner(x, S)
  PROVE  Sound(x, n, c2)
<1>1. CASE x \in S
  <2>1. Sound(x, n, cs)
        BY <1>1
  <2>. QED BY <2>1 DEF Sound, Quiet
<1>2. CASE x.conn = 0 /\ \E z \in S : x.passive = z.passive /\ x.asks = z.asks /\ x.widths = z.widths /\ x.want = z.want
  <2>1. PICK z \in S : x.passive = z.passive /\ x.asks = z.asks /\ x.widths = z.widths /\ x.want = z.want
        BY <1>2
  <2>2. Sound(z, n, cs)
        OBVIOUS
  <2>. QED BY <1>2, <2>1, <2>2 DEF Sound
<1>. QED BY <1>1, <1>2 DEF Thinner

\* With fewer devices and messages two ends still agree.
LEMMA PairStays ==
  ASSUME NEW c, NEW c2, c2.by = c.by, c2.to = c.to, c.in => c2.in,
         Heard(c2, c.by) \subseteq Heard(c, c.by), Heard(c2, c.to) \subseteq Heard(c, c.to),
         NEW X, NEW Y, NEW X2, NEW Y2, X2 \subseteq X, Y2 \subseteq Y, Pair(c, X, Y)
  PROVE  Pair(c2, X2, Y2)
<1>1. Messages(c2)
      BY DEF Pair, Messages
<1>2. \A y \in Y2 : Understood(c2, y)
      BY DEF Pair, Understood
<1>3. ASSUME NEW x \in X2, ~x.passive, x.asks PROVE Waits(c2, x, Y2)
  <2>1. Waits(c, x, Y)
        BY <1>3 DEF Pair
  <2>. QED BY <2>1 DEF Waits
<1>4. ASSUME NEW x \in X2, ~x.passive, ~x.asks PROVE Talks(c2, x, Y2)
  <2>1. Talks(c, x, Y)
        BY <1>4 DEF Pair
  <2>. QED BY <2>1 DEF Talks
<1>. QED BY <1>1, <1>2, <1>3, <1>4 DEF Pair

\* What changes only the devices and messages of K keeps the agreement if it does so there.
LEMMA AgreeStays ==
  ASSUME NEW V, NEW cs \in Seq(Conns), NEW V2, NEW c2 \in Seq(Conns), NEW K, Agree(V, cs), Quiet(cs, c2, K),
         \A n \in Nodes : Kept(V[n], V2[n], n, c2, K),
         \A k \in DOMAIN c2 : k \in K => PairAt(V2, c2, k)
  PROVE  Agree(V2, c2)
<1>1. ASSUME NEW n \in Nodes, NEW x \in V2[n] PROVE Sound(x, n, c2)
  <2>1. \A z \in V[n] : Sound(z, n, cs)
        BY DEF Agree
  <2>2. Kept(V[n], V2[n], n, c2, K)
        OBVIOUS
  <2>3. Thinner(x, V[n]) \/ Sound(x, n, c2)
        BY <2>2 DEF Kept
  <2>. QED BY <2>1, <2>3, SoundStays
<1>2. ASSUME NEW k \in DOMAIN c2, k \notin K, c2[k].kind = "tcp"
      PROVE  Pair(c2[k], On(V2[c2[k].by], k), On(V2[c2[k].to], k))
  <2>1. /\ k \in DOMAIN cs /\ c2[k].kind = cs[k].kind /\ c2[k].by = cs[k].by /\ c2[k].to = cs[k].to
        /\ cs[k].in => c2[k].in
        /\ Heard(c2[k], cs[k].by) \subseteq Heard(cs[k], cs[k].by)
        /\ Heard(c2[k], cs[k].to) \subseteq Heard(cs[k], cs[k].to)
        BY <1>2 DEF Quiet
  <2>2. c2[k].by \in Nodes /\ c2[k].to \in Nodes /\ k # 0
        BY ConnIs
  <2>3. ASSUME NEW n \in Nodes PROVE On(V2[n], k) \subseteq On(V[n], k)
    <3>1. Kept(V[n], V2[n], n, c2, K)
          OBVIOUS
    <3>. QED BY <1>2, <2>2, <3>1 DEF Kept, On, Thinner
  <2>4. Pair(cs[k], On(V[cs[k].by], k), On(V[cs[k].to], k))
        BY <1>2, <2>1 DEF Agree, PairAt
  <2>5. On(V2[cs[k].by], k) \subseteq On(V[cs[k].by], k) /\ On(V2[cs[k].to], k) \subseteq On(V[cs[k].to], k)
        BY <2>1, <2>2, <2>3, Zenon
  <2>6. Pair(c2[k], On(V2[cs[k].by], k), On(V2[cs[k].to], k))
        BY <2>1, <2>4, <2>5, PairStays
  <2>. QED BY <2>1, <2>6
<1>. QED BY <1>1, <1>2 DEF Agree, PairAt

-----------------------------------------------------------------------------
(* What a node does to its devices.                                        *)

\* The devices of the list s2, but for those of D, are in the list s with the same state.
Inherits(m, s, m2, s2, D) ==
  \A d \in Range(s2.devs) \ D : /\ d \in Range(s.devs) /\ m2.heap[d] = m.heap[d]
                                /\ LinkOf(m, d) # 0 => m2.heap[LinkOf(m, d)] = m.heap[LinkOf(m, d)]
\* The program waits for the same answer.
SameAsk(p, p2, ds) == \A d \in ds : (p2.dev = d <=> p.dev = d) /\ (p.dev = d => p2.want = p.want)

\* Items are taken, or eb_socket_check's link changes.
LEMMA FreeInherits ==
  ASSUME NEW m, NEW s, NEW l, NEW E, Node(m, s, l, E), NEW m2,
         \A i \in DOMAIN m.heap : m.heap[i].is # "free" /\ i # l => m2.heap[i] = m.heap[i],
         NEW s2, NEW D, Range(s2.devs) \ D \subseteq Range(s.devs)
  PROVE  Inherits(m, s, m2, s2, D)
<1>1. ASSUME NEW d \in Range(s.devs)
      PROVE  m2.heap[d] = m.heap[d] /\ (LinkOf(m, d) # 0 => m2.heap[LinkOf(m, d)] = m.heap[LinkOf(m, d)])
  <2>1. /\ d \in DOMAIN m.heap /\ m.heap[d].is = "device"
        /\ LinkOf(m, d) # 0 => LinkOf(m, d) \in DOMAIN m.heap /\ m.heap[LinkOf(m, d)].is = "link"
        /\ l # 0 => m.heap[l].is = "link"
        /\ 0 \notin DOMAIN m.heap
        BY NodeIs
  <2>2. LinkOf(m, d) = l => l = 0
        BY DEF Node, Parts
  <2>. QED BY <2>1, <2>2
<1>. QED BY <1>1 DEF Inherits

\* A device and its link change or go.
LEMMA CloseInherits ==
  ASSUME NEW m, NEW s, NEW l, NEW E, Node(m, s, l, E), NEW d \in Range(s.devs), NEW m2,
         \A i \in DOMAIN m.heap : i # d /\ i # LinkOf(m, d) => m2.heap[i] = m.heap[i],
         NEW s2, NEW D, Range(s2.devs) \ D \subseteq Range(s.devs) \ {d}
  PROVE  Inherits(m, s, m2, s2, D)
<1>1. ASSUME NEW e \in Range(s.devs), e # d
      PROVE  m2.heap[e] = m.heap[e] /\ (LinkOf(m, e) # 0 => m2.heap[LinkOf(m, e)] = m.heap[LinkOf(m, e)])
  <2>1. /\ \A x \in {d, e} : /\ x \in DOMAIN m.heap /\ m.heap[x].is = "device"
                             /\ LinkOf(m, x) # 0 => LinkOf(m, x) \in DOMAIN m.heap /\ m.heap[LinkOf(m, x)].is = "link"
        /\ 0 \notin DOMAIN m.heap
        BY NodeIs
  <2>2. LinkOf(m, e) = LinkOf(m, d) => LinkOf(m, e) = 0
        BY <1>1 DEF Node, Parts
  <2>. QED BY <1>1, <2>1, <2>2
<1>. QED BY <1>1 DEF Inherits

LEMMA SeenStays ==
  ASSUME NEW m, NEW m2, NEW d, m2.heap[d] = m.heap[d],
         LinkOf(m, d) # 0 => m2.heap[LinkOf(m, d)] = m.heap[LinkOf(m, d)],
         NEW p, NEW p2, SameAsk(p, p2, {d})
  PROVE  Seen(m2, p2, d) = Seen(m, p, d)
<1>1. ConnAt(m2, d) = ConnAt(m, d)
      BY DEF ConnAt, LinkOf
<1>2. (p2.dev = d <=> p.dev = d) /\ (p.dev = d => p2.want = p.want)
      BY DEF SameAsk
<1>3. (p2.dev = d) = (p.dev = d)
      BY <1>2
<1>. QED BY <1>1, <1>2, <1>3 DEF Seen

\* Only the devices D are to be looked at.
LEMMA InheritsKept ==
  ASSUME NEW m, NEW s, NEW m2, NEW s2, NEW D, Inherits(m, s, m2, s2, D),
         NEW p, NEW p2, SameAsk(p, p2, Range(s2.devs) \ D),
         NEW n, NEW c2, NEW K,
         \A d \in D : d \in Range(s2.devs) =>
           \/ Thinner(Seen(m2, p2, d), View(m, s, p))
           \/ Sound(Seen(m2, p2, d), n, c2) /\ (ConnAt(m2, d) # 0 => ConnAt(m2, d) \in K)
  PROVE  Kept(View(m, s, p), View(m2, s2, p2), n, c2, K)
<1>1. ASSUME NEW d \in Range(s2.devs), d \notin D PROVE Seen(m2, p2, d) \in View(m, s, p)
  <2>1. /\ d \in Range(s.devs) /\ m2.heap[d] = m.heap[d]
        /\ LinkOf(m, d) # 0 => m2.heap[LinkOf(m, d)] = m.heap[LinkOf(m, d)]
        BY <1>1 DEF Inherits
  <2>2. SameAsk(p, p2, {d})
        BY <1>1 DEF SameAsk
  <2>3. Seen(m2, p2, d) = Seen(m, p, d)
        BY <2>1, <2>2, SeenStays
  <2>. QED BY <2>1, <2>3 DEF View
<1>2. \A d : Seen(m2, p2, d).conn = ConnAt(m2, d)
      BY DEF Seen
<1>3. ASSUME NEW x \in View(m2, s2, p2)
      PROVE  Thinner(x, View(m, s, p)) \/ (Sound(x, n, c2) /\ (x.conn # 0 => x.conn \in K))
  <2>1. PICK d \in Range(s2.devs) : x = Seen(m2, p2, d)
        BY DEF View
  <2>2. CASE d \in D
        BY <1>2, <2>1, <2>2
  <2>3. CASE d \notin D
        BY <1>1, <2>1, <2>3 DEF Thinner
  <2>. QED BY <2>2, <2>3
<1>. QED BY <1>3 DEF Kept

\* Nodes that do nothing stay in agreement.
ViewAt(n) == View(mem[n], sock[n], app[n])
LEMMA OneAgrees ==
  ASSUME OpenInv, OpenInv', Agree(Views, conns), NEW n \in Nodes,
         mem' = [mem EXCEPT ![n] = mem'[n]], sock' = [sock EXCEPT ![n] = sock'[n]], app' = [app EXCEPT ![n] = app'[n]],
         NEW K, Quiet(conns, conns', K), Kept(ViewAt(n), ViewAt(n)', n, conns', K),
         \A k \in DOMAIN conns' : k \in K => PairAt(Views', conns', k)
  PROVE  Agree(Views', conns')
<1>1. conns \in Seq(Conns) /\ conns' \in Seq(Conns)
      BY DEF OpenInv, Types
<1>2. /\ mem \in [Nodes -> Pools] /\ sock \in [Nodes -> Socks] /\ app \in [Nodes -> Apps]
      BY DEF OpenInv, Types
<1>3. ASSUME NEW o \in Nodes PROVE Kept(Views[o], Views'[o], o, conns', K)
  <2>1. Views[o] = View(mem[o], sock[o], app[o])
        BY DEF Views
  <2>2. Views'[o] = View(mem'[o], sock'[o], app'[o])
        BY DEF Views
  <2>3. CASE o = n
        BY <2>1, <2>2, <2>3 DEF ViewAt
  <2>4. CASE o # n
    <3>1. mem'[o] = mem[o] /\ sock'[o] = sock[o] /\ app'[o] = app[o]
          BY <1>2, <2>4
    <3>2. Views'[o] = Views[o]
          BY <2>1, <2>2, <3>1
    <3>. QED BY <3>2 DEF Kept, Thinner
  <2>. QED BY <2>3, <2>4
<1>. HIDE DEF Views
<1>. QED BY <1>1, <1>3, AgreeStays

-----------------------------------------------------------------------------
(* What a node does to the connections.                                    *)

LEMMA QuietOne ==
  ASSUME NEW cs \in Seq(Conns), NEW k \in DOMAIN cs, NEW x, NEW K,
         x.kind = cs[k].kind, x.by = cs[k].by, x.to = cs[k].to, cs[k].in => x.in,
         k \in K \/ \A n \in {cs[k].by, cs[k].to} : Heard(x, n) \subseteq Heard(cs[k], n)
  PROVE  Quiet(cs, [cs EXCEPT ![k] = x], K)
BY DEF Quiet

LEMMA QuietSame ==
  ASSUME NEW cs, NEW K
  PROVE  Quiet(cs, cs, K)
BY DEF Quiet

LEMMA QuietMore ==
  ASSUME NEW cs, NEW c2, NEW K, NEW L, Quiet(cs, c2, K), K \subseteq L
  PROVE  Quiet(cs, c2, L)
BY DEF Quiet

LEMMA QuietTwice ==
  ASSUME NEW cs, NEW c2, NEW c3, NEW K, Quiet(cs, c2, K), Quiet(c2, c3, K)
  PROVE  Quiet(cs, c3, K)
<1>1. \A k \in DOMAIN cs : /\ k \in DOMAIN c3 /\ c3[k].kind = cs[k].kind /\ c3[k].by = cs[k].by /\ c3[k].to = cs[k].to
                           /\ cs[k].in => c3[k].in
      BY DEF Quiet
<1>2. ASSUME NEW k \in DOMAIN c3 \ K
      PROVE  k \in DOMAIN cs /\ \A n \in {cs[k].by, cs[k].to} : Heard(c3[k], n) \subseteq Heard(cs[k], n)
  <2>1. /\ k \in DOMAIN c2 \ K
        /\ Heard(c3[k], c2[k].by) \subseteq Heard(c2[k], c2[k].by) /\ Heard(c3[k], c2[k].to) \subseteq Heard(c2[k], c2[k].to)
        BY <1>2 DEF Quiet
  <2>2. /\ k \in DOMAIN cs /\ c2[k].by = cs[k].by /\ c2[k].to = cs[k].to
        /\ Heard(c2[k], cs[k].by) \subseteq Heard(cs[k], cs[k].by) /\ Heard(c2[k], cs[k].to) \subseteq Heard(cs[k], cs[k].to)
        BY <2>1 DEF Quiet
  <2>3. /\ Heard(c3[k], cs[k].by) \subseteq Heard(cs[k], cs[k].by)
        /\ Heard(c3[k], cs[k].to) \subseteq Heard(cs[k], cs[k].to)
        BY <2>1, <2>2
  <2>. QED BY <2>2, <2>3
<1>. QED BY <1>1, <1>2, Zenon DEF Quiet

\* recv takes a message away.
LEMMA TakeIs ==
  ASSUME NEW cs \in Seq(Conns), NEW n \in Nodes, NEW k \in DOMAIN cs, cs[k].q[n] # <<>>, NEW K
  PROVE  LET c2 == [cs EXCEPT ![k].q[n] = Tail(@)]
         IN /\ Quiet(cs, c2, K) /\ DOMAIN c2 = DOMAIN cs /\ Head(cs[k].q[n]) \in Heard(cs[k], n)
            /\ c2[k].kind = cs[k].kind /\ c2[k].by = cs[k].by /\ c2[k].to = cs[k].to /\ c2[k].in = cs[k].in
            /\ \A o \in Nodes : Heard(c2[k], o) \subseteq Heard(cs[k], o)
<1>. DEFINE q2 == [cs[k].q EXCEPT ![n] = Tail(@)]
            x == [cs[k] EXCEPT !.q = q2]
<1>1. [cs EXCEPT ![k].q[n] = Tail(@)] = [cs EXCEPT ![k] = x]
      OBVIOUS
<1>2. cs[k] \in Conns /\ cs[k].q \in [Nodes -> Seq(Msgs)] /\ cs[k].by \in Nodes /\ cs[k].to \in Nodes
      BY ConnIs
<1>3. cs[k].q[n] \in Seq(Msgs)
      BY <1>2
<1>4. Range(Tail(cs[k].q[n])) \subseteq Range(cs[k].q[n]) /\ Head(cs[k].q[n]) \in Range(cs[k].q[n])
  <2>. DEFINE s == cs[k].q[n]
  <2>1. s \in Seq(Msgs) /\ s # <<>>
        BY <1>3
  <2>. HIDE DEF s
  <2>2. /\ Len(s) \in Nat \ {0} /\ Head(s) = s[1] /\ Tail(s) \in Seq(Msgs) /\ Len(Tail(s)) = Len(s) - 1
        /\ \A i \in 1 .. Len(s) - 1 : Tail(s)[i] = s[i + 1]
        BY <2>1, HeadTailIs
  <2>3. /\ \A y : y \in Range(s) <=> \E i \in 1 .. Len(s) : s[i] = y
        /\ \A y : y \in Range(Tail(s)) <=> \E i \in 1 .. Len(Tail(s)) : Tail(s)[i] = y
    <3>. DEFINE u == Tail(s)
    <3>1. u \in Seq(Msgs)
          BY <2>2
    <3>. HIDE DEF u
    <3>2. \A y : y \in Range(u) <=> \E i \in 1 .. Len(u) : u[i] = y
          BY <3>1, RangeIs, Zenon
    <3>3. \A y : y \in Range(s) <=> \E i \in 1 .. Len(s) : s[i] = y
          BY <2>1, RangeIs, Zenon
    <3>. QED BY <3>2, <3>3 DEF u
  <2>4. Head(s) \in Range(s)
        BY <2>2, <2>3
  <2>5. ASSUME NEW y \in Range(Tail(s)) PROVE y \in Range(s)
    <3>1. PICK i \in 1 .. Len(s) - 1 : s[i + 1] = y
          BY <2>2, <2>3
    <3>2. i + 1 \in 1 .. Len(s)
          BY <2>2
    <3>. QED BY <2>3, <3>1, <3>2
  <2>6. Range(Tail(s)) \subseteq Range(s)
        BY <2>5
  <2>. QED BY <2>4, <2>6 DEF s
<1>5. x.kind = cs[k].kind /\ x.by = cs[k].by /\ x.to = cs[k].to /\ x.in = cs[k].in /\ x.q = q2
      BY <1>2 DEF Conns
<1>6. \A o \in Nodes : q2[o] = IF o = n THEN Tail(cs[k].q[n]) ELSE cs[k].q[o]
      BY <1>2
<1>. HIDE DEF q2, x
<1>7. \A o \in Nodes : Heard(x, o) \subseteq Heard(cs[k], o)
      BY <1>4, <1>5, <1>6 DEF Heard
<1>8. Quiet(cs, [cs EXCEPT ![k] = x], K)
  <2>1. \A o \in {cs[k].by, cs[k].to} : Heard(x, o) \subseteq Heard(cs[k], o)
        BY <1>2, <1>7
  <2>. QED BY <1>5, <2>1, QuietOne
<1>9. DOMAIN [cs EXCEPT ![k] = x] = DOMAIN cs /\ [cs EXCEPT ![k] = x][k] = x
      OBVIOUS
<1>. QED BY <1>1, <1>4, <1>5, <1>7, <1>8, <1>9, Zenon DEF Heard

\* send adds a message at the other end.
Sends(cs, c2, n, k, msg) ==
  /\ DOMAIN c2 = DOMAIN cs
  /\ c2[k].kind = cs[k].kind /\ c2[k].by = cs[k].by /\ c2[k].to = cs[k].to /\ c2[k].in = cs[k].in
  /\ Heard(c2[k], Other(cs[k], n)) = Heard(cs[k], Other(cs[k], n)) \cup {msg}
  /\ \A o \in Nodes : o # Other(cs[k], n) => Heard(c2[k], o) = Heard(cs[k], o)
LEMMA PutIs ==
  ASSUME NEW cs \in Seq(Conns), NEW n \in Nodes, NEW k \in DOMAIN cs, NEW msg \in Msgs, NEW K, k \in K
  PROVE  Quiet(cs, Put(cs, n, k, msg), K) /\ Sends(cs, Put(cs, n, k, msg), n, k, msg)
<1>. DEFINE a == Other(cs[k], n)
            q2 == [cs[k].q EXCEPT ![a] = Append(@, msg)]
            x == [cs[k] EXCEPT !.q = q2]
<1>1. Put(cs, n, k, msg) = [cs EXCEPT ![k] = x]
      BY DEF Put
<1>2. cs[k] \in Conns /\ cs[k].q \in [Nodes -> Seq(Msgs)] /\ cs[k].by \in Nodes /\ cs[k].to \in Nodes
      BY ConnIs
<1>3. a \in Nodes
      BY <1>2 DEF Other
<1>. HIDE DEF a
<1>4. cs[k].q[a] \in Seq(Msgs)
      BY <1>2, <1>3
<1>5. Range(Append(cs[k].q[a], msg)) = Range(cs[k].q[a]) \cup {msg}
      BY <1>4, AppendIs
<1>6. x.kind = cs[k].kind /\ x.by = cs[k].by /\ x.to = cs[k].to /\ x.in = cs[k].in /\ x.q = q2
      BY <1>2 DEF Conns
<1>7. \A o \in Nodes : q2[o] = IF o = a THEN Append(cs[k].q[a], msg) ELSE cs[k].q[o]
      BY <1>2, <1>3
<1>. HIDE DEF q2, x
<1>8. Heard(x, a) = Heard(cs[k], a) \cup {msg} /\ \A o \in Nodes : o # a => Heard(x, o) = Heard(cs[k], o)
      BY <1>3, <1>5, <1>6, <1>7 DEF Heard
<1>9. Quiet(cs, [cs EXCEPT ![k] = x], K)
      BY <1>6, QuietOne
<1>10. DOMAIN [cs EXCEPT ![k] = x] = DOMAIN cs /\ [cs EXCEPT ![k] = x][k] = x
      OBVIOUS
<1>. QED BY <1>1, <1>6, <1>8, <1>9, <1>10 DEF a, Sends

\* disconnect leaves the messages.
LEMMA ShutIs ==
  ASSUME NEW cs \in Seq(Conns), NEW n, NEW k \in DOMAIN cs \cup {0}, NEW K
  PROVE  Quiet(cs, Shut(cs, n, k), K)
<1>1. CASE k = 0
      BY <1>1, QuietSame DEF Shut
<1>2. CASE k # 0
  <2>. DEFINE x == [cs[k] EXCEPT !.ends = @ \ {n}]
  <2>1. k \in DOMAIN cs /\ Shut(cs, n, k) = [cs EXCEPT ![k] = x]
        BY <1>2 DEF Shut
  <2>2. cs[k] \in Conns
        BY <2>1, ConnIs
  <2>3. x.kind = cs[k].kind /\ x.by = cs[k].by /\ x.to = cs[k].to /\ x.in = cs[k].in /\ x.q = cs[k].q
        BY <2>2 DEF Conns
  <2>. HIDE DEF x
  <2>4. \A o \in {cs[k].by, cs[k].to} : Heard(x, o) \subseteq Heard(cs[k], o)
        BY <2>3 DEF Heard
  <2>5. x.kind = cs[k].kind /\ x.by = cs[k].by /\ x.to = cs[k].to /\ (cs[k].in => x.in)
        BY <2>3
  <2>6. Quiet(cs, [cs EXCEPT ![k] = x], K)
        BY <2>1, <2>4, <2>5, QuietOne, Zenon
  <2>. QED BY <2>1, <2>6
<1>. QED BY <1>1, <1>2

-----------------------------------------------------------------------------
(* The actions.                                                            *)

\* Node n does something to its devices D, on the connections K; its others stay or go.
Changes(n, K, D) ==
  /\ mem' = [mem EXCEPT ![n] = mem'[n]] /\ sock' = [sock EXCEPT ![n] = sock'[n]] /\ app' = [app EXCEPT ![n] = app'[n]]
  /\ Inherits(mem[n], sock[n], mem'[n], sock'[n], D) /\ SameAsk(app[n], app'[n], Range(sock'[n].devs) \ D)
  /\ \A d \in D : d \in Range(sock'[n].devs) =>
       \/ Thinner(Seen(mem'[n], app'[n], d), ViewAt(n))
       \/ Sound(Seen(mem'[n], app'[n], d), n, conns') /\ (ConnAt(mem'[n], d) # 0 => ConnAt(mem'[n], d) \in K)
LEMMA ChangeAgrees ==
  ASSUME OpenInv, OpenInv', Agree(Views, conns), NEW n \in Nodes, NEW K, NEW D, Changes(n, K, D),
         Quiet(conns, conns', K), \A k \in DOMAIN conns' : k \in K => PairAt(Views', conns', k)
  PROVE  Agree(Views', conns')
<1>1. Kept(View(mem[n], sock[n], app[n]), View(mem'[n], sock'[n], app'[n]), n, conns', K)
      BY InheritsKept DEF ViewAt, Changes
<1>2. Kept(ViewAt(n), ViewAt(n)', n, conns', K)
      BY <1>1 DEF ViewAt
<1>. QED BY <1>2, OneAgrees DEF Changes

\* Devices go, if anything.
LEMMA FewerAgrees ==
  ASSUME OpenInv, OpenInv', Agree(Views, conns), NEW n \in Nodes,
         mem' = [mem EXCEPT ![n] = mem'[n]], sock' = [sock EXCEPT ![n] = sock'[n]], app' = [app EXCEPT ![n] = app'[n]],
         Quiet(conns, conns', {}), Inherits(mem[n], sock[n], mem'[n], sock'[n], {}),
         SameAsk(app[n], app'[n], Range(sock'[n].devs))
  PROVE  Agree(Views', conns')
<1>1. SameAsk(app[n], app'[n], Range(sock'[n].devs) \ {})
      BY DEF SameAsk
<1>2. Changes(n, {}, {})
      BY <1>1 DEF Changes
<1>. QED BY <1>2, ChangeAgrees

\* Nothing happens to devices.
LEMMA SameAgrees ==
  ASSUME OpenInv, OpenInv', Agree(Views, conns), NEW n \in Nodes, UNCHANGED <<mem, sock>>,
         app' = [app EXCEPT ![n] = app'[n]], SameAsk(app[n], app'[n], Range(sock[n].devs)), Quiet(conns, conns', {})
  PROVE  Agree(Views', conns')
<1>1. mem \in [Nodes -> Pools] /\ sock \in [Nodes -> Socks]
      BY DEF OpenInv, Types
<1>2. mem' = [mem EXCEPT ![n] = mem'[n]] /\ sock' = [sock EXCEPT ![n] = sock'[n]]
      BY <1>1
<1>3. Inherits(mem[n], sock[n], mem'[n], sock'[n], {})
      BY DEF Inherits
<1>4. SameAsk(app[n], app'[n], Range(sock'[n].devs))
      OBVIOUS
<1>. QED BY <1>2, <1>3, <1>4, FewerAgrees

LEMMA NothingAgrees ==
  ASSUME Agree(Views, conns), UNCHANGED <<mem, sock, app, conns>>
  PROVE  Agree(Views', conns')
<1>1. Views' = Views
      BY DEF Views
<1>. QED BY <1>1

\* A node that has no devices.
LEMMA EmptyAgrees ==
  ASSUME OpenInv, OpenInv', Agree(Views, conns), NEW n \in Nodes,
         mem' = [mem EXCEPT ![n] = mem'[n]], sock' = [sock EXCEPT ![n] = sock'[n]], app' = [app EXCEPT ![n] = app'[n]],
         Quiet(conns, conns', {}), sock'[n].devs = <<>>
  PROVE  Agree(Views', conns')
<1>1. Range(sock'[n].devs) = {}
      BY EmptyIs
<1>2. Inherits(mem[n], sock[n], mem'[n], sock'[n], {}) /\ SameAsk(app[n], app'[n], Range(sock'[n].devs))
      BY <1>1 DEF Inherits, SameAsk
<1>. QED BY <1>2, FewerAgrees

LEMMA StateIs ==
  ASSUME OpenInv
  PROVE  /\ mem \in [Nodes -> Pools] /\ sock \in [Nodes -> Socks] /\ app \in [Nodes -> Apps] /\ chk \in [Nodes -> Checks]
         /\ conns \in Seq(Conns)
         /\ \A n \in Nodes : Node(mem[n], sock[n], chk[n].link, EndsIn(conns, n)) /\ Flow(n)
BY DEF OpenInv, Types, PoolInv, NodeAt, FlowInv

LEMMA SocketOpenAgrees ==
  ASSUME OpenInv, OpenInv', Agree(Views, conns), NEW n \in Nodes, SocketOpen(n)
  PROVE  Agree(Views', conns')
<1>1. /\ mem \in [Nodes -> Pools] /\ sock \in [Nodes -> Socks] /\ app \in [Nodes -> Apps] /\ Flow(n)
      BY StateIs
<1>2. sock[n].self = 0 /\ app' = app /\ conns' = conns
      BY DEF SocketOpen
<1>3. sock[n] = Closed
      BY <1>1, <1>2 DEF Flow
<1>4. /\ mem' = [mem EXCEPT ![n] = mem'[n]] /\ sock' = [sock EXCEPT ![n] = sock'[n]] /\ sock'[n].devs = <<>>
  <2>1. CASE UNCHANGED <<mem, sock>>
        BY <1>1, <1>3, <2>1 DEF Closed
  <2>2. CASE \E m2, s2 : mem' = [mem EXCEPT ![n] = m2] /\ sock' = [sock EXCEPT ![n] = s2] /\ s2.devs = <<>>
        BY <1>1, <2>2
  <2>3. CASE \E m2 : mem' = [mem EXCEPT ![n] = m2] /\ sock' = sock
        BY <1>1, <1>3, <2>3 DEF Closed
  <2>4. CASE ~Possible(Widths[n]) \/ Len(mem[n].free) < 2
        BY <2>1, <2>4 DEF SocketOpen
  <2>5. CASE ~(~Possible(Widths[n]) \/ Len(mem[n].free) < 2)
    <3>. DEFINE m1 == New(mem[n], [is |-> "socket"])
                m2 == New(m1, [is |-> "aux"])
                new(all) == [self |-> Fresh(mem[n]), aux |-> Fresh(m1), trans |-> all.trans, devs |-> <<>>]
    <3>1. PICK res : LET all == OpenTransports(m2, res)
                     IN IF all.status = "OK"
                        THEN mem' = [mem EXCEPT ![n] = all.m] /\ sock' = [sock EXCEPT ![n] = new(all)]
                        ELSE mem' = [mem EXCEPT ![n] = CloseAll(all.m, new(all))] /\ sock' = sock
          BY <2>5 DEF SocketOpen
    <3>2. \A all : new(all).devs = <<>>
          OBVIOUS
    <3>. HIDE DEF m1, m2, new
    <3>. QED BY <2>2, <2>3, <3>1, <3>2, Zenon
  <2>. QED BY <2>4, <2>5
<1>5. app' = [app EXCEPT ![n] = app'[n]]
      BY <1>1, <1>2
<1>6. Quiet(conns, conns', {})
      BY <1>2, QuietSame
<1>. QED BY <1>4, <1>5, <1>6, EmptyAgrees

LEMMA SocketCloseAgrees ==
  ASSUME OpenInv, OpenInv', Agree(Views, conns), NEW n \in Nodes, SocketClose(n)
  PROVE  Agree(Views', conns')
<1>1. /\ mem \in [Nodes -> Pools] /\ sock \in [Nodes -> Socks] /\ app \in [Nodes -> Apps] /\ conns \in Seq(Conns)
      BY StateIs
<1>2. /\ mem' = [mem EXCEPT ![n] = CloseAll(mem[n], sock[n])] /\ sock' = [sock EXCEPT ![n] = Closed] /\ app' = app
      /\ conns' = [k \in DOMAIN conns |-> IF Arrived(n, k) THEN [conns[k] EXCEPT !.in = TRUE] ELSE conns[k]]
      BY DEF SocketClose
<1>3. ASSUME NEW k \in DOMAIN conns
      PROVE  /\ conns'[k].kind = conns[k].kind /\ conns'[k].by = conns[k].by /\ conns'[k].to = conns[k].to
             /\ conns[k].in => conns'[k].in
             /\ conns'[k].q = conns[k].q
  <2>1. conns[k] \in Conns
        BY <1>1, ConnIs
  <2>. QED BY <1>2, <2>1 DEF Conns
<1>4. DOMAIN conns' = DOMAIN conns
      BY <1>2
<1>5. Quiet(conns, conns', {})
      BY <1>3, <1>4 DEF Quiet, Heard
<1>6. /\ mem' = [mem EXCEPT ![n] = mem'[n]] /\ sock' = [sock EXCEPT ![n] = sock'[n]]
      /\ app' = [app EXCEPT ![n] = app'[n]] /\ sock'[n].devs = <<>>
      BY <1>1, <1>2 DEF Closed
<1>. QED BY <1>5, <1>6, EmptyAgrees

LEMMA ExitAgrees ==
  ASSUME OpenInv, OpenInv', Agree(Views, conns), NEW n \in Nodes, Exit(n)
  PROVE  Agree(Views', conns')
<1>1. /\ mem \in [Nodes -> Pools] /\ sock \in [Nodes -> Socks] /\ app \in [Nodes -> Apps] /\ conns \in Seq(Conns)
      BY StateIs
<1>2. /\ \E m2 : mem' = [mem EXCEPT ![n] = m2]
      /\ sock' = [sock EXCEPT ![n] = Closed] /\ app' = [app EXCEPT ![n] = Idle]
      /\ conns' = [k \in DOMAIN conns |-> [conns[k] EXCEPT !.ends = @ \ {n}, !.in = @ \/ conns[k].to = n]]
  <2>1. \E m2 : mem' = [mem EXCEPT ![n] = m2]
        BY Zenon DEF Exit
  <2>. QED BY <2>1, Zenon DEF Exit
<1>3. ASSUME NEW k \in DOMAIN conns
      PROVE  /\ conns'[k].kind = conns[k].kind /\ conns'[k].by = conns[k].by /\ conns'[k].to = conns[k].to
             /\ conns[k].in => conns'[k].in
             /\ conns'[k].q = conns[k].q
  <2>1. conns[k] \in Conns
        BY <1>1, ConnIs
  <2>. QED BY <1>2, <2>1, Zenon DEF Conns
<1>4. DOMAIN conns' = DOMAIN conns
      BY <1>2, Zenon
<1>5. Quiet(conns, conns', {})
      BY <1>3, <1>4 DEF Quiet, Heard
<1>6. /\ mem' = [mem EXCEPT ![n] = mem'[n]] /\ sock' = [sock EXCEPT ![n] = sock'[n]]
      /\ app' = [app EXCEPT ![n] = app'[n]] /\ sock'[n].devs = <<>>
      BY <1>1, <1>2, Zenon DEF Closed
<1>. QED BY <1>5, <1>6, EmptyAgrees

\* Only node n does anything, and its program goes on waiting for the same answer.
LEMMA OnlyThis ==
  ASSUME OpenInv, NEW n \in Nodes
  PROVE  /\ mem' = mem => mem' = [mem EXCEPT ![n] = mem'[n]]
         /\ sock' = sock => sock' = [sock EXCEPT ![n] = sock'[n]]
         /\ app' = app => app' = [app EXCEPT ![n] = app'[n]] /\ \A ds : SameAsk(app[n], app'[n], ds)
         /\ \A x : mem' = [mem EXCEPT ![n] = x] => mem'[n] = x /\ mem' = [mem EXCEPT ![n] = mem'[n]]
         /\ \A x : sock' = [sock EXCEPT ![n] = x] => sock'[n] = x /\ sock' = [sock EXCEPT ![n] = sock'[n]]
         /\ \A x : app' = [app EXCEPT ![n] = x] => app'[n] = x /\ app' = [app EXCEPT ![n] = app'[n]]
         /\ \A K : conns' = conns => Quiet(conns, conns', K)
<1>1. mem \in [Nodes -> Pools] /\ sock \in [Nodes -> Socks] /\ app \in [Nodes -> Apps]
      BY StateIs
<1>2. app' = app => \A ds : SameAsk(app[n], app'[n], ds)
      BY DEF SameAsk
<1>3. \A K : conns' = conns => Quiet(conns, conns', K)
      BY QuietSame
<1>. QED BY <1>1, <1>2, <1>3

LEMMA CheckStartAgrees ==
  ASSUME OpenInv, OpenInv', Agree(Views, conns), NEW n \in Nodes, CheckStart(n)
  PROVE  Agree(Views', conns')
<1>1. /\ mem' = IF Full(mem[n]) THEN mem ELSE [mem EXCEPT ![n] = New(mem[n], Link(0))]
      /\ sock' = sock /\ app' = app /\ conns' = conns /\ chk[n].pc \in {"no", "start"}
      BY DEF CheckStart
<1>2. /\ sock' = [sock EXCEPT ![n] = sock'[n]] /\ app' = [app EXCEPT ![n] = app'[n]]
      /\ SameAsk(app[n], app'[n], Range(sock'[n].devs)) /\ Quiet(conns, conns', {})
      BY <1>1, OnlyThis, Zenon
<1>3. mem' = [mem EXCEPT ![n] = mem'[n]] /\ Inherits(mem[n], sock[n], mem'[n], sock'[n], {})
  <2>1. CASE Full(mem[n])
    <3>1. mem' = mem
          BY <1>1, <2>1
    <3>. QED BY <1>1, <3>1, OnlyThis, Zenon DEF Inherits
  <2>2. CASE ~Full(mem[n])
    <3>1. mem'[n] = New(mem[n], Link(0)) /\ mem' = [mem EXCEPT ![n] = mem'[n]]
          BY <1>1, <2>2, OnlyThis, Zenon
    <3>2. Node(mem[n], sock[n], 0, EndsIn(conns, n))
          BY <1>1, StateIs DEF Flow
    <3>3. \A i \in DOMAIN mem[n].heap : mem[n].heap[i].is # "free" => mem'[n].heap[i] = mem[n].heap[i]
          BY <2>2, <3>1, <3>2, CheckStartKeeps
    <3>4. Range(sock'[n].devs) \ {} \subseteq Range(sock[n].devs)
          BY <1>1
    <3>5. Inherits(mem[n], sock[n], mem'[n], sock'[n], {})
          BY <3>2, <3>3, <3>4, FreeInherits
    <3>. QED BY <3>1, <3>5
  <2>. QED BY <2>1, <2>2
<1>. QED BY <1>2, <1>3, FewerAgrees

LEMMA CheckEndAgrees ==
  ASSUME OpenInv, OpenInv', Agree(Views, conns), NEW n \in Nodes, CheckEnd(n)
  PROVE  Agree(Views', conns')
<1>1. /\ mem' = IF chk[n].link = 0 THEN mem ELSE [mem EXCEPT ![n] = Free(mem[n], chk[n].link)]
      /\ sock' = sock /\ app' = app /\ conns' = conns
      BY DEF CheckEnd
<1>2. /\ sock' = [sock EXCEPT ![n] = sock'[n]] /\ app' = [app EXCEPT ![n] = app'[n]]
      /\ SameAsk(app[n], app'[n], Range(sock'[n].devs)) /\ Quiet(conns, conns', {})
      BY <1>1, OnlyThis, Zenon
<1>3. mem' = [mem EXCEPT ![n] = mem'[n]] /\ Inherits(mem[n], sock[n], mem'[n], sock'[n], {})
  <2>1. CASE chk[n].link = 0
    <3>1. mem' = mem
          BY <1>1, <2>1
    <3>. QED BY <1>1, <3>1, OnlyThis, Zenon DEF Inherits
  <2>2. CASE chk[n].link # 0
    <3>1. mem'[n] = Free(mem[n], chk[n].link) /\ mem' = [mem EXCEPT ![n] = mem'[n]]
          BY <1>1, <2>2, OnlyThis, Zenon
    <3>2. Node(mem[n], sock[n], chk[n].link, EndsIn(conns, n))
          BY StateIs
    <3>7. \A i \in DOMAIN mem[n].heap : i # chk[n].link => Free(mem[n], chk[n].link).heap[i] = mem[n].heap[i]
          BY <2>2, <3>2, CheckEndKeeps, Zenon
    <3>3. \A i \in DOMAIN mem[n].heap : i # chk[n].link => mem'[n].heap[i] = mem[n].heap[i]
          BY <3>1, <3>7
    <3>4. Range(sock'[n].devs) \ {} \subseteq Range(sock[n].devs)
          BY <1>1
    <3>5. \A i \in DOMAIN mem[n].heap : mem[n].heap[i].is # "free" /\ i # chk[n].link => mem'[n].heap[i] = mem[n].heap[i]
          BY <3>3
    <3>6. Inherits(mem[n], sock[n], mem'[n], sock'[n], {})
          BY <3>2, <3>4, <3>5, FreeInherits, Zenon
    <3>. QED BY <3>1, <3>6
  <2>. QED BY <2>1, <2>2
<1>. QED BY <1>2, <1>3, FewerAgrees

\* A node that stops waiting has no device that waits.
LEMMA IdleAsks ==
  ASSUME NEW p, NEW p2, p2.dev = 0, NEW ds, 0 \notin ds, p.dev \notin ds
  PROVE  SameAsk(p, p2, ds)
BY DEF SameAsk

LEMMA CloseAgrees ==
  ASSUME OpenInv, OpenInv', Agree(Views, conns), NEW n \in Nodes, NEW d \in Range(sock[n].devs), CloseDev(n, d),
         app' = [app EXCEPT ![n] = app'[n]], SameAsk(app[n], app'[n], Range(sock[n].devs) \ {d})
  PROVE  Agree(Views', conns')
<1>1. /\ mem' = [mem EXCEPT ![n] = mem'[n]] /\ sock' = [sock EXCEPT ![n] = sock'[n]]
      /\ Range(sock'[n].devs) = Range(sock[n].devs) \ {d}
      /\ \A i \in DOMAIN mem[n].heap : i # d /\ i # LinkOf(mem[n], d) => mem'[n].heap[i] = mem[n].heap[i]
      BY CloseDevIs
<1>2. Node(mem[n], sock[n], chk[n].link, EndsIn(conns, n)) /\ conns \in Seq(Conns)
      BY StateIs
<1>3. Range(sock'[n].devs) \ {} \subseteq Range(sock[n].devs) \ {d}
      BY <1>1
<1>4. Inherits(mem[n], sock[n], mem'[n], sock'[n], {})
      BY <1>1, <1>2, <1>3, CloseInherits, Zenon
<1>5. ConnOf(n, d) \in DOMAIN conns \cup {0}
      BY DeviceIs
<1>6. conns' = Shut(conns, n, ConnOf(n, d))
      BY DEF CloseDev
<1>7. Quiet(conns, conns', {})
      BY <1>2, <1>5, <1>6, ShutIs
<1>8. SameAsk(app[n], app'[n], Range(sock'[n].devs))
      BY <1>1
<1>. QED BY <1>1, <1>4, <1>7, <1>8, FewerAgrees, Zenon

LEMMA DeviceCloseAgrees ==
  ASSUME OpenInv, OpenInv', Agree(Views, conns), NEW n \in Nodes, NEW d \in Range(sock[n].devs), DeviceClose(n, d)
  PROVE  Agree(Views', conns')
<1>1. CloseDev(n, d) /\ app' = app
      BY DEF DeviceClose
<1>2. app' = [app EXCEPT ![n] = app'[n]] /\ SameAsk(app[n], app'[n], Range(sock[n].devs) \ {d})
      BY <1>1, OnlyThis
<1>. QED BY <1>1, <1>2, CloseAgrees

\* The device that asked is closed.
LEMMA GiveUpAgrees ==
  ASSUME OpenInv, OpenInv', Agree(Views, conns), NEW n \in Nodes, app[n].pc = "probe", CloseDev(n, app[n].dev),
         app' = [app EXCEPT ![n] = Idle]
  PROVE  Agree(Views', conns')
<1>1. app[n].dev \in Range(sock[n].devs) /\ 0 \notin Range(sock[n].devs)
      BY InvIs DEF Flow
<1>2. app'[n] = Idle /\ app' = [app EXCEPT ![n] = app'[n]]
      BY OnlyThis, Zenon
<1>3. app'[n].dev = 0
      BY <1>2 DEF Idle
<1>4. SameAsk(app[n], app'[n], Range(sock[n].devs) \ {app[n].dev})
      BY <1>1, <1>3, IdleAsks
<1>. QED BY <1>1, <1>2, <1>4, CloseAgrees, Zenon

LEMMA OpenExpireAgrees ==
  ASSUME OpenInv, OpenInv', Agree(Views, conns), NEW n \in Nodes, OpenExpire(n)
  PROVE  Agree(Views', conns')
<1>1. CASE CloseDev(n, app[n].dev) /\ app' = [app EXCEPT ![n] = Idle]
  <2>1. app[n].pc = "probe"
        BY DEF OpenExpire, Probing
  <2>. QED BY <1>1, <2>1, GiveUpAgrees, Zenon
<1>2. CASE UNCHANGED <<mem, sock, conns>> /\ app' = [app EXCEPT ![n].tries = NextTry(@)]
  <2>1. app \in [Nodes -> Apps]
        BY StateIs
  <2>2. app'[n] = [app[n] EXCEPT !.tries = NextTry(app[n].tries)] /\ app' = [app EXCEPT ![n] = app'[n]]
        BY <1>2, <2>1
  <2>3. app[n] \in Apps
        BY <2>1
  <2>4. app'[n].dev = app[n].dev /\ app'[n].want = app[n].want
        BY <2>2, <2>3 DEF Apps
  <2>5. SameAsk(app[n], app'[n], Range(sock[n].devs))
        BY <2>4 DEF SameAsk
  <2>6. Quiet(conns, conns', {})
        BY <1>2, OnlyThis
  <2>. QED BY <1>2, <2>2, <2>5, <2>6, SameAgrees, Zenon
<1>. QED BY <1>1, <1>2 DEF OpenExpire

LEMMA CheckNextAgrees ==
  ASSUME Agree(Views, conns), NEW n \in Nodes, CheckNext(n)
  PROVE  Agree(Views', conns')
BY NothingAgrees DEF CheckNext

LEMMA LoseAgrees ==
  ASSUME Agree(Views, conns), NEW p, Lose(p)
  PROVE  Agree(Views', conns')
BY NothingAgrees DEF Lose

\* The device at hand and its connection.
LEMMA HereIs ==
  ASSUME OpenInv, NEW n \in Nodes, Visiting(n)
  PROVE  /\ Here(n) \in Range(sock[n].devs) /\ Here(n) # 0
         /\ Item(n, Here(n)) = mem[n].heap[Here(n)] /\ mem[n].heap[Here(n)] \in Devs /\ Here(n) \in DOMAIN mem[n].heap
         /\ Conn(n) = ConnAt(mem[n], Here(n)) /\ LinkOf(mem[n], Here(n)) = Item(n, Here(n)).link
         /\ Conn(n) # 0 => Conn(n) \in DOMAIN conns /\ LinkOf(mem[n], Here(n)) # 0
<1>1. Flow(n) /\ sock[n].devs \in Seq(Nat) /\ IsInjective(sock[n].devs) /\ 0 \notin Range(sock[n].devs)
      BY InvIs
<1>2. Here(n) # 0 /\ Here(n) = chk[n].at /\ Conn(n) = ConnOf(n, Here(n))
      BY DEF Visiting, Here, Conn
<1>3. IsNext(sock[n].devs, Here(n), chk[n].next)
      BY <1>1, <1>2 DEF Flow
<1>4. Here(n) \in Range(sock[n].devs)
      BY <1>1, <1>3, NextStays
<1>. DEFINE d == Here(n)
<1>5. d \in Range(sock[n].devs)
      BY <1>4
<1>. HIDE DEF d
<1>6. /\ Item(n, d) = mem[n].heap[d] /\ Item(n, d) \in Devs /\ d \in DOMAIN mem[n].heap
      /\ LinkOf(mem[n], d) = Item(n, d).link
      /\ ConnOf(n, d) = ConnAt(mem[n], d) /\ ConnOf(n, d) \in DOMAIN conns \cup {0}
      /\ ConnOf(n, d) # 0 => Item(n, d).link # 0
      BY <1>5, DeviceIs
<1>7. Item(n, d) = mem[n].heap[d] /\ mem[n].heap[d] \in Devs
      BY <1>6
<1>8. d # 0 /\ Conn(n) = ConnOf(n, d)
      BY <1>2 DEF d
<1>9. Conn(n) = ConnAt(mem[n], d) /\ (Conn(n) # 0 => Conn(n) \in DOMAIN conns /\ LinkOf(mem[n], d) # 0)
      BY <1>6, <1>8
<1>. QED BY <1>5, <1>6, <1>7, <1>8, <1>9 DEF d

\* An active device loses its link, its widths and its peer stay.
LEMMA BreakIs ==
  ASSUME NEW m, NEW s, NEW l, NEW E, Node(m, s, l, E), NEW d \in Range(s.devs), LinkOf(m, d) # 0
  PROVE  LET m2 == Free([m EXCEPT !.heap[d].link = 0], LinkOf(m, d))
         IN /\ m2.heap[d] = [m.heap[d] EXCEPT !.link = 0]
            /\ \A i \in DOMAIN m.heap : i # d /\ i # LinkOf(m, d) => m2.heap[i] = m.heap[i]
<1>. DEFINE m2 == Free([m EXCEPT !.heap[d].link = 0], LinkOf(m, d))
<1>1. Node(m, s, l, E) /\ d \in Range(s.devs) /\ LinkOf(m, d) # 0
      OBVIOUS
<1>2. /\ Node(m2, s, l, E \ {ConnAt(m, d)}) /\ DOMAIN m2.heap = DOMAIN m.heap
      /\ m2.heap[d] = [m.heap[d] EXCEPT !.link = 0]
      /\ \A i \in DOMAIN m.heap : i # d /\ i # LinkOf(m, d) => m2.heap[i] = m.heap[i]
      BY <1>1, BreakKeeps
<1>. QED BY <1>2

LEMMA KillAgrees ==
  ASSUME OpenInv, OpenInv', Agree(Views, conns), NEW n \in Nodes, Visiting(n), Conn(n) # 0,
         NEW cs \in Seq(Conns), Conn(n) \in DOMAIN cs, NEW K, Quiet(conns, cs, K), Kill(n, cs), app' = app,
         \A k \in DOMAIN conns' : k \in K => PairAt(Views', conns', k)
  PROVE  Agree(Views', conns')
<1>. DEFINE d == Here(n)
            m == mem[n]
            s == sock[n]
<1>1. /\ d \in Range(s.devs) /\ Item(n, d) = m.heap[d] /\ m.heap[d] \in Devs /\ Item(n, d).link = LinkOf(m, d)
      /\ LinkOf(m, d) # 0 /\ s \in Socks /\ d \in DOMAIN m.heap
      BY HereIs, InvIs
<1>2. Node(m, s, chk[n].link, EndsIn(conns, n)) /\ mem \in [Nodes -> Pools] /\ sock \in [Nodes -> Socks]
      BY StateIs
<1>3. Conn(n) \in DOMAIN cs \cup {0} /\ conns' = Shut(cs, n, Conn(n))
      BY DEF Kill
<1>4. Quiet(cs, Shut(cs, n, Conn(n)), K)
      BY <1>3, ShutIs
<1>5. Quiet(conns, conns', K)
      BY <1>3, <1>4, QuietTwice
<1>6. app' = [app EXCEPT ![n] = app'[n]] /\ SameAsk(app[n], app'[n], Range(sock'[n].devs) \ {d})
      BY OnlyThis
<1>7. CASE m.heap[d].passive
  <2>1. /\ mem' = [mem EXCEPT ![n] = CloseDevMem(m, d)]
        /\ sock' = [sock EXCEPT ![n] = [s EXCEPT !.devs = Without(@, d)]]
        BY <1>1, <1>2, <1>7 DEF Kill
  <2>2. /\ mem'[n] = CloseDevMem(m, d) /\ mem' = [mem EXCEPT ![n] = mem'[n]]
        /\ sock'[n] = [s EXCEPT !.devs = Without(@, d)] /\ sock' = [sock EXCEPT ![n] = sock'[n]]
        BY <2>1, OnlyThis, Zenon
  <2>3. Closes(m, s, chk[n].link, EndsIn(conns, n), d)
        BY <1>1, <1>2, CloseKeeps
  <2>4. \A i \in DOMAIN m.heap : i # d /\ i # LinkOf(m, d) => mem'[n].heap[i] = m.heap[i]
        BY <2>2, <2>3 DEF Closes
  <2>5. Range(sock'[n].devs) = Range(s.devs) \ {d}
    <3>1. sock'[n].devs = Without(s.devs, d)
          BY <1>1, <2>2 DEF Socks
    <3>. QED BY <2>3, <3>1 DEF Closes
  <2>6. Range(sock'[n].devs) \ {d} \subseteq Range(s.devs) \ {d}
        BY <2>5
  <2>7. Inherits(m, s, mem'[n], sock'[n], {d})
        BY <1>1, <1>2, <2>4, <2>6, CloseInherits
  <2>8. \A e \in {d} : e \in Range(sock'[n].devs) =>
           \/ Thinner(Seen(mem'[n], app'[n], e), ViewAt(n))
           \/ Sound(Seen(mem'[n], app'[n], e), n, conns') /\ (ConnAt(mem'[n], e) # 0 => ConnAt(mem'[n], e) \in K)
        BY <2>5
  <2>. HIDE DEF d, m, s
  <2>9. /\ mem' = [mem EXCEPT ![n] = mem'[n]] /\ sock' = [sock EXCEPT ![n] = sock'[n]]
        /\ Inherits(mem[n], sock[n], mem'[n], sock'[n], {d})
        BY <2>2, <2>7 DEF m, s
  <2>10. Changes(n, K, {d})
        BY <1>6, <2>8, <2>9 DEF Changes
  <2>. QED BY <1>5, <2>10, ChangeAgrees
<1>8. CASE ~m.heap[d].passive
  <2>1. mem' = [mem EXCEPT ![n] = Free([m EXCEPT !.heap[d].link = 0], LinkOf(m, d))] /\ sock' = sock
        BY <1>1, <1>2, <1>8 DEF Kill
  <2>2. /\ mem'[n] = Free([m EXCEPT !.heap[d].link = 0], LinkOf(m, d)) /\ mem' = [mem EXCEPT ![n] = mem'[n]]
        /\ sock'[n] = s /\ sock' = [sock EXCEPT ![n] = sock'[n]]
        BY <2>1, OnlyThis, Zenon
  <2>3. /\ mem'[n].heap[d] = [m.heap[d] EXCEPT !.link = 0]
        /\ \A i \in DOMAIN m.heap : i # d /\ i # LinkOf(m, d) => mem'[n].heap[i] = m.heap[i]
    <3>. HIDE DEF d, m, s
    <3>1. Node(m, s, chk[n].link, EndsIn(conns, n)) /\ d \in Range(s.devs) /\ LinkOf(m, d) # 0
          BY <1>1, <1>2
    <3>. QED BY <2>2, <3>1, BreakIs
  <2>6. Range(sock'[n].devs) \ {d} \subseteq Range(s.devs) \ {d}
        BY <2>2
  <2>7. Inherits(m, s, mem'[n], sock'[n], {d})
        BY <1>1, <1>2, <2>3, <2>6, CloseInherits
  <2>8. Thinner(Seen(mem'[n], app'[n], d), ViewAt(n))
    <3>1. /\ mem'[n].heap[d].link = 0 /\ mem'[n].heap[d].passive = m.heap[d].passive
          /\ mem'[n].heap[d].widths = m.heap[d].widths
          BY <1>1, <2>3 DEF Devs
    <3>2. ConnAt(mem'[n], d) = 0
          BY <3>1 DEF ConnAt, LinkOf
    <3>3. Seen(m, app[n], d) \in ViewAt(n)
          BY <1>1 DEF ViewAt, View
    <3>. QED BY <3>1, <3>2, <3>3 DEF Thinner, Seen
  <2>. HIDE DEF d, m, s
  <2>9. /\ mem' = [mem EXCEPT ![n] = mem'[n]] /\ sock' = [sock EXCEPT ![n] = sock'[n]]
        /\ Inherits(mem[n], sock[n], mem'[n], sock'[n], {d})
        BY <2>2, <2>7 DEF m, s
  <2>10. \A e \in {d} : e \in Range(sock'[n].devs) =>
           \/ Thinner(Seen(mem'[n], app'[n], e), ViewAt(n))
           \/ Sound(Seen(mem'[n], app'[n], e), n, conns') /\ (ConnAt(mem'[n], e) # 0 => ConnAt(mem'[n], e) \in K)
        BY <2>8
  <2>11. Changes(n, K, {d})
        BY <1>6, <2>9, <2>10 DEF Changes
  <2>. QED BY <1>5, <2>11, ChangeAgrees
<1>. QED BY <1>7, <1>8

\* What was received is gone, and no other message came.
LEMMA ReadingIs ==
  ASSUME OpenInv, NEW n \in Nodes, Visiting(n), Conn(n) # 0, Input(n) # <<>>,
         NEW cs, cs = [conns EXCEPT ![Conn(n)].q[n] = Tail(@)], NEW K
  PROVE  /\ cs \in Seq(Conns) /\ Conn(n) \in DOMAIN cs /\ DOMAIN cs = DOMAIN conns /\ Quiet(conns, cs, K)
         /\ Head(Input(n)) \in Heard(conns[Conn(n)], n) /\ Head(Input(n)) \in Msgs
         /\ cs[Conn(n)].kind = conns[Conn(n)].kind /\ cs[Conn(n)].by = conns[Conn(n)].by
         /\ cs[Conn(n)].to = conns[Conn(n)].to /\ cs[Conn(n)].in = conns[Conn(n)].in
         /\ \A o \in Nodes : Heard(cs[Conn(n)], o) \subseteq Heard(conns[Conn(n)], o)
<1>. DEFINE k == Conn(n)
<1>1. conns \in Seq(Conns) /\ k \in DOMAIN conns /\ conns[k].q[n] # <<>> /\ cs = [conns EXCEPT ![k].q[n] = Tail(@)]
      BY InvIs, HereIs DEF Input
<1>2. Only(conns, [conns EXCEPT ![Conn(n)].q[n] = Tail(@)], n) /\ Head(Input(n)) \in Msgs
      BY ReadIs, Zenon
<1>3. cs \in Seq(Conns)
      BY <1>2 DEF Only
<1>4. Input(n) = conns[k].q[n]
      BY DEF Input
<1>. HIDE DEF k
<1>5. LET c2 == [conns EXCEPT ![k].q[n] = Tail(@)]
      IN /\ Quiet(conns, c2, K) /\ DOMAIN c2 = DOMAIN conns /\ Head(conns[k].q[n]) \in Heard(conns[k], n)
         /\ c2[k].kind = conns[k].kind /\ c2[k].by = conns[k].by /\ c2[k].to = conns[k].to /\ c2[k].in = conns[k].in
         /\ \A o \in Nodes : Heard(c2[k], o) \subseteq Heard(conns[k], o)
      BY <1>1, TakeIs, Zenon
<1>6. /\ Quiet(conns, cs, K) /\ DOMAIN cs = DOMAIN conns /\ Head(Input(n)) \in Heard(conns[k], n)
      /\ cs[k].kind = conns[k].kind /\ cs[k].by = conns[k].by /\ cs[k].to = conns[k].to /\ cs[k].in = conns[k].in
      /\ \A o \in Nodes : Heard(cs[k], o) \subseteq Heard(conns[k], o)
      BY <1>1, <1>4, <1>5, Zenon
<1>. QED BY <1>1, <1>2, <1>3, <1>6, Zenon DEF k

\* Nobody sends, and at most the device at hand is closed or loses its link.
LEMMA QuietKillAgrees ==
  ASSUME OpenInv, OpenInv', Agree(Views, conns), NEW n \in Nodes, Visiting(n), Conn(n) # 0,
         NEW cs \in Seq(Conns), Conn(n) \in DOMAIN cs, Quiet(conns, cs, {}), Kill(n, cs), app' = app
  PROVE  Agree(Views', conns')
<1>1. \A k \in DOMAIN conns' : k \in {} => PairAt(Views', conns', k)
      OBVIOUS
<1>. QED BY <1>1, KillAgrees

LEMMA LinkEofAgrees ==
  ASSUME OpenInv, OpenInv', Agree(Views, conns), NEW n \in Nodes, LinkEof(n)
  PROVE  Agree(Views', conns')
<1>1. Visiting(n) /\ Conn(n) # 0 /\ Kill(n, conns) /\ app' = app
      BY DEF LinkEof
<1>2. conns \in Seq(Conns) /\ Conn(n) \in DOMAIN conns
      BY <1>1, HereIs, InvIs
<1>3. Quiet(conns, conns, {})
      BY QuietSame
<1>. QED BY <1>1, <1>2, <1>3, QuietKillAgrees

LEMMA LinkRecordsAgrees ==
  ASSUME OpenInv, OpenInv', Agree(Views, conns), NEW n \in Nodes, LinkRecords(n)
  PROVE  Agree(Views', conns')
<1>. DEFINE cs == [conns EXCEPT ![Conn(n)].q[n] = Tail(@)]
<1>1. /\ Visiting(n) /\ Conn(n) # 0 /\ Input(n) # <<>> /\ app' = app
      /\ (conns' = cs /\ UNCHANGED <<mem, sock>>) \/ Kill(n, cs)
      BY DEF LinkRecords
<1>2. cs \in Seq(Conns) /\ Conn(n) \in DOMAIN cs /\ Quiet(conns, cs, {})
      BY <1>1, ReadingIs, Zenon
<1>. HIDE DEF cs
<1>3. CASE conns' = cs /\ UNCHANGED <<mem, sock>>
  <2>1. app' = [app EXCEPT ![n] = app'[n]] /\ SameAsk(app[n], app'[n], Range(sock[n].devs))
        BY <1>1, OnlyThis
  <2>. QED BY <1>2, <1>3, <2>1, SameAgrees
<1>4. CASE Kill(n, cs)
      BY <1>1, <1>2, <1>4, QuietKillAgrees
<1>. QED BY <1>1, <1>3, <1>4

-----------------------------------------------------------------------------
(* Both ends of one connection.                                            *)

\* One device of a node has a connection.
LEMMA OnIs ==
  ASSUME NEW m, NEW s, NEW l, NEW E, Node(m, s, l, E), NEW p
  PROVE  /\ \A d \in Range(s.devs) : ConnAt(m, d) # 0 => On(View(m, s, p), ConnAt(m, d)) = {Seen(m, p, d)}
         /\ \A k : k # 0 /\ k \notin E => On(View(m, s, p), k) = {}
<1>1. \A d : Seen(m, p, d).conn = ConnAt(m, d)
      BY DEF Seen
<1>2. ASSUME NEW d \in Range(s.devs), ConnAt(m, d) # 0 PROVE On(View(m, s, p), ConnAt(m, d)) = {Seen(m, p, d)}
  <2>1. \A e \in Range(s.devs) : ConnAt(m, e) = ConnAt(m, d) => e = d
        BY <1>2 DEF Node, Wired
  <2>2. ASSUME NEW x \in On(View(m, s, p), ConnAt(m, d)) PROVE x = Seen(m, p, d)
    <3>1. PICK e \in Range(s.devs) : x = Seen(m, p, e) /\ x.conn = ConnAt(m, d)
          BY DEF On, View
    <3>2. ConnAt(m, e) = ConnAt(m, d)
          BY <1>1, <3>1
    <3>. QED BY <2>1, <3>1, <3>2
  <2>3. Seen(m, p, d) \in On(View(m, s, p), ConnAt(m, d))
        BY <1>1 DEF On, View
  <2>. QED BY <2>2, <2>3
<1>3. ASSUME NEW k, k # 0, k \notin E PROVE On(View(m, s, p), k) = {}
  <2>1. ASSUME NEW x \in On(View(m, s, p), k) PROVE FALSE
    <3>1. PICK e \in Range(s.devs) : x = Seen(m, p, e) /\ x.conn = k
          BY DEF On, View
    <3>2. ConnAt(m, e) = k
          BY <1>1, <3>1
    <3>. QED BY <1>3, <3>2 DEF Node, Wired
  <2>. QED BY <2>1
<1>. QED BY <1>2, <1>3

LEMMA NextNode ==
  ASSUME OpenInv', NEW n \in Nodes
  PROVE  Node(mem'[n], sock'[n], chk'[n].link, EndsIn(conns', n)) /\ conns' \in Seq(Conns)
BY DEF OpenInv, PoolInv, NodeAt, Types

\* Nodes that do nothing see what they saw.
LEMMA ViewsAre ==
  ASSUME OpenInv, NEW n \in Nodes,
         mem' = [mem EXCEPT ![n] = mem'[n]], sock' = [sock EXCEPT ![n] = sock'[n]], app' = [app EXCEPT ![n] = app'[n]]
  PROVE  /\ Views[n] = View(mem[n], sock[n], app[n]) /\ Views'[n] = View(mem'[n], sock'[n], app'[n])
         /\ \A o \in Nodes \ {n} : Views'[o] = Views[o]
<1>1. mem \in [Nodes -> Pools] /\ sock \in [Nodes -> Socks] /\ app \in [Nodes -> Apps]
      BY StateIs
<1>2. Views[n] = View(mem[n], sock[n], app[n]) /\ Views'[n] = View(mem'[n], sock'[n], app'[n])
      BY DEF Views
<1>3. ASSUME NEW o \in Nodes \ {n} PROVE Views'[o] = Views[o]
  <2>1. mem'[o] = mem[o] /\ sock'[o] = sock[o] /\ app'[o] = app[o]
        BY <1>1
  <2>2. Views[o] = View(mem[o], sock[o], app[o]) /\ Views'[o] = View(mem'[o], sock'[o], app'[o])
        BY DEF Views
  <2>. QED BY <2>1, <2>2
<1>. QED BY <1>2, <1>3

\* A device of a connection that agrees: it is the only one at its end.
LEMMA EndIs ==
  ASSUME OpenInv, Agree(Views, conns), NEW n \in Nodes, NEW d \in Range(sock[n].devs)
  PROVE  LET x == Seen(mem[n], app[n], d)
             k == ConnAt(mem[n], d)
         IN /\ Sound(x, n, conns) /\ x.conn = k
            /\ k # 0 => /\ k \in DOMAIN conns /\ On(Views[n], k) = {x} /\ PairAt(Views, conns, k)
                        /\ conns[k].by \in Nodes /\ conns[k].to \in Nodes /\ conns[k].by # conns[k].to
                        /\ n \in {conns[k].by, conns[k].to}
                        /\ ~x.passive /\ conns[k].kind = "tcp" => n = conns[k].by
                        /\ x.passive /\ conns[k].kind = "tcp" /\ n = conns[k].to => conns[k].in
<1>. DEFINE x == Seen(mem[n], app[n], d)
            k == ConnAt(mem[n], d)
<1>1. Views[n] = View(mem[n], sock[n], app[n])
      BY DEF Views
<1>2. x \in Views[n] /\ x.conn = k
      BY <1>1 DEF View, Seen
<1>3. Sound(x, n, conns)
      BY <1>2 DEF Agree
<1>4. Node(mem[n], sock[n], chk[n].link, EndsIn(conns, n)) /\ conns \in Seq(Conns) /\ Apart(conns)
      BY StateIs, InvIs
<1>. HIDE DEF x, k
<1>5. ASSUME k # 0
      PROVE  /\ k \in DOMAIN conns /\ On(Views[n], k) = {x} /\ PairAt(Views, conns, k)
             /\ conns[k].by \in Nodes /\ conns[k].to \in Nodes /\ conns[k].by # conns[k].to
             /\ n \in {conns[k].by, conns[k].to}
             /\ ~x.passive /\ conns[k].kind = "tcp" => n = conns[k].by
             /\ x.passive /\ conns[k].kind = "tcp" /\ n = conns[k].to => conns[k].in
  <2>1. k \in DOMAIN conns /\ x.kind = conns[k].kind /\ n \in {conns[k].by, conns[k].to}
        /\ (x.kind = "tcp" /\ n = conns[k].to => x.passive /\ conns[k].in)
        BY <1>2, <1>3, <1>5 DEF Sound
  <2>2. conns[k].by \in Nodes /\ conns[k].to \in Nodes /\ conns[k].by # conns[k].to
        BY <1>4, <2>1, ConnIs DEF Apart
  <2>3. On(Views[n], k) = {x}
        BY <1>1, <1>4, <1>5, OnIs DEF x, k
  <2>4. PairAt(Views, conns, k)
        BY <2>1 DEF Agree
  <2>. QED BY <2>1, <2>2, <2>3, <2>4
<1>. QED BY <1>2, <1>3, <1>5 DEF x, k

-----------------------------------------------------------------------------
(* Widths.                                                                 *)

LEMMA LargestIs ==
  ASSUME NEW S \in SUBSET Sizes, S # {}
  PROVE  Cardinality(Largest(S)) = 1 /\ Largest(S) \subseteq S
<1>1. \A x \in S : x \in {1, 2, 4, 8}
      BY DEF Sizes
<1>2. ASSUME NEW x \in S, \A y \in S : y <= x PROVE Largest(S) = {x}
  <2>1. x \in Largest(S)
        BY <1>2 DEF Largest
  <2>2. ASSUME NEW y \in Largest(S) PROVE y = x
    <3>1. y \in S /\ x <= y /\ y <= x
          BY <1>2 DEF Largest
    <3>. QED BY <1>1, <3>1
  <2>. QED BY <2>1, <2>2
<1>3. \E x \in S : \A y \in S : y <= x
  <2>1. CASE 8 \in S
        BY <1>1, <2>1
  <2>2. CASE 8 \notin S /\ 4 \in S
        BY <1>1, <2>2
  <2>3. CASE 8 \notin S /\ 4 \notin S /\ 2 \in S
        BY <1>1, <2>3
  <2>4. CASE 8 \notin S /\ 4 \notin S /\ 2 \notin S
        BY <1>1, <2>4
  <2>. QED BY <2>1, <2>2, <2>3, <2>4
<1>4. \E x \in S : Largest(S) = {x}
      BY <1>2, <1>3
<1>. QED BY <1>4, FS_Singleton, Zenon DEF Largest

\* eb_width_refine leaves one width of each kind, of those that were there.
LEMMA RefineIs ==
  ASSUME NEW w \in WidthSet, Possible(w)
  PROVE  /\ Refine(w) \in WidthSet /\ Refined(Refine(w)) /\ Refine(w) # None
         /\ \A v \in WidthSet : Meet(w, v) = w => Meet(Refine(w), v) = Refine(w)
<1>1. w.data \in SUBSET Sizes /\ w.addr \in SUBSET Sizes /\ w.data # {} /\ w.addr # {}
      BY DEF WidthSet, Possible
<1>2. /\ Cardinality(Largest(w.data)) = 1 /\ Largest(w.data) \subseteq w.data
      /\ Cardinality(Largest(w.addr)) = 1 /\ Largest(w.addr) \subseteq w.addr
      BY <1>1, LargestIs
<1>3. Refine(w).data = Largest(w.data) /\ Refine(w).addr = Largest(w.addr)
      BY DEF Refine
<1>4. Refined(Refine(w))
      BY <1>2, <1>3 DEF Refined
<1>5. Refine(w) # None
  <2>1. Cardinality({}) = 0
        BY FS_EmptySet
  <2>. QED BY <1>2, <1>3, <2>1 DEF None
<1>6. ASSUME NEW v \in WidthSet, Meet(w, v) = w PROVE Meet(Refine(w), v) = Refine(w)
  <2>1. w.data \subseteq v.data /\ w.addr \subseteq v.addr
        BY <1>6 DEF Meet
  <2>2. Largest(w.data) \cap v.data = Largest(w.data) /\ Largest(w.addr) \cap v.addr = Largest(w.addr)
        BY <1>2, <2>1
  <2>. QED BY <2>2 DEF Meet, Refine
<1>. QED BY <1>4, <1>5, <1>6, WidthsAre

LEMMA MeetIs ==
  /\ \A v, w \in WidthSet : Meet(v, w) = Meet(w, v) /\ Meet(v, w) \in WidthSet /\ Meet(Meet(v, w), w) = Meet(v, w)
  /\ \A u, v, w \in WidthSet : Meet(v, w) = v => Meet(Meet(u, v), w) = Meet(u, v)
<1>1. \A v, w \in WidthSet : Meet(v, w) = Meet(w, v) /\ Meet(v, w) \in WidthSet /\ Meet(Meet(v, w), w) = Meet(v, w)
      BY DEF Meet, WidthSet
<1>2. ASSUME NEW u \in WidthSet, NEW v \in WidthSet, NEW w \in WidthSet, Meet(v, w) = v
      PROVE  Meet(Meet(u, v), w) = Meet(u, v)
  <2>1. v.data \subseteq w.data /\ v.addr \subseteq w.addr
        BY <1>2 DEF Meet
  <2>2. (u.data \cap v.data) \cap w.data = u.data \cap v.data /\ (u.addr \cap v.addr) \cap w.addr = u.addr \cap v.addr
        BY <2>1
  <2>. QED BY <2>2, Zenon DEF Meet
<1>. QED BY <1>1, <1>2

\* A device that waits cannot have been refined to nothing.
LEMMA NoneIs ==
  /\ None \in WidthSet /\ ~Refined(None) /\ \A w : Meet(None, w) = None
<1>1. Cardinality({}) = 0
      BY FS_EmptySet
<1>. QED BY <1>1 DEF None, WidthSet, Refined, Meet

-----------------------------------------------------------------------------
(* A device gets its widths.                                               *)

LEMMA RetagChanges ==
  ASSUME OpenInv, NEW n \in Nodes, NEW d \in Range(sock[n].devs), NEW v \in WidthSet,
         mem' = [mem EXCEPT ![n].heap[d].widths = v], sock' = sock, app' = [app EXCEPT ![n] = app'[n]],
         SameAsk(app[n], app'[n], Range(sock[n].devs) \ {d}), NEW K, ConnAt(mem[n], d) # 0 => ConnAt(mem[n], d) \in K,
         Sound(Seen(mem'[n], app'[n], d), n, conns')
  PROVE  Changes(n, K, {d})
<1>1. mem \in [Nodes -> Pools] /\ Node(mem[n], sock[n], chk[n].link, EndsIn(conns, n))
      BY StateIs
<1>2. mem'[n] = [mem[n] EXCEPT !.heap[d].widths = v] /\ mem' = [mem EXCEPT ![n] = mem'[n]]
      BY <1>1
<1>3. sock' = [sock EXCEPT ![n] = sock'[n]]
      BY OnlyThis
<1>. DEFINE m == mem[n]
            s == sock[n]
            l == chk[n].link
            E == EndsIn(conns, n)
            m2 == mem'[n]
<1>4. Node(m, s, l, E) /\ d \in Range(s.devs) /\ m2 = [m EXCEPT !.heap[d].widths = v]
      BY <1>1, <1>2
<1>. HIDE DEF m, s, l, E, m2
<1>5. /\ m2.heap[d] = [m.heap[d] EXCEPT !.widths = v]
      /\ \A i \in DOMAIN m.heap : i # d => m2.heap[i] = m.heap[i]
      BY <1>4, RetagKeeps
<1>6. m.heap[d] \in Devs /\ LinkOf(m, d) # d /\ (LinkOf(m, d) # 0 => LinkOf(m, d) \in DOMAIN m.heap)
  <2>1. /\ m.heap[d] \in Devs /\ m.heap[d].is = "device" /\ d \in DOMAIN m.heap /\ 0 \notin DOMAIN m.heap
        /\ LinkOf(m, d) # 0 => LinkOf(m, d) \in DOMAIN m.heap /\ m.heap[LinkOf(m, d)].is = "link"
        BY <1>4, NodeIs, Zenon
  <2>. QED BY <2>1
<1>7. LinkOf(m2, d) = LinkOf(m, d) /\ (LinkOf(m, d) # 0 => m2.heap[LinkOf(m, d)] = m.heap[LinkOf(m, d)])
      BY <1>5, <1>6 DEF LinkOf, Devs
<1>8. ConnAt(m2, d) = ConnAt(m, d)
      BY <1>7, SameConn
<1>9. \A i \in DOMAIN m.heap : i # d /\ i # LinkOf(m, d) => m2.heap[i] = m.heap[i]
      BY <1>5
<1>10. Range(s.devs) \ {d} \subseteq Range(s.devs) \ {d}
       OBVIOUS
<1>11. Inherits(m, s, m2, s, {d})
       BY <1>4, <1>9, <1>10, CloseInherits, Zenon
<1>12. Inherits(mem[n], sock[n], mem'[n], sock'[n], {d}) /\ SameAsk(app[n], app'[n], Range(sock'[n].devs) \ {d})
       BY <1>11 DEF m, s, m2
<1>13. \A e \in {d} : Sound(Seen(mem'[n], app'[n], e), n, conns') /\ (ConnAt(mem'[n], e) # 0 => ConnAt(mem'[n], e) \in K)
       BY <1>8 DEF m, m2
<1>. QED BY <1>2, <1>3, <1>12, <1>13 DEF Changes

Widened(x, y, v) == y.conn = x.conn /\ y.kind = x.kind /\ y.passive = x.passive /\ y.widths = v
LEMMA RetagSeen ==
  ASSUME OpenInv, NEW n \in Nodes, NEW d \in Range(sock[n].devs), NEW v \in WidthSet,
         mem' = [mem EXCEPT ![n].heap[d].widths = v]
  PROVE  /\ Widened(Seen(mem[n], app[n], d), Seen(mem'[n], app'[n], d), v)
         /\ ConnAt(mem'[n], d) = ConnAt(mem[n], d)
<1>1. mem \in [Nodes -> Pools] /\ Node(mem[n], sock[n], chk[n].link, EndsIn(conns, n))
      BY StateIs
<1>2. mem'[n] = [mem[n] EXCEPT !.heap[d].widths = v]
      BY <1>1
<1>. DEFINE m == mem[n]
            s == sock[n]
            l == chk[n].link
            E == EndsIn(conns, n)
            m2 == mem'[n]
<1>4. Node(m, s, l, E) /\ d \in Range(s.devs) /\ m2 = [m EXCEPT !.heap[d].widths = v]
      BY <1>1, <1>2
<1>. HIDE DEF m, s, l, E, m2
<1>5. /\ m2.heap[d] = [m.heap[d] EXCEPT !.widths = v]
      /\ \A i \in DOMAIN m.heap : i # d => m2.heap[i] = m.heap[i]
      BY <1>4, RetagKeeps
<1>6. m.heap[d] \in Devs /\ LinkOf(m, d) # d /\ (LinkOf(m, d) # 0 => LinkOf(m, d) \in DOMAIN m.heap)
  <2>1. /\ m.heap[d] \in Devs /\ m.heap[d].is = "device" /\ d \in DOMAIN m.heap /\ 0 \notin DOMAIN m.heap
        /\ LinkOf(m, d) # 0 => LinkOf(m, d) \in DOMAIN m.heap /\ m.heap[LinkOf(m, d)].is = "link"
        BY <1>4, NodeIs, Zenon
  <2>. QED BY <2>1
<1>7. /\ LinkOf(m2, d) = LinkOf(m, d) /\ (LinkOf(m, d) # 0 => m2.heap[LinkOf(m, d)] = m.heap[LinkOf(m, d)])
      /\ m2.heap[d].kind = m.heap[d].kind /\ m2.heap[d].passive = m.heap[d].passive /\ m2.heap[d].widths = v
      BY <1>5, <1>6 DEF LinkOf, Devs
<1>8. ConnAt(m2, d) = ConnAt(m, d)
      BY <1>7, SameConn
<1>. QED BY <1>7, <1>8 DEF m, m2, Seen, Widened

LEMMA SeenIs ==
  ASSUME NEW m, NEW p, NEW d
  PROVE  LET x == Seen(m, p, d)
         IN /\ x.conn = ConnAt(m, d) /\ x.kind = m.heap[d].kind /\ x.passive = m.heap[d].passive /\ x.widths = m.heap[d].widths
            /\ x.asks = (p.dev = d) /\ x.want = IF p.dev = d THEN p.want ELSE None
BY DEF Seen

\* The device that asked has an answer: it opens with the widths that the other end has.
LEMMA PairOpens ==
  ASSUME NEW c, NEW x, NEW y, NEW Ys, Pair(c, {x}, Ys), x.asks, ~x.passive, x.widths # None, ~y.asks,
         c.to \in Nodes, x.want \in WidthSet, y.widths = Refine(Meet(x.widths, x.want))
  PROVE  Pair(c, {y}, Ys)
<1>1. Messages(c) /\ (\A z \in Ys : Understood(c, z)) /\ Waits(c, x, Ys)
      BY Zenon DEF Pair
<1>2. x.widths = Widths[c.to] /\ c.in /\ \A z \in Ys : z.widths = Negotiated(c.to, x.want)
      BY <1>1 DEF Waits
<1>3. Widths[c.to] \in WidthSet
      BY OpenAssumption
<1>4. Meet(x.widths, x.want) = Meet(x.want, Widths[c.to])
      BY <1>2, <1>3, MeetIs
<1>5. Negotiated(c.to, x.want) = y.widths
      BY <1>4 DEF Negotiated
<1>6. Talks(c, y, Ys)
      BY <1>2, <1>5 DEF Talks
<1>. QED BY <1>1, <1>6 DEF Pair

LEMMA OpenedAgrees ==
  ASSUME OpenInv, OpenInv', Agree(Views, conns), NEW n \in Nodes, NEW d \in Range(sock[n].devs), d = app[n].dev,
         ~mem[n].heap[d].passive, ConnAt(mem[n], d) # 0 => mem[n].heap[d].widths # None,
         Possible(Meet(mem[n].heap[d].widths, app[n].want)),
         mem' = [mem EXCEPT ![n].heap[d].widths = Refine(Meet(mem[n].heap[d].widths, app[n].want))],
         UNCHANGED <<sock, conns>>, app' = [app EXCEPT ![n] = Idle]
  PROVE  Agree(Views', conns')
<1>. DEFINE w == Meet(mem[n].heap[d].widths, app[n].want)
            v == Refine(w)
            x == Seen(mem[n], app[n], d)
            y == Seen(mem'[n], app'[n], d)
            k == ConnAt(mem[n], d)
<1>1. /\ mem[n].heap[d].widths \in WidthSet /\ app[n].want \in WidthSet /\ Widths[n] \in WidthSet /\ d # 0
      /\ 0 \notin Range(sock[n].devs)
  <2>1. mem[n].heap[d] \in Devs /\ app[n] \in Apps /\ Widths[n] \in WidthSet /\ d # 0 /\ 0 \notin Range(sock[n].devs)
        BY DeviceIs, InvIs
  <2>. QED BY <2>1 DEF Devs, Apps
<1>2. w \in WidthSet /\ v \in WidthSet /\ Refined(v) /\ \A u \in WidthSet : Meet(w, u) = w => Meet(v, u) = v
      BY <1>1, MeetIs, RefineIs, Zenon
<1>3. app'[n] = Idle /\ app' = [app EXCEPT ![n] = app'[n]] /\ app'[n].dev = 0
  <2>1. app \in [Nodes -> Apps]
        BY StateIs
  <2>. QED BY <2>1 DEF Idle
<1>4. SameAsk(app[n], app'[n], Range(sock[n].devs) \ {d})
      BY <1>1, <1>3, IdleAsks
<1>5. mem' = [mem EXCEPT ![n].heap[d].widths = v]
      OBVIOUS
<1>. HIDE DEF v
<1>6. /\ y.conn = x.conn /\ y.kind = x.kind /\ y.passive = x.passive /\ y.widths = v
      /\ y.asks = (app'[n].dev = d)
      /\ x.asks = (app[n].dev = d) /\ x.want = IF app[n].dev = d THEN app[n].want ELSE None
      /\ x.widths = mem[n].heap[d].widths /\ x.passive = mem[n].heap[d].passive
      /\ ConnAt(mem'[n], d) = ConnAt(mem[n], d) /\ x.conn = ConnAt(mem[n], d)
  <2>1. Widened(Seen(mem[n], app[n], d), Seen(mem'[n], app'[n], d), v) /\ ConnAt(mem'[n], d) = ConnAt(mem[n], d)
        BY <1>2, <1>5, RetagSeen, Zenon
  <2>2. /\ x.asks = (app[n].dev = d) /\ x.want = IF app[n].dev = d THEN app[n].want ELSE None
        /\ x.widths = mem[n].heap[d].widths /\ x.passive = mem[n].heap[d].passive /\ x.conn = ConnAt(mem[n], d)
        BY SeenIs
  <2>3. y.asks = (app'[n].dev = d)
        BY SeenIs
  <2>4. y.conn = x.conn /\ y.kind = x.kind /\ y.passive = x.passive /\ y.widths = v
        BY <2>1 DEF Widened
  <2>. HIDE DEF x, y
  <2>. QED BY <2>1, <2>2, <2>3, <2>4
<1>7. /\ Sound(x, n, conns) /\ x.conn = k
      /\ k # 0 => /\ k \in DOMAIN conns /\ On(Views[n], k) = {x} /\ PairAt(Views, conns, k)
                  /\ conns[k].by \in Nodes /\ conns[k].to \in Nodes /\ conns[k].by # conns[k].to
                  /\ n \in {conns[k].by, conns[k].to}
                  /\ ~x.passive /\ conns[k].kind = "tcp" => n = conns[k].by
                  /\ x.passive /\ conns[k].kind = "tcp" /\ n = conns[k].to => conns[k].in
      BY EndIs
<1>. HIDE DEF x, y, k
<1>8. ~y.asks /\ x.asks /\ ~x.passive /\ x.want = app[n].want /\ x.widths = mem[n].heap[d].widths
      BY <1>1, <1>3, <1>6, Zenon
<1>9. Meet(w, Widths[n]) = w
  <2>1. Meet(x.want, Widths[n]) = x.want
        BY <1>7, <1>8 DEF Sound
  <2>. QED BY <1>1, <1>8, <2>1, MeetIs
<1>10. Sound(y, n, conns')
  <2>1. Refined(y.widths) /\ Meet(y.widths, Widths[n]) = y.widths
        BY <1>1, <1>2, <1>6, <1>9, Zenon
  <2>. QED BY <1>6, <1>7, <1>8, <2>1 DEF Sound
<1>11. Changes(n, {k}, {d})
  <2>1. Sound(Seen(mem'[n], app'[n], d), n, conns')
        BY <1>10 DEF y
  <2>2. ConnAt(mem[n], d) # 0 => ConnAt(mem[n], d) \in {k}
        BY DEF k
  <2>3. sock' = sock
        OBVIOUS
  <2>. QED BY <1>2, <1>3, <1>4, <1>5, <2>1, <2>2, <2>3, RetagChanges, Zenon
<1>12. ASSUME k # 0, conns[k].kind = "tcp" PROVE PairAt(Views', conns', k)
  <2>1. n = conns[k].by /\ conns[k].to \in Nodes \ {n}
        BY <1>7, <1>8, <1>12
  <2>2. Pair(conns[k], {x}, On(Views[conns[k].to], k))
        BY <1>7, <1>12, <2>1, Zenon DEF PairAt
  <2>3. mem' = [mem EXCEPT ![n] = mem'[n]] /\ sock' = [sock EXCEPT ![n] = sock'[n]]
        BY <1>11 DEF Changes
  <2>4. Views'[n] = View(mem'[n], sock'[n], app'[n]) /\ Views'[conns[k].to] = Views[conns[k].to]
        BY <1>3, <2>1, <2>3, ViewsAre, Zenon
  <2>5. On(Views'[n], k) = {y}
    <3>1. Node(mem'[n], sock'[n], chk'[n].link, EndsIn(conns', n)) /\ d \in Range(sock'[n].devs) /\ ConnAt(mem'[n], d) = k
          BY <1>6, NextNode, Zenon DEF k
    <3>2. \A e \in Range(sock'[n].devs) : ConnAt(mem'[n], e) # 0 =>
            On(View(mem'[n], sock'[n], app'[n]), ConnAt(mem'[n], e)) = {Seen(mem'[n], app'[n], e)}
          BY <3>1, OnIs
    <3>3. On(View(mem'[n], sock'[n], app'[n]), k) = {Seen(mem'[n], app'[n], d)}
          BY <1>12, <3>1, <3>2
    <3>. QED BY <2>4, <3>3 DEF y
  <2>6. x.widths # None /\ x.want \in WidthSet /\ y.widths = Refine(Meet(x.widths, x.want))
        BY <1>1, <1>6, <1>8, <1>12 DEF k, v
  <2>7. Pair(conns[k], {y}, On(Views[conns[k].to], k))
        BY <1>8, <2>1, <2>2, <2>6, PairOpens, Zenon
  <2>. QED BY <2>1, <2>4, <2>5, <2>7, Zenon DEF PairAt
<1>13. Quiet(conns, conns', {k})
       BY OnlyThis, Zenon
<1>14. \A i \in DOMAIN conns' : i \in {k} => PairAt(Views', conns', i)
  <2>1. conns' = conns /\ 0 \notin DOMAIN conns
    <3>1. conns \in Seq(Conns)
          BY InvIs
    <3>. QED BY <3>1, LenProperties
  <2>. QED BY <1>12, <2>1 DEF PairAt
<1>. QED BY <1>11, <1>13, <1>14, ChangeAgrees

LEMMA OpenDoneAgrees ==
  ASSUME OpenInv, OpenInv', Agree(Views, conns), NEW n \in Nodes, OpenDone(n)
  PROVE  Agree(Views', conns')
<1>. DEFINE d == app[n].dev
            w == Meet(Item(n, d).widths, app[n].want)
<1>1. /\ app[n].pc = "probe" /\ Answered(n) /\ app' = [app EXCEPT ![n] = Idle]
      /\ IF Item(n, d).link = 0 \/ ~Possible(w) THEN CloseDev(n, d)
         ELSE mem' = [mem EXCEPT ![n].heap[d].widths = Refine(w)] /\ UNCHANGED <<sock, conns>>
      BY DEF OpenDone, Probing
<1>2. d \in Range(sock[n].devs) /\ ~Item(n, d).passive
      BY <1>1, InvIs DEF Flow
<1>3. Item(n, d) = mem[n].heap[d]
      BY DEF Item
<1>4. CASE Item(n, d).link = 0 \/ ~Possible(w)
      BY <1>1, <1>4, GiveUpAgrees, Zenon
<1>5. CASE ~(Item(n, d).link = 0 \/ ~Possible(w))
  <2>1. mem[n].heap[d].widths # None
        BY <1>1, <1>3, <1>5 DEF Answered
  <2>2. /\ Possible(Meet(mem[n].heap[d].widths, app[n].want)) /\ UNCHANGED <<sock, conns>>
        /\ mem' = [mem EXCEPT ![n].heap[d].widths = Refine(Meet(mem[n].heap[d].widths, app[n].want))]
        BY <1>1, <1>3, <1>5
  <2>. DEFINE e == app[n].dev
  <2>3. e = app[n].dev
        OBVIOUS
  <2>. QED BY <1>1, <1>2, <1>3, <2>1, <2>2, OpenedAgrees, Zenon
<1>. QED BY <1>4, <1>5

\* What is left to show of a connection of a device of node n.
EndAgree(n, k, y) ==
  conns'[k].kind = "tcp" =>
    /\ n = conns'[k].by => Pair(conns'[k], {y}, On(Views[conns'[k].to], k))
    /\ n = conns'[k].to => Pair(conns'[k], On(Views[conns'[k].by], k), {y})
LEMMA EndAgrees ==
  ASSUME OpenInv, OpenInv', NEW n \in Nodes,
         mem' = [mem EXCEPT ![n] = mem'[n]], sock' = [sock EXCEPT ![n] = sock'[n]], app' = [app EXCEPT ![n] = app'[n]],
         NEW d \in Range(sock'[n].devs), NEW k, k = ConnAt(mem'[n], d), k \in DOMAIN conns',
         n \in {conns'[k].by, conns'[k].to}, EndAgree(n, k, Seen(mem'[n], app'[n], d))
  PROVE  PairAt(Views', conns', k)
<1>. DEFINE y == Seen(mem'[n], app'[n], d)
            c == conns'[k]
<1>1. Node(mem'[n], sock'[n], chk'[n].link, EndsIn(conns', n)) /\ conns' \in Seq(Conns)
      BY NextNode
<1>2. c.by \in Nodes /\ c.to \in Nodes /\ c.by # c.to /\ k # 0
  <2>1. Apart(conns')
        BY DEF OpenInv, ConnInv
  <2>. QED BY <1>1, <2>1, ConnIs DEF Apart
<1>3. /\ Views'[n] = View(mem'[n], sock'[n], app'[n])
      /\ \A o \in Nodes \ {n} : Views'[o] = Views[o]
      BY ViewsAre
<1>4. On(Views'[n], k) = {y}
  <2>1. On(View(mem'[n], sock'[n], app'[n]), ConnAt(mem'[n], d)) = {Seen(mem'[n], app'[n], d)}
        BY <1>1, <1>2, OnIs
  <2>. QED BY <1>3, <2>1
<1>5. EndAgree(n, k, y)
      OBVIOUS
<1>. HIDE DEF y, c
<1>6. CASE n = c.by
  <2>1. Views'[c.to] = Views[c.to]
        BY <1>2, <1>3, <1>6
  <2>2. c.kind = "tcp" => Pair(c, {y}, On(Views[c.to], k))
        BY <1>5, <1>6 DEF EndAgree, c
  <2>3. c.kind = "tcp" => Pair(c, On(Views'[c.by], k), On(Views'[c.to], k))
        BY <1>4, <1>6, <2>1, <2>2
  <2>. QED BY <2>3 DEF PairAt, c
<1>7. CASE n = c.to
  <2>1. Views'[c.by] = Views[c.by]
        BY <1>2, <1>3, <1>7
  <2>2. c.kind = "tcp" => Pair(c, On(Views[c.by], k), {y})
        BY <1>5, <1>7 DEF EndAgree, c
  <2>3. c.kind = "tcp" => Pair(c, On(Views'[c.by], k), On(Views'[c.to], k))
        BY <1>4, <1>7, <2>1, <2>2
  <2>. QED BY <2>3 DEF PairAt, c
<1>. QED BY <1>6, <1>7 DEF c

\* A device gets an answer to its probe, or takes the widths of one.
LEMMA RetagAgrees ==
  ASSUME OpenInv, OpenInv', Agree(Views, conns), NEW n \in Nodes, NEW d \in Range(sock[n].devs), NEW v \in WidthSet,
         mem[n].heap[d].passive \/ app[n].dev = d,
         mem' = [mem EXCEPT ![n].heap[d].widths = v], UNCHANGED <<sock, app>>,
         Quiet(conns, conns', {ConnAt(mem[n], d)}),
         \A y : /\ Widened(Seen(mem[n], app[n], d), y, v)
                /\ y.asks = Seen(mem[n], app[n], d).asks /\ y.want = Seen(mem[n], app[n], d).want
                => (ConnAt(mem[n], d) # 0 => EndAgree(n, ConnAt(mem[n], d), y))
  PROVE  Agree(Views', conns')
<1>. DEFINE x == Seen(mem[n], app[n], d)
            y == Seen(mem'[n], app'[n], d)
            k == ConnAt(mem[n], d)
<1>1. Widened(x, y, v) /\ ConnAt(mem'[n], d) = ConnAt(mem[n], d)
      BY RetagSeen, Zenon
<1>2. /\ y.asks = x.asks /\ y.want = x.want /\ x.asks = (app[n].dev = d) /\ x.passive = mem[n].heap[d].passive
      /\ x.conn = k
      BY SeenIs
<1>3. k # 0 => EndAgree(n, k, y)
      BY <1>1, <1>2
<1>4. /\ Sound(x, n, conns) /\ x.conn = k
      /\ k # 0 => /\ k \in DOMAIN conns /\ On(Views[n], k) = {x} /\ PairAt(Views, conns, k)
                  /\ conns[k].by \in Nodes /\ conns[k].to \in Nodes /\ conns[k].by # conns[k].to
                  /\ n \in {conns[k].by, conns[k].to}
                  /\ ~x.passive /\ conns[k].kind = "tcp" => n = conns[k].by
                  /\ x.passive /\ conns[k].kind = "tcp" /\ n = conns[k].to => conns[k].in
      BY EndIs
<1>5. app' = [app EXCEPT ![n] = app'[n]] /\ SameAsk(app[n], app'[n], Range(sock[n].devs) \ {d})
      BY OnlyThis
<1>. HIDE DEF x, y, k
<1>6. \A i \in DOMAIN conns : /\ i \in DOMAIN conns' /\ conns'[i].kind = conns[i].kind /\ conns'[i].by = conns[i].by
                              /\ conns'[i].to = conns[i].to /\ (conns[i].in => conns'[i].in)
      BY DEF Quiet
<1>7. Sound(y, n, conns')
      BY <1>1, <1>2, <1>4, <1>6, Zenon DEF Sound, Widened
<1>8. Changes(n, {k}, {d})
  <2>1. Sound(Seen(mem'[n], app'[n], d), n, conns')
        BY <1>7 DEF y
  <2>2. ConnAt(mem[n], d) # 0 => ConnAt(mem[n], d) \in {k}
        BY DEF k
  <2>3. sock' = sock
        OBVIOUS
  <2>. QED BY <1>5, <2>1, <2>2, <2>3, RetagChanges, Zenon
<1>9. k # 0 => PairAt(Views', conns', k)
  <2>1. SUFFICES ASSUME k # 0 PROVE PairAt(Views', conns', k)
        OBVIOUS
  <2>2. mem' = [mem EXCEPT ![n] = mem'[n]] /\ sock' = [sock EXCEPT ![n] = sock'[n]]
        BY <1>8 DEF Changes
  <2>3. d \in Range(sock'[n].devs) /\ k = ConnAt(mem'[n], d)
        BY <1>1 DEF k
  <2>4. k \in DOMAIN conns' /\ n \in {conns'[k].by, conns'[k].to}
        BY <1>4, <1>6, <2>1
  <2>5. EndAgree(n, k, Seen(mem'[n], app'[n], d))
        BY <1>3, <2>1 DEF y
  <2>. QED BY <1>5, <2>2, <2>3, <2>4, <2>5, EndAgrees, Zenon
<1>10. 0 \notin DOMAIN conns'
  <2>1. conns' \in Seq(Conns)
        BY NextNode
  <2>. QED BY <2>1, LenProperties
<1>11. \A i \in DOMAIN conns' : i \in {k} => PairAt(Views', conns', i)
       BY <1>9, <1>10
<1>12. Quiet(conns, conns', {k})
       BY DEF k
<1>. QED BY <1>8, <1>11, <1>12, ChangeAgrees

\* An answer over UDP, which the device that has its tag asked for.
LEMMA TopLevelAgrees ==
  ASSUME OpenInv, OpenInv', Agree(Views, conns), NEW n \in Nodes, NEW p, NEW again, TopLevel(n, p, again), ~stray'
  PROVE  Agree(Views', conns')
<1>1. UNCHANGED <<sock, app, conns>> /\ p \in udp
      BY DEF TopLevel, Received
<1>2. CASE mem' = mem
      BY <1>1, <1>2, NothingAgrees
<1>3. CASE /\ \A d \in Tagged(n, p.msg.tag) : AskedFor(n, d, p)
           /\ mem' = [mem EXCEPT ![n].heap =
                [i \in DOMAIN @ |-> IF i \in Tagged(n, p.msg.tag) THEN [@[i] EXCEPT !.widths = p.msg.w] ELSE @[i]]]
  <2>. DEFINE T == Tagged(n, p.msg.tag)
              v == p.msg.w
              h == mem[n].heap
  <2>1. /\ mem \in [Nodes -> Pools] /\ mem[n] \in Pools /\ udp \in SUBSET Datagrams /\ 0 \notin Range(sock[n].devs)
        /\ h \in Seq(Items)
    <3>1. mem \in [Nodes -> Pools] /\ mem[n] \in Pools /\ udp \in SUBSET Datagrams /\ 0 \notin Range(sock[n].devs)
          BY StateIs, InvIs
    <3>. QED BY <3>1 DEF Pools
  <2>2. v \in WidthSet
        BY <1>1, <2>1 DEF Datagrams, Msgs
  <2>3. CASE T = {}
    <3>1. [i \in DOMAIN h |-> IF i \in T THEN [h[i] EXCEPT !.widths = v] ELSE h[i]] = h
          BY <2>1, <2>3
    <3>. HIDE DEF T, h
    <3>2. mem' = [mem EXCEPT ![n].heap = h]
          BY <1>3, <3>1, Zenon DEF T, h
    <3>3. mem' = mem
          BY <2>1, <3>2 DEF h, Pools
    <3>. QED BY <1>1, <3>3, NothingAgrees
  <2>4. CASE T # {}
    <3>. DEFINE d == p.msg.tag
    <3>1. T = {d} /\ d \in Range(sock[n].devs)
          BY <2>4 DEF Tagged
    <3>2. app[n].dev = d /\ Item(n, d).kind = "udp"
          BY <1>3, <3>1 DEF AskedFor
    <3>3. Item(n, d) = h[d] /\ h[d] \in Devs /\ d \in DOMAIN h
          BY <3>1, DeviceIs
    <3>4. [i \in DOMAIN h |-> IF i \in T THEN [h[i] EXCEPT !.widths = v] ELSE h[i]] = [h EXCEPT ![d] = [h[d] EXCEPT !.widths = v]]
          BY <2>1, <3>1, <3>3, Zenon
    <3>5. mem' = [mem EXCEPT ![n].heap = [h EXCEPT ![d] = [h[d] EXCEPT !.widths = v]]]
      <4>. HIDE DEF T, h, d, v
      <4>. QED BY <1>3, <3>4, Zenon DEF T, h, v
    <3>6. mem' = [mem EXCEPT ![n].heap[d].widths = v]
      <4>. HIDE DEF T, d, v
      <4>. QED BY <3>5 DEF h
    <3>7. ConnAt(mem[n], d) = 0
      <4>. DEFINE x == Seen(mem[n], app[n], d)
                  k == ConnAt(mem[n], d)
      <4>1. /\ Sound(x, n, conns) /\ x.conn = k
            /\ k # 0 => /\ k \in DOMAIN conns /\ On(Views[n], k) = {x} /\ PairAt(Views, conns, k)
                        /\ conns[k].by \in Nodes /\ conns[k].to \in Nodes /\ conns[k].by # conns[k].to
                        /\ n \in {conns[k].by, conns[k].to}
                        /\ ~x.passive /\ conns[k].kind = "tcp" => n = conns[k].by
                        /\ x.passive /\ conns[k].kind = "tcp" /\ n = conns[k].to => conns[k].in
        <5>. HIDE DEF T, h, d, v
        <5>. QED BY <3>1, EndIs
      <4>2. x.kind = "udp"
            BY <3>2, <3>3, SeenIs
      <4>. HIDE DEF x, k
      <4>3. conns \in Seq(Conns)
            BY InvIs
      <4>4. k # 0 => conns[k].kind = "udp"
            BY <4>1, <4>2 DEF Sound
      <4>5. k # 0 => conns[k].kind \in {"dev", "tcp"}
            BY <4>1, <4>3, ConnIs
      <4>. QED BY <4>4, <4>5 DEF k
    <3>8. Quiet(conns, conns', {ConnAt(mem[n], d)})
          BY <1>1, OnlyThis
    <3>. HIDE DEF T, h, d, v
    <3>. QED BY <1>1, <2>2, <3>1, <3>2, <3>6, <3>7, <3>8, RetagAgrees, Zenon
  <2>. QED BY <2>3, <2>4
<1>. QED BY <1>2, <1>3, Zenon DEF TopLevel

-----------------------------------------------------------------------------
(* Probes and their answers on a stream.                                   *)

\* The accepting end answers a probe, and takes the widths that both have or goes.
LEMMA PairAnswers ==
  ASSUME NEW c, NEW c2, c2.by = c.by, c2.to = c.to, c.in, c2.in, NEW Xs, NEW x, NEW Ys, Pair(c, Xs, {x}), x.widths = None,
         NEW msg \in Heard(c, c.to), msg.t = "probe", \A y \in Ys : y.widths = Negotiated(c.to, msg.w),
         NEW tag, Heard(c2, c.to) \subseteq Heard(c, c.to), Heard(c2, c.by) \subseteq Heard(c, c.by) \cup {Resp(Widths[c.to], tag)},
         \A z \in Xs : ~z.passive /\ ~z.asks => Refined(z.widths)
  PROVE  Pair(c2, Xs, Ys)
<1>1. Messages(c) /\ Understood(c, x)
      BY DEF Pair
<1>2. Messages(c2)
      BY <1>1 DEF Messages, Resp
<1>3. \A y \in Ys : Understood(c2, y)
      BY <1>1 DEF Understood, Messages
<1>4. ASSUME NEW z \in Xs, ~z.passive, z.asks PROVE Waits(c2, z, Ys)
  <2>1. Waits(c, z, {x})
        BY <1>4, Zenon DEF Pair
  <2>2. msg.w = z.want
        BY <2>1 DEF Waits
  <2>. QED BY <2>1, <2>2 DEF Waits
<1>5. ASSUME NEW z \in Xs, ~z.passive, ~z.asks PROVE FALSE
  <2>1. Talks(c, z, {x})
        BY <1>5, Zenon DEF Pair
  <2>. QED BY <1>5, <2>1, NoneIs DEF Talks
<1>. QED BY <1>2, <1>3, <1>4, <1>5 DEF Pair

\* The connecting end gets the answer.
LEMMA PairAnswered ==
  ASSUME NEW c, NEW c2, c2.by = c.by, c2.to = c.to, c.in => c2.in, NEW x, NEW y, NEW Ys, Pair(c, {x}, Ys), x.asks, ~x.passive,
         y.asks, y.want = x.want, NEW msg \in Heard(c, c.by), y.widths = msg.w,
         Heard(c2, c.to) \subseteq Heard(c, c.to), Heard(c2, c.by) \subseteq Heard(c, c.by)
  PROVE  Pair(c2, {y}, Ys)
<1>1. Messages(c) /\ (\A z \in Ys : Understood(c, z)) /\ Waits(c, x, Ys)
      BY DEF Pair
<1>2. Messages(c2) /\ \A z \in Ys : Understood(c2, z)
      BY <1>1 DEF Messages, Understood
<1>3. Waits(c2, y, Ys)
      BY <1>1 DEF Waits, Messages
<1>. QED BY <1>2, <1>3 DEF Pair

\* An answer for the device that asked.
LEMMA HeaderAnswered ==
  ASSUME OpenInv, OpenInv', Agree(Views, conns), NEW n \in Nodes, Visiting(n), Conn(n) # 0, Input(n) # <<>>,
         NEW d, d = Here(n), ~mem[n].heap[d].passive, mem[n].heap[d].widths = None,
         NEW msg, msg = Head(Input(n)), Tagged(n, msg.tag) # {}, Tagged(n, msg.tag) \subseteq {app[n].dev},
         mem' = [mem EXCEPT ![n].heap[msg.tag].widths = msg.w], UNCHANGED <<sock, app>>,
         conns' = [conns EXCEPT ![Conn(n)].q[n] = Tail(@)]
  PROVE  Agree(Views', conns')
<1>. DEFINE k == Conn(n)
            x == Seen(mem[n], app[n], d)
<1>1. d \in Range(sock[n].devs) /\ k = ConnAt(mem[n], d)
      BY HereIs
<1>2. /\ Sound(x, n, conns) /\ x.conn = ConnAt(mem[n], d)
      /\ ConnAt(mem[n], d) # 0 =>
                  /\ ConnAt(mem[n], d) \in DOMAIN conns /\ On(Views[n], ConnAt(mem[n], d)) = {x}
                  /\ PairAt(Views, conns, ConnAt(mem[n], d))
                  /\ conns[ConnAt(mem[n], d)].by \in Nodes /\ conns[ConnAt(mem[n], d)].to \in Nodes
                  /\ conns[ConnAt(mem[n], d)].by # conns[ConnAt(mem[n], d)].to
                  /\ n \in {conns[ConnAt(mem[n], d)].by, conns[ConnAt(mem[n], d)].to}
                  /\ ~x.passive /\ conns[ConnAt(mem[n], d)].kind = "tcp" => n = conns[ConnAt(mem[n], d)].by
                  /\ x.passive /\ conns[ConnAt(mem[n], d)].kind = "tcp" /\ n = conns[ConnAt(mem[n], d)].to
                       => conns[ConnAt(mem[n], d)].in
      BY <1>1, EndIs, Zenon
<1>3. x.asks = (app[n].dev = d) /\ ~x.passive /\ x.widths = None
      BY SeenIs
<1>. HIDE DEF x, k
<1>4. x.asks
      BY <1>2, <1>3, NoneIs DEF Sound
<1>5. app[n].dev = d /\ msg.tag = d
      BY <1>3, <1>4, Zenon DEF Tagged
<1>6. /\ conns' \in Seq(Conns) /\ Quiet(conns, conns', {k}) /\ msg \in Heard(conns[k], n) /\ msg \in Msgs
      /\ conns'[k].kind = conns[k].kind /\ conns'[k].by = conns[k].by /\ conns'[k].to = conns[k].to
      /\ conns'[k].in = conns[k].in /\ \A o \in Nodes : Heard(conns'[k], o) \subseteq Heard(conns[k], o)
      BY ReadingIs, Zenon DEF k
<1>7. msg.w \in WidthSet
      BY <1>6 DEF Msgs
<1>8. ASSUME NEW y, Widened(x, y, msg.w), y.asks = x.asks, y.want = x.want PROVE EndAgree(n, k, y)
  <2>1. SUFFICES ASSUME conns[k].kind = "tcp"
                 PROVE  /\ n = conns[k].by => Pair(conns'[k], {y}, On(Views[conns[k].to], k))
                        /\ n = conns[k].to => Pair(conns'[k], On(Views[conns[k].by], k), {y})
        BY <1>6 DEF EndAgree
  <2>2. /\ n = conns[k].by /\ n # conns[k].to /\ conns[k].to \in Nodes /\ PairAt(Views, conns, k)
        /\ On(Views[n], k) = {x}
        BY <1>1, <1>2, <1>3, <2>1 DEF k
  <2>3. Pair(conns[k], {x}, On(Views[conns[k].to], k))
        BY <2>1, <2>2, Zenon DEF PairAt
  <2>4. y.asks /\ y.widths = msg.w
        BY <1>4, <1>8 DEF Widened
  <2>5. /\ Heard(conns'[k], conns[k].to) \subseteq Heard(conns[k], conns[k].to)
        /\ Heard(conns'[k], conns[k].by) \subseteq Heard(conns[k], conns[k].by) /\ msg \in Heard(conns[k], conns[k].by)
        BY <1>6, <2>2, Zenon
  <2>6. Pair(conns'[k], {y}, On(Views[conns[k].to], k))
        BY <1>3, <1>4, <1>6, <1>8, <2>3, <2>4, <2>5, PairAnswered, Zenon
  <2>. QED BY <2>2, <2>6, Zenon
<1>9. mem' = [mem EXCEPT ![n].heap[d].widths = msg.w]
      BY <1>5, Zenon
<1>10. Quiet(conns, conns', {ConnAt(mem[n], d)})
       BY <1>1, <1>6
<1>11. \A y : /\ Widened(Seen(mem[n], app[n], d), y, msg.w)
              /\ y.asks = Seen(mem[n], app[n], d).asks /\ y.want = Seen(mem[n], app[n], d).want
              => (ConnAt(mem[n], d) # 0 => EndAgree(n, ConnAt(mem[n], d), y))
       BY <1>1, <1>8 DEF x
<1>. QED BY <1>1, <1>5, <1>7, <1>9, <1>10, <1>11, RetagAgrees, Zenon

\* A probe was received and answered: what is left to show of its connection.
LEMMA AnsweringIs ==
  ASSUME OpenInv, Agree(Views, conns), NEW n \in Nodes, Visiting(n), Conn(n) # 0, Input(n) # <<>>,
         NEW d, d = Here(n), mem[n].heap[d].passive, mem[n].heap[d].widths = None,
         NEW msg, msg = Head(Input(n)), msg.t = "probe",
         NEW cs, cs = [conns EXCEPT ![Conn(n)].q[n] = Tail(@)],
         NEW c2, c2 = Put(cs, n, Conn(n), Resp(Widths[n], msg.tag))
  PROVE  /\ c2 \in Seq(Conns) /\ Conn(n) \in DOMAIN c2 /\ Quiet(conns, c2, {Conn(n)}) /\ msg \in Msgs
         /\ conns[Conn(n)].kind = "tcp" =>
              /\ n = conns[Conn(n)].to /\ conns[Conn(n)].by \in Nodes \ {n}
              /\ \A x2, Ys : /\ x2.by = c2[Conn(n)].by /\ x2.to = c2[Conn(n)].to /\ x2.in = c2[Conn(n)].in /\ x2.q = c2[Conn(n)].q
                             /\ \A y \in Ys : y.widths = Negotiated(n, msg.w)
                             => Pair(x2, On(Views[conns[Conn(n)].by], Conn(n)), Ys)
<1>. DEFINE k == Conn(n)
            x == Seen(mem[n], app[n], d)
            r == Resp(Widths[n], msg.tag)
<1>1. d \in Range(sock[n].devs) /\ k = ConnAt(mem[n], d) /\ Widths[n] \in WidthSet
      BY HereIs, InvIs
<1>2. /\ Sound(x, n, conns) /\ x.conn = ConnAt(mem[n], d)
      /\ ConnAt(mem[n], d) # 0 =>
                  /\ ConnAt(mem[n], d) \in DOMAIN conns /\ On(Views[n], ConnAt(mem[n], d)) = {x}
                  /\ PairAt(Views, conns, ConnAt(mem[n], d))
                  /\ conns[ConnAt(mem[n], d)].by \in Nodes /\ conns[ConnAt(mem[n], d)].to \in Nodes
                  /\ conns[ConnAt(mem[n], d)].by # conns[ConnAt(mem[n], d)].to
                  /\ n \in {conns[ConnAt(mem[n], d)].by, conns[ConnAt(mem[n], d)].to}
                  /\ ~x.passive /\ conns[ConnAt(mem[n], d)].kind = "tcp" => n = conns[ConnAt(mem[n], d)].by
                  /\ x.passive /\ conns[ConnAt(mem[n], d)].kind = "tcp" /\ n = conns[ConnAt(mem[n], d)].to
                       => conns[ConnAt(mem[n], d)].in
      BY <1>1, EndIs, Zenon
<1>3. x.passive /\ x.widths = None
      BY SeenIs
<1>. HIDE DEF x, k
<1>4. /\ cs \in Seq(Conns) /\ k \in DOMAIN cs /\ DOMAIN cs = DOMAIN conns /\ Quiet(conns, cs, {k})
      /\ msg \in Heard(conns[k], n) /\ msg \in Msgs
      /\ cs[k].kind = conns[k].kind /\ cs[k].by = conns[k].by /\ cs[k].to = conns[k].to /\ cs[k].in = conns[k].in
      /\ \A o \in Nodes : Heard(cs[k], o) \subseteq Heard(conns[k], o)
      BY ReadingIs, Zenon DEF k
<1>5. r \in Msgs
      BY <1>1, <1>4 DEF Resp, Msgs
<1>. HIDE DEF r
<1>6. c2 = Put(cs, n, k, r)
      BY DEF k, r
<1>7. /\ Quiet(cs, c2, {k}) /\ DOMAIN c2 = DOMAIN cs
      /\ c2[k].kind = cs[k].kind /\ c2[k].by = cs[k].by /\ c2[k].to = cs[k].to /\ c2[k].in = cs[k].in
      /\ Heard(c2[k], Other(cs[k], n)) = Heard(cs[k], Other(cs[k], n)) \cup {r}
      /\ \A o \in Nodes : o # Other(cs[k], n) => Heard(c2[k], o) = Heard(cs[k], o)
  <2>1. Quiet(cs, Put(cs, n, k, r), {k}) /\ Sends(cs, Put(cs, n, k, r), n, k, r)
        BY <1>4, <1>5, PutIs, Zenon
  <2>. QED BY <1>6, <2>1, Zenon DEF Sends
<1>8. Quiet(conns, c2, {k})
      BY <1>4, <1>7, QuietTwice
<1>9. c2 \in Seq(Conns)
  <2>1. Only(conns, Put([conns EXCEPT ![Conn(n)].q[n] = Tail(@)], n, Conn(n), r), n)
        BY <1>5, ReadIs, Zenon
  <2>2. Only(conns, c2, n)
        BY <2>1 DEF r
  <2>. QED BY <2>2 DEF Only
<1>10. ASSUME conns[k].kind = "tcp"
       PROVE  /\ n = conns[k].to /\ conns[k].by \in Nodes \ {n}
              /\ \A x2, Ys : /\ x2.by = c2[k].by /\ x2.to = c2[k].to /\ x2.in = c2[k].in /\ x2.q = c2[k].q
                             /\ \A y \in Ys : y.widths = Negotiated(n, msg.w)
                             => Pair(x2, On(Views[conns[k].by], k), Ys)
  <2>. DEFINE c == conns[k]
              Xs == On(Views[c.by], k)
  <2>1. /\ c.by \in Nodes /\ c.to \in Nodes /\ c.by # c.to /\ n \in {c.by, c.to} /\ k # 0
        /\ n = c.to => c.in
        /\ Pair(c, On(Views[c.by], k), On(Views[c.to], k)) /\ On(Views[n], k) = {x}
        BY <1>1, <1>2, <1>3, <1>10 DEF PairAt, k
  <2>2. n = c.to
    <3>1. Messages(c)
          BY <2>1 DEF Pair
    <3>2. n = c.by => msg.t = "resp"
          BY <1>4, <3>1 DEF Messages
    <3>. QED BY <2>1, <3>2
  <2>3. \A z \in Xs : ~z.passive /\ ~z.asks => Refined(z.widths)
    <3>1. \A z \in Views[c.by] : Sound(z, c.by, conns)
          BY <2>1 DEF Agree
    <3>. QED BY <3>1 DEF Sound, On
  <2>4. Pair(c, Xs, {x}) /\ c.in
        BY <2>1, <2>2, Zenon
  <2>5. Other(cs[k], n) = c.by
        BY <1>4, <2>1, <2>2 DEF Other
  <2>6. Heard(c2[k], c.to) \subseteq Heard(c, c.to) /\ Heard(c2[k], c.by) \subseteq Heard(c, c.by) \cup {r}
    <3>1. Heard(c2[k], c.by) = Heard(cs[k], c.by) \cup {r}
          BY <1>7, <2>5
    <3>2. Heard(c2[k], c.to) = Heard(cs[k], c.to)
          BY <1>7, <2>1, <2>5
    <3>3. Heard(cs[k], c.to) \subseteq Heard(c, c.to) /\ Heard(cs[k], c.by) \subseteq Heard(c, c.by)
          BY <1>4, <2>1
    <3>. QED BY <3>1, <3>2, <3>3
  <2>. HIDE DEF c, Xs
  <2>7. ASSUME NEW x2, x2.by = c2[k].by, x2.to = c2[k].to, x2.in = c2[k].in, x2.q = c2[k].q,
               NEW Ys, \A y \in Ys : y.widths = Negotiated(n, msg.w)
        PROVE  Pair(x2, Xs, Ys)
    <3>1. x2.by = c.by /\ x2.to = c.to /\ x2.in
          BY <1>4, <1>7, <2>4, <2>7 DEF c
    <3>2. Heard(x2, c.to) \subseteq Heard(c, c.to) /\ Heard(x2, c.by) \subseteq Heard(c, c.by) \cup {Resp(Widths[c.to], msg.tag)}
          BY <2>2, <2>6, <2>7, Zenon DEF Heard, r
    <3>3. msg \in Heard(c, c.to) /\ \A y \in Ys : y.widths = Negotiated(c.to, msg.w)
          BY <1>4, <2>2, <2>7, Zenon DEF c
    <3>. QED BY <1>3, <2>3, <2>4, <3>1, <3>2, <3>3, PairAnswers, Zenon
  <2>. QED BY <2>1, <2>2, <2>7, Zenon DEF c, Xs
<1>. QED BY <1>4, <1>7, <1>8, <1>9, <1>10, Zenon DEF k

\* A probe that a passive device answers: it takes the widths that both have, or goes.
Answering(n) ==
  Put([conns EXCEPT ![Conn(n)].q[n] = Tail(@)], n, Conn(n), Resp(Widths[n], Head(Input(n)).tag))
LEMMA HeaderAnswers ==
  ASSUME OpenInv, OpenInv', Agree(Views, conns), NEW n \in Nodes, Visiting(n), Conn(n) # 0, Input(n) # <<>>,
         NEW d, d = Here(n), mem[n].heap[d].passive, mem[n].heap[d].widths = None,
         NEW msg, msg = Head(Input(n)), msg.t = "probe",
         app' = app,
         \/ /\ mem' = [mem EXCEPT ![n].heap[d].widths = Negotiated(n, msg.w)] /\ conns' = Answering(n) /\ sock' = sock
         \/ Kill(n, Answering(n))
  PROVE  Agree(Views', conns')
<1>. DEFINE cs == [conns EXCEPT ![Conn(n)].q[n] = Tail(@)]
            c2 == Put(cs, n, Conn(n), Resp(Widths[n], msg.tag))
            k == Conn(n)
            w == Negotiated(n, msg.w)
<1>1. d \in Range(sock[n].devs) /\ k = ConnAt(mem[n], d) /\ k \in DOMAIN conns /\ Widths[n] \in WidthSet
      /\ conns \in Seq(Conns)
      BY HereIs, InvIs
<1>2. /\ c2 \in Seq(Conns) /\ k \in DOMAIN c2 /\ Quiet(conns, c2, {k}) /\ msg \in Msgs
      /\ conns[k].kind = "tcp" =>
           /\ n = conns[k].to /\ conns[k].by \in Nodes \ {n}
           /\ \A x2, Ys : /\ x2.by = c2[k].by /\ x2.to = c2[k].to /\ x2.in = c2[k].in /\ x2.q = c2[k].q
                          /\ \A y \in Ys : y.widths = Negotiated(n, msg.w)
                          => Pair(x2, On(Views[conns[k].by], k), Ys)
      BY AnsweringIs, Zenon
<1>3. c2 = Answering(n)
      BY DEF Answering
<1>. HIDE DEF cs, c2
<1>4. w \in WidthSet
  <2>1. msg.w \in WidthSet
        BY <1>2 DEF Msgs
  <2>. QED BY <1>1, <2>1, WidthsAre DEF Negotiated
<1>5. c2[k].kind = conns[k].kind /\ c2[k].by = conns[k].by /\ c2[k].to = conns[k].to
      BY <1>1, <1>2 DEF Quiet
<1>. HIDE DEF k, w
<1>6. CASE mem' = [mem EXCEPT ![n].heap[d].widths = w] /\ conns' = c2 /\ sock' = sock
  <2>1. ASSUME NEW y, Widened(Seen(mem[n], app[n], d), y, w) PROVE EndAgree(n, k, y)
    <3>1. y.widths = w
          BY <2>1 DEF Widened
    <3>2. conns[k].kind = "tcp" => Pair(c2[k], On(Views[conns[k].by], k), {y})
          BY <1>2, <3>1 DEF w
    <3>. QED BY <1>2, <1>5, <1>6, <3>2 DEF EndAgree
  <2>2. \A y : /\ Widened(Seen(mem[n], app[n], d), y, w)
               /\ y.asks = Seen(mem[n], app[n], d).asks /\ y.want = Seen(mem[n], app[n], d).want
               => (ConnAt(mem[n], d) # 0 => EndAgree(n, ConnAt(mem[n], d), y))
        BY <1>1, <2>1
  <2>3. Quiet(conns, conns', {ConnAt(mem[n], d)}) /\ UNCHANGED <<sock, app>> /\ mem' = [mem EXCEPT ![n].heap[d].widths = w]
        BY <1>1, <1>2, <1>6
  <2>. QED BY <1>1, <1>4, <2>2, <2>3, RetagAgrees, Zenon
<1>7. CASE Kill(n, c2)
  <2>. DEFINE z == [c2[k] EXCEPT !.ends = @ \ {n}]
  <2>1. conns' = [c2 EXCEPT ![k] = z]
        BY <1>7 DEF Kill, Shut, k
  <2>2. c2[k] \in Conns
        BY <1>2, ConnIs
  <2>3. z.kind = c2[k].kind /\ z.by = c2[k].by /\ z.to = c2[k].to /\ z.in = c2[k].in /\ z.q = c2[k].q /\ n \notin z.ends
        BY <2>2 DEF Conns
  <2>. HIDE DEF z
  <2>4. conns'[k] = z /\ DOMAIN conns' = DOMAIN c2
        BY <1>2, <2>1
  <2>5. mem' = [mem EXCEPT ![n] = mem'[n]] /\ sock' = [sock EXCEPT ![n] = sock'[n]] /\ app' = [app EXCEPT ![n] = app'[n]]
    <3>1. mem \in [Nodes -> Pools] /\ sock \in [Nodes -> Socks] /\ app \in [Nodes -> Apps]
          BY StateIs
    <3>2. Item(n, Here(n)).passive
          BY DEF Item
    <3>3. mem' = [mem EXCEPT ![n] = CloseDevMem(mem[n], Here(n))] /\ sock' = [sock EXCEPT ![n].devs = Without(@, Here(n))]
          BY <1>7, <3>1, <3>2 DEF Kill
    <3>. QED BY <3>1, <3>3
  <2>6. conns[k].kind = "tcp" => PairAt(Views', conns', k)
    <3>1. SUFFICES ASSUME conns[k].kind = "tcp" PROVE PairAt(Views', conns', k)
          OBVIOUS
    <3>2. Pair(z, On(Views[conns[k].by], k), {})
          BY <1>2, <2>3, <3>1
    <3>3. /\ Views'[n] = View(mem'[n], sock'[n], app'[n]) /\ Views'[conns[k].by] = Views[conns[k].by]
          BY <1>2, <2>5, <3>1, ViewsAre
    <3>4. On(Views'[n], k) = {}
      <4>1. Node(mem'[n], sock'[n], chk'[n].link, EndsIn(conns', n))
            BY NextNode
      <4>2. k \notin EndsIn(conns', n) /\ k # 0
            BY <2>3, <2>4 DEF EndsIn, k
      <4>. QED BY <3>3, <4>1, <4>2, OnIs
    <3>5. z.by = conns[k].by /\ z.to = n
          BY <1>2, <1>5, <2>3, <3>1
    <3>. QED BY <2>4, <3>2, <3>3, <3>4, <3>5, Zenon DEF PairAt
  <2>7. \A i \in DOMAIN conns' : i \in {k} => PairAt(Views', conns', i)
    <3>1. conns'[k].kind = conns[k].kind
          BY <1>5, <2>3, <2>4
    <3>. QED BY <2>6, <3>1 DEF PairAt
  <2>8. Conn(n) \in DOMAIN c2
        BY <1>2 DEF k
  <2>. QED BY <1>2, <1>7, <2>7, <2>8, KillAgrees
<1>. QED BY <1>3, <1>6, <1>7 DEF w

LEMMA LinkHeaderAgrees ==
  ASSUME OpenInv, OpenInv', Agree(Views, conns), NEW n \in Nodes, LinkHeader(n), ~stray'
  PROVE  Agree(Views', conns')
<1>. DEFINE d == Here(n)
            msg == Head(Input(n))
            cs == [conns EXCEPT ![Conn(n)].q[n] = Tail(@)]
            c2 == Put(cs, n, Conn(n), Resp(Widths[n], msg.tag))
            w == Negotiated(n, msg.w)
<1>1. /\ Visiting(n) /\ Conn(n) # 0 /\ Input(n) # <<>> /\ mem[n].heap[d].widths = None /\ app' = app
      /\ msg.t = "resp" /\ ~mem[n].heap[d].passive => Tagged(n, msg.tag) \subseteq {app[n].dev}
      BY Zenon DEF LinkHeader, Item
<1>2. Item(n, d) = mem[n].heap[d]
      BY DEF Item
<1>3. \/ /\ msg.t = "probe" /\ mem[n].heap[d].passive
         /\ \/ mem' = [mem EXCEPT ![n].heap[d].widths = w] /\ conns' = c2 /\ sock' = sock
            \/ Kill(n, c2)
      \/ /\ msg.t = "resp" /\ ~mem[n].heap[d].passive /\ Tagged(n, msg.tag) # {}
         /\ mem' = [mem EXCEPT ![n].heap[msg.tag].widths = msg.w] /\ conns' = cs /\ sock' = sock
      \/ Kill(n, cs)
  <2>. HIDE DEF d, w, c2, cs
  <2>1. CASE msg.t = "probe" /\ Item(n, d).passive /\ Possible(w)
        BY <1>2, <2>1 DEF LinkHeader, d, w, c2, cs
  <2>2. CASE msg.t = "probe" /\ Item(n, d).passive /\ ~Possible(w)
        BY <1>2, <2>2 DEF LinkHeader, d, w, c2, cs
  <2>3. CASE msg.t = "resp" /\ ~Item(n, d).passive /\ Tagged(n, msg.tag) # {}
        BY <1>2, <2>3 DEF LinkHeader, d, w, c2, cs
  <2>4. CASE /\ ~(msg.t = "probe" /\ Item(n, d).passive /\ Possible(w))
             /\ ~(msg.t = "probe" /\ Item(n, d).passive /\ ~Possible(w))
             /\ ~(msg.t = "resp" /\ ~Item(n, d).passive /\ Tagged(n, msg.tag) # {})
        BY <2>4 DEF LinkHeader, d, w, c2, cs
  <2>. QED BY <2>1, <2>2, <2>3, <2>4
<1>4. cs \in Seq(Conns) /\ Conn(n) \in DOMAIN cs /\ Quiet(conns, cs, {})
      BY <1>1, ReadingIs, Zenon
<1>5. cs = [conns EXCEPT ![Conn(n)].q[n] = Tail(@)] /\ c2 = Answering(n)
      /\ d = Here(n) /\ msg = Head(Input(n)) /\ w = Negotiated(n, msg.w)
      BY DEF Answering
<1>. HIDE DEF d, msg, cs, c2, w
<1>6. CASE /\ msg.t = "probe" /\ mem[n].heap[d].passive
           /\ \/ mem' = [mem EXCEPT ![n].heap[d].widths = w] /\ conns' = c2 /\ sock' = sock
              \/ Kill(n, c2)
  <2>1. \/ /\ mem' = [mem EXCEPT ![n].heap[d].widths = Negotiated(n, msg.w)] /\ conns' = Answering(n) /\ sock' = sock
        \/ Kill(n, Answering(n))
        BY <1>5, <1>6
  <2>. QED BY <1>1, <1>5, <1>6, <2>1, HeaderAnswers
<1>7. CASE /\ msg.t = "resp" /\ ~mem[n].heap[d].passive /\ Tagged(n, msg.tag) # {}
           /\ mem' = [mem EXCEPT ![n].heap[msg.tag].widths = msg.w] /\ conns' = cs /\ sock' = sock
  <2>1. conns' = [conns EXCEPT ![Conn(n)].q[n] = Tail(@)]
        BY <1>5, <1>7
  <2>. QED BY <1>1, <1>5, <1>7, <2>1, HeaderAnswered, Zenon
<1>8. CASE Kill(n, cs)
      BY <1>1, <1>4, <1>8, QuietKillAgrees
<1>. QED BY <1>3, <1>6, <1>7, <1>8

-----------------------------------------------------------------------------
(* A device more.                                                          *)

\* Node n has a new device dev with a link to connection k.
Adds(n, dev, k) ==
  /\ mem' = [mem EXCEPT ![n] = mem'[n]] /\ sock' = [sock EXCEPT ![n] = sock'[n]] /\ app' = [app EXCEPT ![n] = app'[n]]
  /\ sock'[n].devs = <<Fresh(mem[n])>> \o sock[n].devs
  /\ Added(mem[n], mem'[n], chk[n].link, dev, k)
\* What is seen of it.
Appears(n, y, dev, k) ==
  /\ y.conn = k /\ y.kind = dev.kind /\ y.passive = dev.passive /\ y.widths = dev.widths
  /\ y.asks = (app'[n].dev = Fresh(mem[n])) /\ y.want = IF app'[n].dev = Fresh(mem[n]) THEN app'[n].want ELSE None
LEMMA AddIs ==
  ASSUME OpenInv, NEW n \in Nodes, NEW dev, NEW k, Adds(n, dev, k)
  PROVE  /\ Range(sock'[n].devs) = {Fresh(mem[n])} \cup Range(sock[n].devs) /\ Fresh(mem[n]) \notin Range(sock[n].devs)
         /\ Inherits(mem[n], sock[n], mem'[n], sock'[n], {Fresh(mem[n])})
         /\ ConnAt(mem'[n], Fresh(mem[n])) = k
         /\ Appears(n, Seen(mem'[n], app'[n], Fresh(mem[n])), dev, k)
<1>. DEFINE m == mem[n]
            d == Fresh(m)
            one == <<d>>
            q == sock[n].devs
<1>1. Added(m, mem'[n], chk[n].link, dev, k) /\ sock'[n].devs = one \o q
      BY DEF Adds
<1>2. Node(m, sock[n], chk[n].link, EndsIn(conns, n))
      BY StateIs
<1>3. /\ d \in Nat \ {0} /\ m.heap[d].is = "free"
      /\ mem'[n].heap[d] = dev /\ dev.link # 0 /\ mem'[n].heap[dev.link] = Link(k)
      /\ \A i \in DOMAIN m.heap : m.heap[i].is # "free" /\ i # chk[n].link => mem'[n].heap[i] = m.heap[i]
      BY <1>1 DEF Added
<1>4. ConnAt(mem'[n], d) = k
      BY <1>3 DEF ConnAt, LinkOf, Link
<1>5. q \in Seq(Nat) /\ d \notin Range(q)
      BY <1>2, <1>3, NodeIs
<1>6. one \in Seq(Nat) /\ Range(one) = {d}
      BY <1>3, OneIs
<1>. HIDE DEF one, d, m, q
<1>7. Range(one \o q) = {d} \cup Range(q)
      BY <1>5, <1>6, ConcatIs
<1>8. Inherits(m, sock[n], mem'[n], sock'[n], {d})
  <2>1. Range(sock'[n].devs) \ {d} \subseteq Range(sock[n].devs)
        BY <1>1, <1>7 DEF q
  <2>. QED BY <1>2, <1>3, <2>1, FreeInherits
<1>9. Appears(n, Seen(mem'[n], app'[n], d), dev, k)
      BY <1>3, <1>4, SeenIs DEF Appears, d, m
<1>. QED BY <1>1, <1>4, <1>5, <1>7, <1>8, <1>9 DEF d, m, q

LEMMA AddAgrees ==
  ASSUME OpenInv, OpenInv', Agree(Views, conns), NEW n \in Nodes, NEW dev, NEW k, Adds(n, dev, k),
         SameAsk(app[n], app'[n], Range(sock[n].devs)), Quiet(conns, conns', {k}),
         \A y : Appears(n, y, dev, k) => Sound(y, n, conns') /\ (k # 0 => EndAgree(n, k, y))
  PROVE  Agree(Views', conns')
<1>. DEFINE d == Fresh(mem[n])
            y == Seen(mem'[n], app'[n], d)
<1>1. /\ Range(sock'[n].devs) = {d} \cup Range(sock[n].devs) /\ d \notin Range(sock[n].devs)
      /\ Inherits(mem[n], sock[n], mem'[n], sock'[n], {d})
      /\ ConnAt(mem'[n], d) = k /\ Appears(n, y, dev, k)
      BY AddIs
<1>2. mem' = [mem EXCEPT ![n] = mem'[n]] /\ sock' = [sock EXCEPT ![n] = sock'[n]] /\ app' = [app EXCEPT ![n] = app'[n]]
      BY DEF Adds
<1>. HIDE DEF d, y
<1>3. Sound(y, n, conns') /\ (k # 0 => EndAgree(n, k, y))
      BY <1>1
<1>4. SameAsk(app[n], app'[n], Range(sock'[n].devs) \ {d})
      BY <1>1 DEF SameAsk
<1>5. Changes(n, {k}, {d})
      BY <1>1, <1>2, <1>3, <1>4 DEF Changes, y
<1>6. ASSUME NEW i \in DOMAIN conns', i \in {k} PROVE PairAt(Views', conns', i)
  <2>1. conns' \in Seq(Conns)
        BY NextNode
  <2>2. k \in DOMAIN conns' /\ k # 0
        BY <1>6, <2>1, ConnIs
  <2>3. n \in {conns'[k].by, conns'[k].to}
    <3>1. y.conn = k
          BY <1>1 DEF Appears
    <3>. QED BY <1>3, <2>2, <3>1 DEF Sound
  <2>4. EndAgree(n, k, Seen(mem'[n], app'[n], d)) /\ d \in Range(sock'[n].devs)
        BY <1>1, <1>3, <2>2 DEF y
  <2>5. PairAt(Views', conns', k)
        BY <1>1, <1>2, <2>2, <2>3, <2>4, EndAgrees
  <2>. QED BY <1>6, <2>5
<1>. QED BY <1>5, <1>6, ChangeAgrees

\* The end that accepts has the connection now, which nobody has used for more than a probe.
LEMMA PairAccepts ==
  ASSUME NEW c, NEW c2, c2.by = c.by, c2.to = c.to, c2.q = c.q, ~c.in, c2.in, NEW Xs, NEW y, Pair(c, Xs, {}),
         y.widths = None
  PROVE  Pair(c2, Xs, {y})
<1>1. Heard(c2, c.by) = Heard(c, c.by) /\ Heard(c2, c.to) = Heard(c, c.to)
      BY DEF Heard
<1>2. Messages(c) /\ Messages(c2)
      BY <1>1 DEF Messages, Pair
<1>3. Understood(c2, y)
      BY <1>1, <1>2 DEF Messages, Understood
<1>4. ASSUME NEW x \in Xs, ~x.passive PROVE x.asks /\ Waits(c2, x, {y})
  <2>1. IF x.asks THEN Waits(c, x, {}) ELSE Talks(c, x, {})
        BY <1>4 DEF Pair
  <2>2. x.asks /\ Waits(c, x, {})
        BY <2>1 DEF Talks
  <2>. QED BY <1>1, <2>2 DEF Waits
<1>. QED BY <1>2, <1>3, <1>4, Zenon DEF Pair

\* A program that waits for no answer has no device of that number.
LEMMA AsksIs ==
  ASSUME OpenInv, Rests, NEW n \in Nodes, NEW d, d # 0, d \notin Range(sock[n].devs)
  PROVE  app[n].dev # d
<1>1. app \in [Nodes -> Apps] /\ Flow(n)
      BY StateIs
<1>2. app[n].pc \in {"idle", "probe"}
      BY <1>1 DEF Apps
<1>. QED BY <1>1, <1>2 DEF Rests, Flow

LEMMA AcceptAgrees ==
  ASSUME OpenInv, OpenInv', Rests, Agree(Views, conns), NEW n \in Nodes, NEW k \in DOMAIN conns, Accept(n, k)
  PROVE  Agree(Views', conns')
<1>1. /\ conns \in Seq(Conns) /\ sock \in [Nodes -> Socks] /\ mem \in [Nodes -> Pools]
      /\ Node(mem[n], sock[n], chk[n].link, EndsIn(conns, n))
      BY StateIs
<1>2. /\ conns[k].to = n /\ ~conns[k].in /\ app' = app /\ chk[n].link # 0
      BY DEF Accept, Arrived
<1>3. /\ conns[k].by \in Nodes /\ conns[k].by # n /\ conns[k].kind = "tcp" /\ n \notin conns[k].ends
      /\ k \in Nat \ {0}
      BY <1>1, <1>2, ConnIs DEF OpenInv, ConnInv, Apart
<1>4. app' = [app EXCEPT ![n] = app'[n]] /\ \A ds : SameAsk(app[n], app'[n], ds)
      BY <1>2, OnlyThis
<1>5. CASE Len(mem[n].free) < 2
  <2>1. conns' = [conns EXCEPT ![k].in = TRUE] /\ mem' = mem /\ sock' = sock
        BY <1>5 DEF Accept
  <2>. DEFINE x == [conns[k] EXCEPT !.in = TRUE]
  <2>2. conns' = [conns EXCEPT ![k] = x]
        BY <2>1
  <2>3. conns[k] \in Conns
        BY <1>1, ConnIs
  <2>4. x.kind = conns[k].kind /\ x.by = conns[k].by /\ x.to = conns[k].to /\ x.in /\ x.q = conns[k].q
        BY <2>3 DEF Conns
  <2>. HIDE DEF x
  <2>5. \A o \in {conns[k].by, conns[k].to} : Heard(x, o) \subseteq Heard(conns[k], o)
        BY <2>4 DEF Heard
  <2>6. Quiet(conns, [conns EXCEPT ![k] = x], {})
        BY <1>1, <2>4, <2>5, QuietOne, Zenon
  <2>. QED BY <1>4, <2>1, <2>2, <2>6, SameAgrees, Zenon
<1>6. CASE ~(Len(mem[n].free) < 2)
  <2>. DEFINE m == mem[n]
              dev == Device([kind |-> "tcp", to |-> conns[k].by], chk[n].link, TRUE, None)
              x == [conns[k] EXCEPT !.in = TRUE, !.ends = @ \cup {n}]
  <2>1. /\ mem' = [mem EXCEPT ![n] = AcceptedMem(m, chk[n].link, dev, k)]
        /\ sock' = [sock EXCEPT ![n].devs = <<Fresh(m)>> \o @]
        /\ conns' = [conns EXCEPT ![k].in = TRUE, ![k].ends = @ \cup {n}]
        BY <1>6, Zenon DEF Accept, AcceptedMem
  <2>2. conns[k] \in Conns
        BY <1>1, ConnIs
  <2>3. x.kind = conns[k].kind /\ x.by = conns[k].by /\ x.to = conns[k].to /\ x.in /\ x.q = conns[k].q
        BY <2>2 DEF Conns
  <2>4. conns' = [conns EXCEPT ![k] = x]
        BY <1>1, <2>1, <2>2, Zenon DEF Conns
  <2>5. DOMAIN conns' = DOMAIN conns /\ conns'[k] = x
        BY <1>1, <2>4
  <2>6. /\ dev.kind = "tcp" /\ dev.passive /\ dev.widths = None /\ dev.link = chk[n].link
        BY DEF Device
  <2>7. dev \in Devs
        BY <1>1, <1>3, WidthsAre DEF Device, Devs, AllKinds, Node
  <2>. HIDE DEF x, dev
  <2>8. Accepts(m, sock[n], chk[n].link, EndsIn(conns, n), dev, k)
    <3>1. Len(m.free) \in Nat
          BY <1>1, PoolIs DEF Node
    <3>2. Len(m.free) >= 2
          BY <1>6, <3>1
    <3>3. k \notin EndsIn(conns, n)
          BY <1>3 DEF EndsIn
    <3>. QED BY <1>1, <1>2, <1>3, <2>6, <2>7, <3>2, <3>3 DEF Accepts
  <2>9. Added(m, AcceptedMem(m, chk[n].link, dev, k), chk[n].link, dev, k)
    <3>. DEFINE s == sock[n]
                l == chk[n].link
                E == EndsIn(conns, n)
    <3>1. Accepts(m, s, l, E, dev, k)
          BY <2>8
    <3>. HIDE DEF m, s, l, E
    <3>2. /\ Node(AcceptedMem(m, l, dev, k), [s EXCEPT !.devs = <<Fresh(m)>> \o @], m.free[2], With(E, k))
          /\ DOMAIN AcceptedMem(m, l, dev, k).heap = DOMAIN m.heap /\ Fresh(m) = m.free[1]
          /\ m.heap[m.free[1]].is = "free"
          /\ \A i \in DOMAIN m.heap : m.heap[i].is # "free" /\ i # l => AcceptedMem(m, l, dev, k).heap[i] = m.heap[i]
          /\ Added(m, AcceptedMem(m, l, dev, k), l, dev, k)
          BY <3>1, AcceptKeeps, Zenon
    <3>. QED BY <3>2 DEF l
  <2>10. /\ mem' = [mem EXCEPT ![n] = mem'[n]] /\ mem'[n] = AcceptedMem(m, chk[n].link, dev, k)
         /\ sock' = [sock EXCEPT ![n] = sock'[n]] /\ sock'[n].devs = <<Fresh(m)>> \o sock[n].devs
    <3>1. sock' = [sock EXCEPT ![n] = [sock[n] EXCEPT !.devs = <<Fresh(m)>> \o sock[n].devs]]
          BY <1>1, <2>1
    <3>2. sock'[n] = [sock[n] EXCEPT !.devs = <<Fresh(m)>> \o sock[n].devs] /\ sock' = [sock EXCEPT ![n] = sock'[n]]
          BY <3>1, OnlyThis, Zenon
    <3>3. sock[n] \in Socks
          BY <1>1
    <3>4. mem'[n] = AcceptedMem(m, chk[n].link, dev, k) /\ mem' = [mem EXCEPT ![n] = mem'[n]]
          BY <2>1, OnlyThis, Zenon
    <3>. QED BY <3>2, <3>3, <3>4 DEF Socks
  <2>11. Adds(n, dev, k)
        BY <1>4, <2>9, <2>10 DEF Adds
  <2>12. app'[n].dev # Fresh(mem[n])
    <3>1. Fresh(mem[n]) \notin Range(sock[n].devs)
          BY <2>11, AddIs, Zenon
    <3>2. Fresh(mem[n]) # 0
          BY <2>9 DEF Added
    <3>. QED BY <1>2, <3>1, <3>2, AsksIs
  <2>13. Quiet(conns, conns', {k})
    <3>1. Quiet(conns, [conns EXCEPT ![k] = x], {k})
          BY <1>1, <2>3, QuietOne, Zenon
    <3>. QED BY <2>4, <3>1
  <2>14. Pair(conns[k], On(Views[conns[k].by], k), {})
    <3>1. PairAt(Views, conns, k)
          BY DEF Agree
    <3>2. On(Views[n], k) = {}
      <4>1. Views[n] = View(mem[n], sock[n], app[n])
            BY DEF Views
      <4>2. k # 0 /\ k \notin EndsIn(conns, n)
            BY <1>3 DEF EndsIn
      <4>. HIDE DEF Views
      <4>. QED BY <1>1, <4>1, <4>2, OnIs
    <3>. QED BY <1>2, <1>3, <3>1, <3>2 DEF PairAt
  <2>15. ASSUME NEW y, Appears(n, y, dev, k) PROVE Sound(y, n, conns') /\ EndAgree(n, k, y)
    <3>1. y.conn = k /\ y.kind = "tcp" /\ y.passive /\ y.widths = None /\ ~y.asks
          BY <2>6, <2>12, <2>15, Zenon DEF Appears
    <3>2. Sound(y, n, conns')
          BY <1>2, <1>3, <2>3, <2>5, <3>1 DEF Sound
    <3>3. Pair(x, On(Views[conns[k].by], k), {y})
      <4>. DEFINE Xs == On(Views[conns[k].by], k)
                  c == conns[k]
      <4>1. x.by = c.by /\ x.to = c.to /\ x.q = c.q /\ ~c.in /\ x.in /\ Pair(c, Xs, {})
            BY <1>2, <2>3, <2>14
      <4>. HIDE DEF Xs, c
      <4>2. Pair(x, Xs, {y})
            BY <3>1, <4>1, PairAccepts
      <4>. QED BY <4>2 DEF Xs
    <3>4. EndAgree(n, k, y)
          BY <1>2, <1>3, <2>3, <2>5, <3>3 DEF EndAgree
    <3>. QED BY <3>2, <3>4
  <2>. QED BY <1>4, <2>11, <2>13, <2>15, AddAgrees
<1>. QED BY <1>5, <1>6

\* An open device sends; what it sends is understood.
LEMMA PairTalks ==
  ASSUME NEW c, NEW c2, c2.by = c.by, c2.to = c.to, c2.in = c.in, c.by # c.to, NEW x, NEW Ys, Pair(c, {x}, Ys),
         ~x.passive, ~x.asks, x.widths # None,
         Heard(c2, c.by) \subseteq Heard(c, c.by),
         \A m \in Heard(c2, c.to) : m \in Heard(c, c.to) \/ (m.t = "data" /\ m.w = x.widths)
  PROVE  Pair(c2, {x}, Ys)
<1>1. Talks(c, x, Ys) /\ Messages(c) /\ \A y \in Ys : Understood(c, y)
      BY DEF Pair
<1>2. Messages(c2)
      BY <1>1 DEF Messages, Talks
<1>3. \A y \in Ys : Understood(c2, y)
      BY <1>1 DEF Understood, Talks
<1>4. Talks(c2, x, Ys)
      BY <1>1 DEF Talks
<1>. QED BY <1>2, <1>3, <1>4 DEF Pair

LEMMA DeviceNextAgrees ==
  ASSUME OpenInv, OpenInv', Agree(Views, conns), NEW n \in Nodes, NEW sends \in BOOLEAN, DeviceNext(n, sends)
  PROVE  Agree(Views', conns')
<1>1. mem' = mem /\ sock' = sock /\ app' = app /\ Visiting(n)
      BY DEF DeviceNext
<1>2. CASE ~sends
  <2>1. conns' = conns
        BY <1>2 DEF DeviceNext
  <2>. QED BY <1>1, <2>1, NothingAgrees
<1>3. CASE sends
  <2>. DEFINE k == Conn(n)
              d == Here(n)
              x == Seen(mem[n], app[n], d)
              msg == [t |-> "data", w |-> Item(n, d).widths, tag |-> 0]
  <2>1. ~Item(n, d).passive /\ k # 0 /\ app[n].dev # d /\ conns' = Put(conns, n, k, msg)
        BY <1>3 DEF DeviceNext
  <2>2. /\ d \in Range(sock[n].devs) /\ Item(n, d) = mem[n].heap[d] /\ mem[n].heap[d] \in Devs
        /\ k = ConnAt(mem[n], d) /\ k \in DOMAIN conns
        BY <1>1, <2>1, HereIs
  <2>3. msg \in Msgs /\ msg.t = "data" /\ msg.w = mem[n].heap[d].widths
        BY <2>2 DEF Msgs, Devs
  <2>4. conns \in Seq(Conns)
        BY StateIs
  <2>5. x.conn = k /\ ~x.passive /\ ~x.asks /\ x.widths = mem[n].heap[d].widths
    <3>. HIDE DEF k, d, msg
    <3>1. x.conn = ConnAt(mem[n], d) /\ x.passive = mem[n].heap[d].passive /\ x.asks = (app[n].dev = d)
          /\ x.widths = mem[n].heap[d].widths
          BY SeenIs
    <3>. HIDE DEF x
    <3>. QED BY <2>1, <2>2, <3>1, Zenon
  <2>. HIDE DEF msg, x, k, d
  <2>6. /\ Sound(x, n, conns) /\ On(Views[n], k) = {x} /\ PairAt(Views, conns, k)
        /\ conns[k].by \in Nodes /\ conns[k].to \in Nodes /\ conns[k].by # conns[k].to
        /\ conns[k].kind = "tcp" => n = conns[k].by
    <3>. HIDE DEF Views
    <3>. QED BY <2>1, <2>2, <2>5, EndIs DEF x
  <2>7. x.widths # None
        BY <2>5, <2>6, NoneIs DEF Sound
  <2>8. Quiet(conns, conns', {k}) /\ Sends(conns, conns', n, k, msg)
        BY <2>1, <2>2, <2>3, <2>4, PutIs
  <2>9. Changes(n, {k}, {})
    <3>1. mem' = [mem EXCEPT ![n] = mem'[n]] /\ sock' = [sock EXCEPT ![n] = sock'[n]] /\ app' = [app EXCEPT ![n] = app'[n]]
          BY <1>1, OnlyThis
    <3>2. Inherits(mem[n], sock[n], mem'[n], sock'[n], {})
          BY <1>1 DEF Inherits
    <3>3. SameAsk(app[n], app'[n], Range(sock'[n].devs) \ {})
          BY <1>1 DEF SameAsk
    <3>. QED BY <3>1, <3>2, <3>3 DEF Changes
  <2>10. Views' = Views
        BY <1>1 DEF Views
  <2>11. PairAt(Views', conns', k)
    <3>1. CASE conns[k].kind = "tcp"
      <4>. DEFINE c == conns[k]
                  c2 == conns'[k]
                  Ys == On(Views[conns[k].to], k)
      <4>1. Pair(c, {x}, Ys)
            BY <2>6, <3>1 DEF PairAt
      <4>2. Other(conns[k], n) = conns[k].to
            BY <2>6, <3>1 DEF Other
      <4>3. c2.by = c.by /\ c2.to = c.to /\ c2.in = c.in /\ Heard(c2, c.to) = Heard(c, c.to) \cup {msg}
            /\ Heard(c2, c.by) = Heard(c, c.by)
            BY <2>6, <2>8, <4>2 DEF Sends
      <4>4. /\ Heard(c2, c.by) \subseteq Heard(c, c.by) /\ c.by # c.to
            /\ \A m \in Heard(c2, c.to) : m \in Heard(c, c.to) \/ (m.t = "data" /\ m.w = x.widths)
            BY <2>3, <2>5, <2>6, <4>3
      <4>. HIDE DEF c, c2, Ys
      <4>5. Pair(c2, {x}, Ys)
            BY <2>5, <2>7, <4>1, <4>3, <4>4, PairTalks
      <4>6. On(Views[conns'[k].by], k) = {x} /\ conns'[k].to = conns[k].to
            BY <2>6, <3>1, <4>3 DEF c, c2
      <4>. QED BY <2>10, <4>5, <4>6 DEF c2, Ys, PairAt
    <3>2. CASE conns[k].kind # "tcp"
          BY <2>8, <3>2 DEF Sends, PairAt
    <3>. QED BY <3>1, <3>2
  <2>12. \A i \in DOMAIN conns' : i \in {k} => PairAt(Views', conns', i)
        BY <2>11
  <2>. HIDE DEF Views
  <2>. QED BY <2>8, <2>9, <2>12, ChangeAgrees
<1>. QED BY <1>2, <1>3

\* What opening a transport's link does to the connections.
Connects(n, o, k, cs) ==
  /\ cs \in Seq(Conns) /\ Quiet(conns, cs, {k})
  /\ k # 0 => k \in DOMAIN cs /\ cs[k].kind = o.kind /\ n \in {cs[k].by, cs[k].to}
  /\ o.kind = "tcp" => /\ k \notin DOMAIN conns /\ cs[k].by = n /\ cs[k].to = o.to
                       /\ Heard(cs[k], n) = {} /\ Heard(cs[k], o.to) = {}
LEMMA WireConnects ==
  ASSUME OpenInv, NEW n \in Nodes, NEW o, o.to \in Nodes \ {n}, o.kind = "dev"
  PROVE  Connects(n, o, Wire(n, o), OpenWire(n, o))
<1>. DEFINE k == Wire(n, o)
            c2 == OpenWire(n, o)
<1>1. conns \in Seq(Conns) /\ Apart(conns) /\ Lines(conns)
      BY InvIs
<1>2. /\ Only(conns, c2, n) /\ DOMAIN c2 = DOMAIN conns /\ k \in DOMAIN conns /\ conns[k].kind = "dev"
      /\ {conns[k].by, conns[k].to} = {n, o.to}
      BY <1>1, OpenWireKeeps, WireIs, Zenon
<1>3. \A j \in DOMAIN conns : j # k => c2[j] = conns[j]
      BY <1>1 DEF OpenWire
<1>4. conns[k].in
      BY <1>1, <1>2 DEF Apart
<1>5. c2[k].in
  <2>1. conns[k] \in Conns
        BY <1>1, <1>2, ConnIs
  <2>2. \A j \in DOMAIN c2 : c2[j] \in Conns
        BY <1>2, ConnIs DEF Only
  <2>3. c2[k].kind = "dev"
        BY <1>2 DEF Only
  <2>. QED BY <1>2, <2>3 DEF Only, Apart
<1>. HIDE DEF k, c2
<1>6. \A j \in DOMAIN conns : /\ j \in DOMAIN c2 /\ c2[j].kind = conns[j].kind /\ c2[j].by = conns[j].by
                              /\ c2[j].to = conns[j].to
      BY <1>2 DEF Only
<1>7. Quiet(conns, c2, {k})
      BY <1>2, <1>3, <1>5, <1>6 DEF Quiet
<1>8. k \in DOMAIN c2 /\ c2[k].kind = "dev" /\ n \in {c2[k].by, c2[k].to} /\ c2 \in Seq(Conns)
      BY <1>2, <1>6, Zenon DEF Only
<1>9. Connects(n, o, k, c2)
      BY <1>7, <1>8 DEF Connects
<1>. QED BY <1>9 DEF k, c2

LEMMA NewConnects ==
  ASSUME OpenInv, NEW n \in Nodes, NEW o, o.to \in Nodes \ {n}, o.kind = "tcp"
  PROVE  Connects(n, o, Len(conns) + 1, NewConn(n, o))
<1>. DEFINE e == <<>>
            q2 == [m \in Nodes |-> e]
            x == [kind |-> "tcp", by |-> n, to |-> o.to, ends |-> {n}, in |-> FALSE, q |-> q2]
            c2 == NewConn(n, o)
            k == Len(conns) + 1
<1>1. conns \in Seq(Conns) /\ Apart(conns)
      BY InvIs
<1>2. c2 = Append(conns, x)
      BY DEF NewConn
<1>3. Only(conns, c2, n) /\ k \in DOMAIN c2 /\ k \notin DOMAIN conns
      BY <1>1, NewConnKeeps
<1>4. \A m \in Nodes : Range(q2[m]) = {}
      BY DEF Range
<1>. HIDE DEF e, q2
<1>5. x.kind = "tcp" /\ x.by = n /\ x.to = o.to /\ x.q = q2
      OBVIOUS
<1>. HIDE DEF x, c2
<1>6. /\ DOMAIN c2 = 1 .. Len(conns) + 1 /\ Len(conns) \in Nat /\ DOMAIN conns = 1 .. Len(conns)
      /\ \A j \in DOMAIN conns : c2[j] = conns[j]
      /\ c2[Len(conns) + 1] = x
  <2>1. conns \in Seq(Conns) => Len(conns) \in Nat /\ DOMAIN conns = 1 .. Len(conns)
        BY LenProperties
  <2>. QED BY <1>1, <1>2, <2>1
<1>7. Quiet(conns, c2, {k})
      BY <1>6 DEF Quiet
<1>8. Heard(c2[k], n) = {} /\ Heard(c2[k], o.to) = {}
      BY <1>4, <1>5, <1>6, Zenon DEF Heard
<1>9. c2[k] = x /\ c2 \in Seq(Conns)
      BY <1>3, <1>6 DEF Only
<1>. HIDE DEF k
<1>10. Connects(n, o, k, c2)
      BY <1>3, <1>5, <1>7, <1>8, <1>9 DEF Connects
<1>. QED BY <1>10 DEF k, c2

\* The device dev of an open node, with the answers it waits for and what it sends.
Begins(n, o, dev, k, cs, want, probed) ==
  /\ Connects(n, o, k, cs) /\ (Stream(o.kind) => k # 0)
  /\ Adds(n, dev, k) /\ dev.kind = o.kind /\ dev.passive = o.passive /\ app[n].dev = 0
  /\ want \in WidthSet /\ Meet(want, Widths[n]) = want
  /\ probed => /\ ~o.passive /\ dev.widths = None /\ app'[n].dev = Fresh(mem[n]) /\ app'[n].want = want
  /\ ~probed => /\ app'[n] = app[n]
                /\ ~o.passive => dev.widths = want /\ Refined(want) /\ o.kind # "tcp"
  /\ conns' = IF probed /\ Stream(o.kind) THEN Put(cs, n, k, Probe(want, Fresh(mem[n]))) ELSE cs
\* Nothing is on the way yet but the probe.
Begun(n, o, k, c2, want, probed) ==
  /\ Quiet(conns, c2, {k})
  /\ k # 0 => k \in DOMAIN c2 /\ c2[k].kind = o.kind /\ n \in {c2[k].by, c2[k].to}
  /\ o.kind = "tcp" => /\ k \notin DOMAIN conns /\ c2[k].by = n /\ c2[k].to = o.to
                       /\ Heard(c2[k], n) = {}
                       /\ \A m \in Heard(c2[k], o.to) : probed /\ m.t = "probe" /\ m.w = want
LEMMA BeginsConn ==
  ASSUME NEW n \in Nodes, NEW o, o.to \in Nodes \ {n}, NEW dev, NEW k, NEW cs, NEW want, NEW probed \in BOOLEAN,
         Begins(n, o, dev, k, cs, want, probed)
  PROVE  Begun(n, o, k, conns', want, probed)
<1>1. /\ cs \in Seq(Conns) /\ Quiet(conns, cs, {k})
      /\ k # 0 => k \in DOMAIN cs /\ cs[k].kind = o.kind /\ n \in {cs[k].by, cs[k].to}
      /\ o.kind = "tcp" => /\ k \notin DOMAIN conns /\ cs[k].by = n /\ cs[k].to = o.to
                           /\ Heard(cs[k], n) = {} /\ Heard(cs[k], o.to) = {}
      BY DEF Begins, Connects
<1>2. CASE ~(probed /\ Stream(o.kind))
  <2>1. conns' = cs
        BY <1>2 DEF Begins
  <2>. QED BY <1>1, <2>1 DEF Begun
<1>3. CASE probed /\ Stream(o.kind)
  <2>. DEFINE msg == Probe(want, Fresh(mem[n]))
  <2>1. conns' = Put(cs, n, k, msg) /\ k # 0 /\ want \in WidthSet
        BY <1>3 DEF Begins
  <2>2. msg \in Msgs /\ msg.t = "probe" /\ msg.w = want
    <3>1. Fresh(mem[n]) \in Nat
          BY DEF Begins, Adds, Added
    <3>. QED BY <2>1, <3>1 DEF Msgs, Probe
  <2>. HIDE DEF msg
  <2>3. Quiet(cs, conns', {k}) /\ Sends(cs, conns', n, k, msg)
        BY <1>1, <2>1, <2>2, PutIs
  <2>4. Quiet(conns, conns', {k})
        BY <1>1, <2>3, QuietTwice
  <2>5. /\ DOMAIN conns' = DOMAIN cs /\ conns'[k].kind = cs[k].kind /\ conns'[k].by = cs[k].by /\ conns'[k].to = cs[k].to
        /\ Heard(conns'[k], Other(cs[k], n)) = Heard(cs[k], Other(cs[k], n)) \cup {msg}
        /\ \A p \in Nodes : p # Other(cs[k], n) => Heard(conns'[k], p) = Heard(cs[k], p)
        BY <2>3 DEF Sends
  <2>6. o.kind = "tcp" => Other(cs[k], n) = o.to
        BY <1>1 DEF Other
  <2>. QED BY <1>1, <1>3, <2>1, <2>2, <2>4, <2>5, <2>6 DEF Begun
<1>. QED BY <1>2, <1>3

LEMMA BeginsAgrees ==
  ASSUME OpenInv, OpenInv', Agree(Views, conns), NEW n \in Nodes, NEW o, o.to \in Nodes \ {n}, NEW dev, NEW k, NEW cs,
         NEW want, NEW probed \in BOOLEAN, Begins(n, o, dev, k, cs, want, probed)
  PROVE  Agree(Views', conns')
<1>1. /\ Quiet(conns, conns', {k})
      /\ k # 0 => k \in DOMAIN conns' /\ conns'[k].kind = o.kind /\ n \in {conns'[k].by, conns'[k].to}
      /\ o.kind = "tcp" => /\ k \notin DOMAIN conns /\ conns'[k].by = n /\ conns'[k].to = o.to
                           /\ Heard(conns'[k], n) = {}
                           /\ \A m \in Heard(conns'[k], o.to) : probed /\ m.t = "probe" /\ m.w = want
  <2>1. Begun(n, o, k, conns', want, probed)
        BY BeginsConn
  <2>. QED BY <2>1 DEF Begun
<1>2. /\ Adds(n, dev, k) /\ dev.kind = o.kind /\ dev.passive = o.passive /\ app[n].dev = 0
      /\ want \in WidthSet /\ Meet(want, Widths[n]) = want
      /\ probed => ~o.passive /\ dev.widths = None /\ app'[n].dev = Fresh(mem[n]) /\ app'[n].want = want
      /\ ~probed => /\ app'[n] = app[n]
                    /\ ~o.passive => dev.widths = want /\ Refined(want) /\ o.kind # "tcp"
      BY DEF Begins
<1>3. Fresh(mem[n]) # 0 /\ Fresh(mem[n]) \notin Range(sock[n].devs)
  <2>1. Fresh(mem[n]) \notin Range(sock[n].devs)
        BY <1>2, AddIs, Zenon
  <2>2. Added(mem[n], mem'[n], chk[n].link, dev, k)
        BY <1>2 DEF Adds
  <2>. QED BY <2>1, <2>2 DEF Added
<1>4. SameAsk(app[n], app'[n], Range(sock[n].devs))
  <2>1. 0 \notin Range(sock[n].devs)
    <3>. DEFINE m == mem[n]
                s == sock[n]
                l == chk[n].link
                E == EndsIn(conns, n)
    <3>1. Node(m, s, l, E)
          BY StateIs
    <3>. HIDE DEF m, s, l, E
    <3>2. /\ \A d \in Range(s.devs) : d \in DOMAIN m.heap
          /\ 0 \notin DOMAIN m.heap
          BY <3>1, NodeIs, Zenon
    <3>. QED BY <3>2 DEF s
  <2>. QED BY <1>2, <1>3, <2>1 DEF SameAsk
<1>5. ASSUME NEW y, Appears(n, y, dev, k) PROVE Sound(y, n, conns') /\ (k # 0 => EndAgree(n, k, y))
  <2>1. y.conn = k /\ y.kind = o.kind /\ y.passive = o.passive /\ y.widths = dev.widths
        BY <1>2, <1>5 DEF Appears
  <2>2. y.asks = probed /\ (probed => y.want = want)
        BY <1>2, <1>3, <1>5 DEF Appears
  <2>3. Sound(y, n, conns')
        BY <1>1, <1>2, <2>1, <2>2 DEF Sound
  <2>4. ASSUME o.kind = "tcp", k # 0 PROVE Pair(conns'[k], {y}, On(Views[o.to], k))
    <3>. DEFINE c2 == conns'[k]
                Ys == On(Views[o.to], k)
    <3>1. Ys = {}
      <4>1. Views[o.to] = View(mem[o.to], sock[o.to], app[o.to])
            BY DEF Views
      <4>2. Node(mem[o.to], sock[o.to], chk[o.to].link, EndsIn(conns, o.to)) /\ k \notin EndsIn(conns, o.to)
            BY <1>1, <2>4, StateIs, Zenon DEF EndsIn
      <4>. HIDE DEF Views
      <4>. QED BY <2>4, <4>1, <4>2, OnIs
    <3>2. c2.by = n /\ c2.to = o.to /\ Heard(c2, n) = {}
          /\ \A m \in Heard(c2, o.to) : probed /\ m.t = "probe" /\ m.w = want
          BY <1>1, <2>4
    <3>. HIDE DEF c2, Ys
    <3>3. Messages(c2)
          BY <3>2 DEF Messages
    <3>4. ~y.passive => y.asks /\ Waits(c2, y, {})
          BY <1>2, <2>1, <2>2, <2>4, <3>2 DEF Waits
    <3>5. Pair(c2, {y}, {})
          BY <3>3, <3>4 DEF Pair
    <3>. QED BY <3>1, <3>5 DEF c2, Ys
  <2>5. k # 0 => EndAgree(n, k, y)
        BY <1>1, <2>4 DEF EndAgree
  <2>. QED BY <2>3, <2>5
<1>. QED BY <1>1, <1>2, <1>4, <1>5, AddAgrees

LEMMA DeviceOpenAgrees ==
  ASSUME OpenInv, OpenInv', Rests, Agree(Views, conns), NEW n \in Nodes, NEW o \in Opens(n), DeviceOpen(n, o)
  PROVE  Agree(Views', conns')
<1>1. /\ sock \in [Nodes -> Socks] /\ mem \in [Nodes -> Pools] /\ app \in [Nodes -> Apps] /\ chk \in [Nodes -> Checks]
      /\ conns \in Seq(Conns)
      /\ Node(mem[n], sock[n], chk[n].link, EndsIn(conns, n)) /\ Flow(n) /\ Lines(conns) /\ Widths[n] \in WidthSet
      BY StateIs, InvIs
<1>2. /\ sock[n].self # 0 /\ app[n].pc = "idle" /\ chk[n].pc = "no" /\ chk[n].link = 0 /\ app[n].dev = 0
      /\ o.kind = "dev" => n \notin conns[Wire(n, o)].ends
      BY <1>1 DEF DeviceOpen, Ready, Rests, Flow
<1>3. /\ o.kind \in AllKinds /\ o.to \in Nodes \ {n} /\ o.widths \in WidthSet /\ o.attempts \in Nat
      /\ o.passive \in BOOLEAN
      BY OpenAssumption
<1>4. CASE Refused(n, o)
  <2>1. mem' = mem /\ sock' = sock /\ app' = app /\ conns' = conns
        BY <1>4 DEF DeviceOpen
  <2>. QED BY <2>1, NothingAgrees
<1>5. CASE ~Refused(n, o)
  <2>. DEFINE m == mem[n]
              d == Fresh(m)
              want == Meet(o.widths, Widths[n])
              k == IF o.kind = "dev" THEN Wire(n, o) ELSE IF o.kind = "tcp" THEN Len(conns) + 1 ELSE 0
              cs == IF o.kind = "dev" THEN OpenWire(n, o) ELSE IF o.kind = "tcp" THEN NewConn(n, o) ELSE conns
              tries == IF Stream(o.kind) THEN 1 ELSE o.attempts
              probed == ~o.passive /\ tries # 0
              dev == Device(o, m.free[2], o.passive, IF o.passive \/ probed THEN None ELSE want)
              asking == [pc |-> "probe", dev |-> d, want |-> want, tries |-> tries]
  <2>1. /\ mem' = [mem EXCEPT ![n] = OpenedMem(m, dev, k)] /\ sock' = [sock EXCEPT ![n].devs = <<d>> \o @]
        /\ app' = IF probed THEN [app EXCEPT ![n] = asking] ELSE app
        /\ conns' = IF probed /\ Stream(o.kind) THEN Put(cs, n, k, Probe(want, d)) ELSE cs
        BY <1>5 DEF DeviceOpen, OpenedMem
  <2>2. want \in WidthSet /\ Meet(want, Widths[n]) = want
        BY <1>1, <1>3, MeetIs
  <2>3. Len(m.free) >= 2 /\ m.free[1] \in Nat /\ m.free[2] \in Nat
    <3>1. ~(Len(m.free) < 2)
          BY <1>5 DEF Refused
    <3>2. FreeOk(m)
          BY <1>1 DEF Node
    <3>3. Len(m.free) \in Nat /\ \A i \in 1 .. Len(m.free) : m.free[i] \in Nat
          BY <3>2, PoolIs
    <3>. QED BY <3>1, <3>3
  <2>4. /\ dev \in Devs /\ dev.link = m.free[2] /\ dev.passive = o.passive /\ dev.kind = o.kind
        /\ dev.widths = IF o.passive \/ probed THEN None ELSE want
    <3>. HIDE DEF m, want, probed
    <3>. QED BY <1>3, <2>2, <2>3, WidthsAre DEF Device, Devs
  <2>5. ~o.passive /\ ~probed => Refined(want) /\ ~Stream(o.kind)
        BY <1>3, <1>5 DEF Refused
  <2>6. Connects(n, o, k, cs) /\ (Stream(o.kind) => k # 0) /\ k \in Nat /\ k \notin EndsIn(conns, n)
    <3>1. CASE o.kind = "dev"
      <4>1. Connects(n, o, Wire(n, o), OpenWire(n, o))
            BY <1>3, <3>1, WireConnects
      <4>2. Wire(n, o) \in DOMAIN conns
            BY <1>1, <1>3, WireIs
      <4>3. Wire(n, o) \in Nat \ {0}
            BY <1>1, <4>2, ConnIs
      <4>4. k = Wire(n, o) /\ cs = OpenWire(n, o) /\ n \notin conns[Wire(n, o)].ends
            BY <1>2, <3>1
      <4>. HIDE DEF k, cs
      <4>. QED BY <4>1, <4>3, <4>4 DEF EndsIn
    <3>2. CASE o.kind = "tcp"
      <4>1. Connects(n, o, Len(conns) + 1, NewConn(n, o))
            BY <1>3, <3>2, NewConnects
      <4>2. Len(conns) + 1 \in Nat \ {0}
            BY <1>1, LenProperties
      <4>3. k = Len(conns) + 1 /\ cs = NewConn(n, o)
            BY <3>2
      <4>. HIDE DEF k, cs
      <4>4. k \notin DOMAIN conns
            BY <3>2, <4>1, <4>3 DEF Connects
      <4>. QED BY <4>1, <4>2, <4>3, <4>4 DEF EndsIn
    <3>3. CASE o.kind \notin {"dev", "tcp"}
      <4>1. k = 0 /\ cs = conns /\ ~Stream(o.kind)
            BY <3>3 DEF Stream
      <4>2. Quiet(conns, conns, {0})
            BY QuietSame
      <4>3. 0 \notin DOMAIN conns
            BY <1>1, ConnIs
      <4>. HIDE DEF k, cs
      <4>. QED BY <1>1, <3>3, <4>1, <4>2, <4>3 DEF Connects, EndsIn
    <3>. QED BY <3>1, <3>2, <3>3
  <2>. HIDE DEF k, cs, want, dev
  <2>7. Added(m, OpenedMem(m, dev, k), chk[n].link, dev, k)
    <3>. DEFINE s == sock[n]
                l == chk[n].link
                E == EndsIn(conns, n)
    <3>1. Fits(m, s, l, E, dev, k)
          BY <1>1, <2>3, <2>4, <2>6 DEF Fits
    <3>. HIDE DEF m, s, l, E
    <3>2. /\ Node(OpenedMem(m, dev, k), [s EXCEPT !.devs = <<Fresh(m)>> \o @], l, With(E, k))
          /\ Fresh(m) = m.free[1] /\ Fresh(m) \in DOMAIN m.heap /\ m.free[2] \in DOMAIN m.heap
          /\ DOMAIN OpenedMem(m, dev, k).heap = DOMAIN m.heap
          /\ \A i \in DOMAIN m.heap : m.heap[i].is # "free" => OpenedMem(m, dev, k).heap[i] = m.heap[i]
          /\ OpenedMem(m, dev, k).heap[Fresh(m)] = dev
          /\ m.heap[m.free[1]].is = "free" /\ m.heap[m.free[2]].is = "free"
          /\ Added(m, OpenedMem(m, dev, k), l, dev, k)
          BY <3>1, OpenKeeps, Zenon
    <3>. QED BY <3>2 DEF l
  <2>8. Adds(n, dev, k)
    <3>1. sock' = [sock EXCEPT ![n] = [sock[n] EXCEPT !.devs = <<d>> \o sock[n].devs]]
          BY <1>1, <2>1
    <3>2. sock'[n] = [sock[n] EXCEPT !.devs = <<d>> \o sock[n].devs] /\ sock' = [sock EXCEPT ![n] = sock'[n]]
          BY <3>1, OnlyThis, Zenon
    <3>3. sock[n] \in Socks
          BY <1>1
    <3>4. mem'[n] = OpenedMem(m, dev, k) /\ mem' = [mem EXCEPT ![n] = mem'[n]]
          BY <2>1, OnlyThis, Zenon
    <3>5. app' = [app EXCEPT ![n] = app'[n]]
          BY <2>1, OnlyThis, Zenon
    <3>6. sock'[n].devs = <<d>> \o sock[n].devs
          BY <3>2, <3>3, Zenon DEF Socks
    <3>. QED BY <2>7, <3>2, <3>4, <3>5, <3>6 DEF Adds
  <2>9. /\ probed => app'[n].dev = d /\ app'[n].want = want
        /\ ~probed => app'[n] = app[n]
        BY <1>1, <2>1
  <2>10. Begins(n, o, dev, k, cs, want, probed)
    <3>. HIDE DEF probed
    <3>. QED BY <1>2, <2>1, <2>2, <2>4, <2>5, <2>6, <2>8, <2>9 DEF Begins, Stream, probed
  <2>11. probed \in BOOLEAN
        OBVIOUS
  <2>. HIDE DEF probed
  <2>. QED BY <1>3, <2>10, <2>11, BeginsAgrees
<1>. QED BY <1>4, <1>5

-----------------------------------------------------------------------------
(* They agree at the start, every action keeps that, and EndsAgree follows. *)

\* A program that does not wait has no device of which it does.
LEMMA RestsNext ==
  ASSUME OpenInv, Rests, [Next]_vars
  PROVE  Rests'
<1>1. app \in [Nodes -> Apps]
      BY StateIs
<1>2. ASSUME app' = app PROVE Rests'
      BY <1>2 DEF Rests
<1>3. ASSUME NEW n \in Nodes, NEW x, app' = [app EXCEPT ![n] = x], x.pc = "probe" \/ x.dev = 0 PROVE Rests'
  <2>1. ASSUME NEW o \in Nodes, app'[o].pc = "idle" PROVE app'[o].dev = 0
    <3>1. CASE o = n
          BY <1>1, <1>3, <2>1, <3>1
    <3>2. CASE o # n
          BY <1>1, <1>3, <2>1, <3>2 DEF Rests
    <3>. QED BY <3>1, <3>2
  <2>. QED BY <2>1 DEF Rests
<1>4. ASSUME NEW n \in Nodes, app' = [app EXCEPT ![n] = Idle] PROVE Rests'
      BY <1>3, <1>4, Zenon DEF Idle
<1>5. ASSUME NEW n \in Nodes, SocketOpen(n) \/ SocketClose(n) PROVE app' = app
      BY <1>5 DEF SocketOpen, SocketClose
<1>6. ASSUME NEW n \in Nodes, Exit(n) \/ OpenDone(n) PROVE Rests'
      BY <1>4, <1>6, Zenon DEF Exit, OpenDone
<1>7. ASSUME NEW n \in Nodes, NEW o \in Opens(n), DeviceOpen(n, o) PROVE Rests'
  <2>1. \/ app' = app
        \/ \E d, want, tries : app' = [app EXCEPT ![n] = [pc |-> "probe", dev |-> d, want |-> want, tries |-> tries]]
        BY <1>7 DEF DeviceOpen
  <2>. QED BY <1>2, <1>3, <2>1, Zenon
<1>8. ASSUME NEW n \in Nodes, OpenExpire(n) PROVE Rests'
  <2>1. \/ app' = [app EXCEPT ![n] = Idle]
        \/ app' = [app EXCEPT ![n].tries = NextTry(@)]
        BY <1>8 DEF OpenExpire
  <2>2. app[n] \in Apps /\ app[n].pc = "probe"
        BY <1>1, <1>8 DEF OpenExpire, Probing
  <2>3. CASE app' = [app EXCEPT ![n].tries = NextTry(@)]
    <3>. DEFINE x == [app[n] EXCEPT !.tries = NextTry(@)]
    <3>1. x.pc = "probe"
          BY <2>2 DEF Apps
    <3>2. app' = [app EXCEPT ![n] = x]
          BY <1>1, <2>3
    <3>. HIDE DEF x
    <3>. QED BY <1>3, <3>1, <3>2, Zenon
  <2>. QED BY <1>4, <2>1, <2>3
<1>9. ASSUME NEW n \in Nodes, NEW d, DeviceClose(n, d) PROVE app' = app
      BY <1>9 DEF DeviceClose
<1>10. ASSUME NEW n \in Nodes, Inside(n) PROVE app' = app
  <2>1. CASE CheckStart(n) \/ CheckNext(n) \/ CheckEnd(n)
        BY <2>1 DEF CheckStart, CheckNext, CheckEnd
  <2>2. CASE LinkHeader(n) \/ LinkRecords(n) \/ LinkEof(n)
        BY <2>2 DEF LinkHeader, LinkRecords, LinkEof
  <2>3. ASSUME NEW sends \in BOOLEAN, DeviceNext(n, sends) PROVE app' = app
        BY <2>3 DEF DeviceNext
  <2>4. ASSUME NEW k \in DOMAIN conns, Accept(n, k) PROVE app' = app
        BY <2>4 DEF Accept
  <2>5. ASSUME NEW p \in udp, NEW again \in BOOLEAN, TopLevel(n, p, again) PROVE app' = app
        BY <2>5 DEF TopLevel
  <2>. QED BY <1>10, <2>1, <2>2, <2>3, <2>4, <2>5 DEF Inside
<1>11. ASSUME NEW p \in udp, Lose(p) PROVE app' = app
      BY <1>11 DEF Lose
<1>12. ASSUME UNCHANGED vars PROVE app' = app
      BY <1>12 DEF vars
<1>. QED BY <1>2, <1>5, <1>6, <1>7, <1>8, <1>9, <1>10, <1>11, <1>12 DEF Next

\* No step makes up for an answer that strayed.
LEMMA StrayStays ==
  ASSUME [Next]_vars, stray
  PROVE  stray'
<1>1. ASSUME NEW n \in Nodes, SocketOpen(n) \/ SocketClose(n) \/ Exit(n) \/ OpenDone(n) \/ OpenExpire(n) PROVE stray'
      BY <1>1, Zenon DEF SocketOpen, SocketClose, Exit, OpenDone, OpenExpire, count
<1>2. ASSUME NEW n \in Nodes, NEW o \in Opens(n), DeviceOpen(n, o) PROVE stray'
      BY <1>2 DEF DeviceOpen
<1>3. ASSUME NEW n \in Nodes, NEW d, DeviceClose(n, d) PROVE stray'
      BY <1>3 DEF DeviceClose, count
<1>4. ASSUME NEW n \in Nodes, Inside(n) PROVE stray'
  <2>1. CASE CheckStart(n) \/ CheckNext(n) \/ CheckEnd(n)
        BY <2>1, Zenon DEF CheckStart, CheckNext, CheckEnd, count
  <2>2. CASE LinkHeader(n)
        BY <2>2, Zenon DEF LinkHeader
  <2>3. CASE LinkRecords(n) \/ LinkEof(n)
        BY <2>3, Zenon DEF LinkRecords, LinkEof, count
  <2>4. ASSUME NEW sends \in BOOLEAN, DeviceNext(n, sends) PROVE stray'
        BY <2>4 DEF DeviceNext, count
  <2>5. ASSUME NEW k \in DOMAIN conns, Accept(n, k) PROVE stray'
        BY <2>5 DEF Accept, count
  <2>6. ASSUME NEW p \in udp, NEW again \in BOOLEAN, TopLevel(n, p, again) PROVE stray'
        BY <2>6, Zenon DEF TopLevel
  <2>. QED BY <1>4, <2>1, <2>2, <2>3, <2>4, <2>5, <2>6 DEF Inside
<1>5. ASSUME NEW p \in udp, Lose(p) PROVE stray'
      BY <1>5 DEF Lose, count
<1>6. ASSUME UNCHANGED vars PROVE stray'
      BY <1>6 DEF vars, count
<1>. QED BY <1>1, <1>2, <1>3, <1>4, <1>5, <1>6 DEF Next

LEMMA InitAgrees == Init => AgreeInv
<1> SUFFICES ASSUME Init PROVE Rests /\ Agree(Views, conns)
    BY DEF AgreeInv
<1>1. sock = [n \in Nodes |-> Closed] /\ app = [n \in Nodes |-> Idle]
      BY DEF Init
<1>2. Rests
      BY <1>1 DEF Rests, Idle
<1>3. \A n \in Nodes : Views[n] = {}
  <2>1. Range(Closed.devs) = {}
        BY DEF Closed, Range
  <2>. QED BY <1>1, <2>1 DEF Views, View
<1>4. \A k \in DOMAIN conns : conns[k].kind = "dev"
  <2>. DEFINE pairs == SetToSeq({p \in SUBSET Nodes : Cardinality(p) = 2})
  <2>1. conns = [k \in DOMAIN pairs |-> LET a == CHOOSE a \in pairs[k] : TRUE IN
                   [kind |-> "dev", by |-> a, to |-> CHOOSE b \in pairs[k] : b # a, ends |-> {}, in |-> TRUE,
                    q |-> [n \in Nodes |-> <<>>]]]
        BY DEF Init
  <2>. HIDE DEF pairs
  <2>. QED BY <2>1
<1>. QED BY <1>2, <1>3, <1>4 DEF Agree, PairAt

LEMMA AgreeNext == OpenInv /\ AgreeInv /\ [Next]_vars => AgreeInv'
<1> SUFFICES ASSUME OpenInv, AgreeInv, [Next]_vars PROVE AgreeInv'
    OBVIOUS
<1>1. OpenInv' /\ Rests /\ Rests'
      BY NextInv, RestsNext DEF AgreeInv
<1> SUFFICES ASSUME ~stray' PROVE Agree(Views', conns')
    BY <1>1 DEF AgreeInv
<1>2. Agree(Views, conns)
      BY StrayStays DEF AgreeInv
<1>. HIDE DEF Views
<1>3. ASSUME NEW n \in Nodes, SocketOpen(n) PROVE Agree(Views', conns')
      BY <1>1, <1>2, <1>3, SocketOpenAgrees
<1>4. ASSUME NEW n \in Nodes, SocketClose(n) PROVE Agree(Views', conns')
      BY <1>1, <1>2, <1>4, SocketCloseAgrees
<1>5. ASSUME NEW n \in Nodes, Exit(n) PROVE Agree(Views', conns')
      BY <1>1, <1>2, <1>5, ExitAgrees
<1>6. ASSUME NEW n \in Nodes, NEW o \in Opens(n), DeviceOpen(n, o) PROVE Agree(Views', conns')
      BY <1>1, <1>2, <1>6, DeviceOpenAgrees
<1>7. ASSUME NEW n \in Nodes, OpenDone(n) PROVE Agree(Views', conns')
      BY <1>1, <1>2, <1>7, OpenDoneAgrees
<1>8. ASSUME NEW n \in Nodes, OpenExpire(n) PROVE Agree(Views', conns')
      BY <1>1, <1>2, <1>8, OpenExpireAgrees
<1>9. ASSUME NEW n \in Nodes, NEW d \in Range(sock[n].devs), DeviceClose(n, d) PROVE Agree(Views', conns')
      BY <1>1, <1>2, <1>9, DeviceCloseAgrees
<1>10. ASSUME NEW n \in Nodes, Inside(n) PROVE Agree(Views', conns')
  <2>1. CASE CheckStart(n)
        BY <1>1, <1>2, <2>1, CheckStartAgrees
  <2>2. CASE CheckNext(n)
        BY <1>2, <2>2, CheckNextAgrees
  <2>3. CASE LinkHeader(n)
        BY <1>1, <1>2, <2>3, LinkHeaderAgrees
  <2>4. CASE LinkRecords(n)
        BY <1>1, <1>2, <2>4, LinkRecordsAgrees
  <2>5. CASE LinkEof(n)
        BY <1>1, <1>2, <2>5, LinkEofAgrees
  <2>6. CASE CheckEnd(n)
        BY <1>1, <1>2, <2>6, CheckEndAgrees
  <2>7. ASSUME NEW sends \in BOOLEAN, DeviceNext(n, sends) PROVE Agree(Views', conns')
        BY <1>1, <1>2, <2>7, DeviceNextAgrees
  <2>8. ASSUME NEW k \in DOMAIN conns, Accept(n, k) PROVE Agree(Views', conns')
        BY <1>1, <1>2, <2>8, AcceptAgrees
  <2>9. ASSUME NEW p \in udp, NEW again \in BOOLEAN, TopLevel(n, p, again) PROVE Agree(Views', conns')
        BY <1>1, <1>2, <2>9, TopLevelAgrees
  <2>. QED BY <1>10, <2>1, <2>2, <2>3, <2>4, <2>5, <2>6, <2>7, <2>8, <2>9 DEF Inside
<1>11. ASSUME NEW p \in udp, Lose(p) PROVE Agree(Views', conns')
      BY <1>2, <1>11, LoseAgrees
<1>12. CASE UNCHANGED vars
      BY <1>2, <1>12, NothingAgrees DEF vars
<1>. QED BY <1>3, <1>4, <1>5, <1>6, <1>7, <1>8, <1>9, <1>10, <1>11, <1>12 DEF Next

\* What two ends that agree see is what they should.
LEMMA EndsAgreeFollows == OpenInv /\ AgreeInv => EndsAgree
<1> SUFFICES ASSUME OpenInv, Agree(Views, conns), NEW n \in Nodes
             PROVE  /\ \A d \in Opened(n) : Chosen(n, d)
                    /\ \A d \in Devices(n) : LET k == ConnOf(n, d) IN
                         k # 0 /\ conns[k].kind = "tcp" => \A i \in DOMAIN conns[k].q[n] :
                           conns[k].q[n][i].t = "data" => Item(n, d).widths = conns[k].q[n][i].w
    BY DEF AgreeInv, EndsAgree
<1>1. ASSUME NEW d \in Range(sock[n].devs)
      PROVE  LET x == Seen(mem[n], app[n], d)
             IN /\ Sound(x, n, conns) /\ x.passive = Item(n, d).passive /\ x.widths = Item(n, d).widths
                /\ x.asks = (app[n].dev = d) /\ ConnOf(n, d) = ConnAt(mem[n], d)
  <2>. DEFINE x == Seen(mem[n], app[n], d)
  <2>1. Sound(x, n, conns)
    <3>. HIDE DEF Views
    <3>. QED BY EndIs
  <2>2. /\ x.passive = mem[n].heap[d].passive /\ x.widths = mem[n].heap[d].widths /\ x.asks = (app[n].dev = d)
        BY SeenIs
  <2>3. ConnOf(n, d) = ConnAt(mem[n], d)
        BY DEF ConnOf, ConnAt, LinkOf, Item
  <2>. HIDE DEF x
  <2>. QED BY <2>1, <2>2, <2>3 DEF x, Item
<1>2. ASSUME NEW d \in Opened(n) PROVE Chosen(n, d)
  <2>. DEFINE x == Seen(mem[n], app[n], d)
  <2>1. d \in Range(sock[n].devs) /\ ~Item(n, d).passive /\ app[n].dev # d
        BY DEF Opened, Devices
  <2>2. Sound(x, n, conns) /\ ~x.passive /\ ~x.asks /\ x.widths = Item(n, d).widths
        BY <1>1, <2>1, Zenon
  <2>. HIDE DEF x
  <2>. QED BY <2>2 DEF Sound, Chosen
<1>3. ASSUME NEW d \in Devices(n), NEW k, k = ConnOf(n, d), k # 0, conns[k].kind = "tcp",
             NEW i \in DOMAIN conns[k].q[n], conns[k].q[n][i].t = "data"
      PROVE  Item(n, d).widths = conns[k].q[n][i].w
  <2>. DEFINE x == Seen(mem[n], app[n], d)
              msg == conns[k].q[n][i]
  <2>1. d \in Range(sock[n].devs)
        BY DEF Devices
  <2>2. x.widths = Item(n, d).widths /\ k = ConnAt(mem[n], d)
        BY <1>1, <1>3, <2>1
  <2>3. msg \in Heard(conns[k], n) /\ msg.t = "data"
        BY <1>3 DEF Heard, Range
  <2>. HIDE DEF x, msg
  <2>4. /\ On(Views[n], k) = {x} /\ PairAt(Views, conns, k) /\ n \in {conns[k].by, conns[k].to}
    <3>. HIDE DEF Views
    <3>. QED BY <1>3, <2>1, <2>2, EndIs DEF x
  <2>5. Pair(conns[k], On(Views[conns[k].by], k), On(Views[conns[k].to], k))
        BY <1>3, <2>4 DEF PairAt
  <2>6. n = conns[k].to
        BY <2>3, <2>4, <2>5 DEF Pair, Messages
  <2>7. Understood(conns[k], x)
        BY <2>4, <2>5, <2>6 DEF Pair
  <2>8. msg.w = x.widths
        BY <2>3, <2>6, <2>7 DEF Understood
  <2>. QED BY <2>2, <2>8 DEF msg
<1>. QED BY <1>2, <1>3

\* Until an answer strays, open devices have the widths that were chosen, and what is on its
\* way over a connection is understood with the widths it was sent with: whichever end
\* opens, closes, gives up or accepts, and whatever eb_socket_check closes in between
\* (device.c:106-160, slave.c:112-176, posix-tcp.c:127-151).
THEOREM EndsAlwaysAgree == Spec => []EndsAgree
<1>1. Init => OpenInv /\ AgreeInv
      BY InitInv, InitAgrees
<1>2. OpenInv /\ AgreeInv /\ [Next]_vars => (OpenInv /\ AgreeInv)'
      BY NextInv, AgreeNext
<1>. QED BY <1>1, <1>2, EndsAgreeFollows, PTL DEF Spec

=============================================================================
