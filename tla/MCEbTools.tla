----------------------------- MODULE MCEbTools -----------------------------
(***************************************************************************)
(* Remotes and command lines for EbTools.  Devices are at 0..7, at 8..11,  *)
(* behind a bridge at 16..17, and behind a bridge in it at 20; the tables  *)
(* of the bridges are at 18 and 22, the root table is at 24.               *)
(*                                                                         *)
(* eb-tunnel shares nothing with them: it is played by itself, in a scene  *)
(* of its own, with at most two of three callers.  The address of one of   *)
(* them is too long.                                                       *)
(***************************************************************************)
EXTENDS EbTools, EbTunnel, TLC

Record(type, first, last, child, name, sizes, order) ==
    [type |-> type, first |-> first, last |-> last, child |-> child, name |-> name, sizes |-> sizes, order |-> order]
Dev(first, last, base, name, sizes, order) == Record("device", first, last, base, name, sizes, order)
Bridge(first, last, child) == Record("bridge", first, last, child, "bridge", {}, "big")
Other == Record("other", 0, 7, 0, "other", {}, "big")
Remote(root, tables, devices) == 
    [root |-> root, space |-> 0 .. 23, tables |-> tables, devices |-> devices, late |-> {}, others |-> {}, junk |-> {Other}]

Tree(sizes, order) ==
    LET a == Dev(0, 7, 0, "a", sizes, order)
        b == Dev(8, 11, 0, "b", {4}, "big")
    IN  Remote(24, 24 :> <<Other, a, Bridge(16, 23, 18), b>>
                   @@ 18 :> <<Dev(0, 1, 0, "a", {1}, "big"), Bridge(4, 7, 6)>>
                   @@ 22 :> <<Dev(0, 0, 0, "c", {1}, "big"), Other>>,
               {a, b, Dev(16, 17, 16, "a", {1}, "big"), Dev(20, 20, 20, "c", {1}, "big")})
One == Dev(0, 7, 0, "a", {4}, "big")
(* eb-snoop, whose program attaches a second device.                       *)
Server == [Remote(24, 24 :> <<One>>, {One}) EXCEPT
              !.late = {Dev(8, 11, 0, "a", {4}, "little")},
              !.junk = {Other, Dev(0, 23, 0, "a", {1}, "little"), Bridge(0, 23, 24)}]
Looping == Remote(24, 24 :> <<Bridge(0, 23, 24), One>>, {One})
Empty == Remote(24, 24 :> <<>>, {})
Large == Remote(24, 24 :> [i \in 1 .. MaxRecords + 1 |-> Other], {})
NoMagic == Remote(22, 24 :> <<>>, {})

Scene(tool, remote, address, len, line, probe, order, strict) ==
    [tool |-> tool, bus |-> remote, address |-> address, len |-> len, line |-> line, probe |-> probe,
     order |-> order, strict |-> strict, name |-> "a", cyclic |-> FALSE]

Orders == {"big", "little"}
SizeSets == {{1}, {2}, {4}, {1, 2}, {1, 4}, {1, 2, 4}}
(* eb-read and eb-write of one word; the device told of by the record or   *)
(* by the command line.                                                    *)
Words ==
    {Scene(t, Tree(sz, o), a, n, l, TRUE, "none", st) :
        t \in {"read", "write"}, sz \in SizeSets, o \in Orders, a \in {0, 1, 2}, n \in {1, 2, 4}, l \in {2, 4}, st \in {FALSE}}
    \cup {Scene(t, Tree({1, 4}, o), 0, n, 4, FALSE, u, st) :
        t \in {"read", "write"}, o \in {"big"}, n \in {2, 4}, u \in {"big", "none"}, st \in BOOLEAN}
    \cup {Scene(t, Server, a, n, 4, TRUE, "none", FALSE) : t \in {"read", "write"}, a \in {0, 8}, n \in {1, 4}}
    \cup {Scene("read", Tree({4}, "big"), 16, 1, 1, TRUE, "none", FALSE), Scene("read", Tree({4}, "big"), 21, 1, 4, TRUE, "none", FALSE)}
(* eb-put and eb-get of a range, aligned or not.                           *)
Ranges ==
    {Scene(t, Tree(sz, o), a, n, l, TRUE, "none", FALSE) :
        t \in {"put", "get"}, sz \in {{1, 2}, {2}, {1, 4}}, o \in Orders, a \in {0, 1}, n \in {2, 3, 7}, l \in {2, 4}}
    \cup {Scene(t, Tree({1}, "big"), 0, 7, 1, FALSE, u, FALSE) : t \in {"put", "get"}, u \in {"big", "none"}}
Fitting == {s \in Words \cup Ranges : s.address + s.len <= 8 \/ s.address >= 8}
Searches ==
    {Scene("find", r, 0, 1, 4, TRUE, "none", FALSE) : r \in {Tree({4}, "big"), Server, Empty, Large, NoMagic}}
    \cup {Scene("ls", r, 0, 1, 4, p, "none", FALSE) : r \in {Tree({4}, "big"), Server, Empty, Large, NoMagic}, p \in BOOLEAN}
Loops == {[Scene(t, Looping, 13, 1, 4, p, "none", FALSE) EXCEPT !.cyclic = TRUE, !.name = "z"] :
             t \in {"find", "ls", "read"}, p \in {TRUE}}
Proxying == [Scene("tunnel", Empty, 0, 1, 4, TRUE, "none", FALSE) EXCEPT !.cyclic = TRUE]
MCScenes == Fitting \cup Searches \cup Loops \cup {Proxying}

MCAddrLen(c) == CASE c = "first" -> 1 [] c = "second" -> 2 [] c = "long" -> 3
MCMaxAsks(c) == CASE c = "first" -> 2 [] c = "second" -> 1 [] c = "long" -> 0

ToolsPlay == scene # Proxying /\ UNCHANGED tunnelVars
TunnelPlays == scene = Proxying /\ UNCHANGED vars
allVars == <<vars, tunnelVars>>
MCInit ==
    /\ Init /\ TunnelInit
    /\ Cardinality({c \in Callers : call[c] = "no"}) <= IF scene = Proxying THEN 2 ELSE 0
MCNext == (ToolsPlay /\ Next) \/ (TunnelPlays /\ TunnelNext)
MCSpec ==
    /\ MCInit /\ [][MCNext]_allVars
    /\ WF_allVars(ToolsPlay /\ Progress) /\ WF_allVars(TunnelPlays /\ Proxy)
    /\ \A c \in Callers : WF_allVars(TunnelPlays /\ Serve(c)) /\ WF_allVars(TunnelPlays /\ Listen(c))
=============================================================================
