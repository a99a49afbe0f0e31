------------------------------ MODULE EbTools ------------------------------
(***************************************************************************)
(* The command-line tools eb-read, eb-write, eb-put, eb-get and eb-ls, and *)
(* a program that searches by identity.  A tool asks EbSdb what the device *)
(* at its address can do, picks the sizes of its operations from what the  *)
(* device and the link support, packs operations into cycles and waits for *)
(* them.                                                                   *)
(*                                                                         *)
(* Memory holds bytes that are told apart by where they come from: "mem"   *)
(* is there at the start, "arg" comes from the command line or the file,   *)
(* "own" is what the device itself writes, "bad" what a failed read gave.  *)
(* A value is a sequence of bytes, the most significant first.  Messages,  *)
(* -c, -s and -f are left out: -s and -f ask not to be told of errors.     *)
(***************************************************************************)
EXTENDS EbSdb

CONSTANTS
    Scenes,       \* command lines, links and remotes: see MCEbTools
    PerCycle,     \* OPERATIONS_PER_CYCLE
    Batch,        \* cycles before a flush ("cycles", -c or fitted to the MTU)
    MaxCycles     \* bound: cycles there is memory for

ASSUME ToolsAssumption == PerCycle \in Nat \ {0} /\ Batch \in Nat \ {0} /\ MaxCycles \in Nat \ {0}

VARIABLES
    scene,     \* the command line
    mem,       \* the remote's memory
    own,       \* addresses the devices have changed by themselves
    pc,        \* where the tool is
    plan,      \* sizes and byte order it has chosen
    pos,       \* next address (eb-put, eb-get), and read: bytes of the file
    cycles,    \* cycles closed and not called back
    out,       \* bytes printed or written to the file, by offset
    said,      \* whether an error was printed
    exit       \* exit status, -1 while it runs

toolVars == <<scene, mem, own, pc, plan, pos, cycles, out, said, exit>>
vars == <<sdbVars, toolVars>>

Sizes == {1, 2, 4, 8}
Smallest(S) == CHOOSE n \in S : \A m \in S : n <= m
Largest(S) == CHOOSE n \in S : \A m \in S : m <= n
Aligned(a, n) == a - (a % n)
Bytes(a, n) == a .. a + n - 1
Reversed(v) == [i \in DOMAIN v |-> v[Len(v) + 1 - i]]
Ordered(order, v) == IF order = "little" THEN Reversed(v) ELSE v
Mem(m, a, n) == [i \in 1 .. n |-> m[a + i - 1]]

Init ==
    /\ scene \in Scenes
    /\ bus = scene.bus /\ job = NoJob /\ scans = {} /\ frames = <<>>
    /\ mem = [a \in scene.bus.space |-> <<"mem", a>>] /\ own = {}
    /\ pc = "start" /\ plan = [sizes |-> Sizes, order |-> scene.order]
    /\ pos = [at |-> scene.address, read |-> 0, batch |-> 0]
    /\ cycles = <<>> /\ out = <<>> /\ said = FALSE /\ exit = -1

Exit(status) == exit' = status /\ pc' = "done"
Tool(ts) == scene.tool \in ts
Idle == UNCHANGED <<sdbVars, scene, own>>
KeepNet == UNCHANGED <<mem, cycles, out, said>>

-----------------------------------------------------------------------------
(* Arguments, eb_device_open, and the search.                              *)

Word == scene.len \in Sizes /\ scene.address % scene.len = 0
ReadArgs  == Tool({"read"}) /\ Word
WriteArgs == Tool({"write"}) /\ Word
PutArgs   == Tool({"put"}) \* the file is as long as scene.len
GetArgs   == Tool({"get"})
ListArgs  == Tool({"ls"})  \* with -n it does not go into bridges: scene.probe
Memory == ReadArgs \/ WriteArgs \/ PutArgs \/ GetArgs

(* Bad arguments, no file, no socket, no device.                           *)
Refused ==
    /\ pc = "start" /\ Exit(1)
    /\ Idle /\ KeepNet /\ UNCHANGED <<plan, pos>>
Search ==
    /\ pc = "start" /\ pc' = "search"
    /\ \/ Memory /\ scene.probe /\ ScanRoot("address", scene.address, FALSE)
       \/ Tool({"find"}) /\ ScanRoot("identity", scene.name, FALSE)
       \/ ListArgs /\ ScanRoot("list", 0, scene.probe)
    /\ KeepNet /\ UNCHANGED <<scene, own, plan, pos, exit>>
NoProbe ==
    /\ pc = "start" /\ pc' = "choose" /\ Memory /\ ~scene.probe
    /\ Idle /\ KeepNet /\ UNCHANGED <<plan, pos, exit>>
Searching == /\ pc = "search" /\ SdbStep
             /\ UNCHANGED toolVars

(* The order of the command line wins over that of the record. *)
SearchDone ==
    /\ pc = "search" /\ Searched
    /\ IF Tool({"find", "ls"})
       THEN Exit(IF job.status \in {"ok", "run"} THEN 0 ELSE 1) /\ UNCHANGED plan
       ELSE IF job.status # "ok" THEN Exit(1) /\ UNCHANGED plan
       ELSE /\ pc' = "choose" /\ UNCHANGED exit
            /\ \E d \in job.found :
                 plan' = [sizes |-> d.sizes, order |-> IF scene.order = "none" THEN d.order ELSE scene.order]
    /\ Idle /\ KeepNet /\ UNCHANGED pos

(* Sizes both the device and the link support. *)
LineSizes == {n \in plan.sizes : n <= scene.line}
Choose ==
    /\ pc = "choose"
    /\ IF LineSizes = {} \/ (Tool({"put", "get"}) /\ plan.order = "none")
       THEN Exit(1) /\ UNCHANGED plan
       ELSE /\ pc' = (IF Tool({"read", "write"}) THEN "issue" ELSE "head")
            /\ plan' = [plan EXCEPT !.sizes = LineSizes] /\ UNCHANGED exit
    /\ Idle /\ KeepNet /\ UNCHANGED pos

-----------------------------------------------------------------------------
(* Operations and cycles. *)

Op(a, n, val) == [at |-> a, size |-> n, val |-> val]     \* val is <<>> for a read
ReadOp(a, n) == Op(a, n, <<>>)
Queue(ops) == cycles' = Append(cycles, ops)
NoMemory == Exit(1) /\ UNCHANGED cycles

(* Fewer bytes at a time, or more bytes than asked for. *)
Chunk(n) == Largest({m \in plan.sizes : m < n})
Whole(n) == Smallest(plan.sizes)
Fits(n) == n \in plan.sizes
Splits(n) == ~Fits(n) /\ \E m \in plan.sizes : m < n
Widens(n) == ~Fits(n) /\ \A m \in plan.sizes : m > n
(* Only an access of the link's width does without an order. *)
OrderKnown(n) == plan.order # "none" \/ (Fits(n) /\ n = scene.line)

(* Bytes of the wider value before those asked for. *)
Before(a, n, w) ==
    IF plan.order = "little" THEN (w - n) - (a - Aligned(a, w)) ELSE a - Aligned(a, w)

(* A word read or written a chunk at a time: reads fetch the most          *)
(* significant chunk first, writes go up in the addresses.                 *)
ReadSplit(a, n) ==
    LET c == Chunk(n)
        at(i) == IF plan.order = "little" THEN a + n - i * c ELSE a + (i - 1) * c
    IN  [i \in 1 .. n \div c |-> ReadOp(at(i), c)]
ReadWide(a, n) == <<ReadOp(Aligned(a, Whole(n)), Whole(n))>>
ReadOps(a, n) ==
    IF Fits(n) THEN <<ReadOp(a, n)>> ELSE IF Splits(n) THEN ReadSplit(a, n) ELSE ReadWide(a, n)

Arg(n) == [i \in 1 .. n |-> <<"arg", i - 1>>]
WriteSplit(a, n) ==
    LET c == Chunk(n)
        part(i) == IF plan.order = "little" THEN n - i * c ELSE (i - 1) * c
    IN  [i \in 1 .. n \div c |-> Op(a + (i - 1) * c, c, SubSeq(Arg(n), part(i) + 1, part(i) + c))]
WriteOps(a, n) ==
    IF Fits(n) THEN <<Op(a, n, Arg(n))>> ELSE IF Splits(n) THEN WriteSplit(a, n) ELSE ReadWide(a, n)

(* eb-read and eb-write: -f refuses what cannot be done as asked. *)
Issue ==
    /\ pc = "issue"
    /\ LET a == scene.address  n == scene.len IN
       \/ NoMemory
       \/ /\ scene.strict /\ ~Fits(n) /\ NoMemory
       \/ /\ ~(scene.strict /\ ~Fits(n)) /\ ~OrderKnown(n) /\ NoMemory
       \/ /\ ~(scene.strict /\ ~Fits(n)) /\ OrderKnown(n)
          /\ pc' = "wait" /\ UNCHANGED exit
          /\ Queue(IF Tool({"read"}) THEN ReadOps(a, n) ELSE WriteOps(a, n))
    /\ Idle /\ UNCHANGED <<mem, out, said, plan, pos>>

(* eb-write put its bytes into the wider value it has read. *)
\* Mutant: the mask stays at the low bytes.
MergedLow(v, a, n, w) ==
    [i \in 1 .. w |-> IF i - 1 \in Bytes(w - n, n) THEN Arg(n)[i - (w - n)] ELSE v[i]]
Merged(v, a, n, w) ==
    LET b == Before(a, n, w) IN
    [i \in 1 .. w |-> IF i - 1 \in Bytes(b, n) THEN Arg(n)[i - b] ELSE v[i]]

-----------------------------------------------------------------------------
(* eb-put and eb-get: single small operations up to the alignment of the   *)
(* large ones, large ones in cycles of PerCycle, small ones to the end.    *)
Bulk == Largest(plan.sizes)
Edge == Smallest(plan.sizes)
End == scene.address + scene.len
EndBulk == Aligned(End, Bulk)

Data(a, n, order) == Ordered(order, [i \in 1 .. n |-> <<"arg", a - scene.address + i - 1>>])
PutOps(n, count) == [i \in 1 .. count |-> Op(pos.at + (i - 1) * n, n, Data(pos.at + (i - 1) * n, n, plan.order))]
GetOps(n, count) == [i \in 1 .. count |-> ReadOp(pos.at + (i - 1) * n, n)]
Transfer(n, count) ==
    /\ pos' = [pos EXCEPT !.at = @ + n * count, !.read = @ + n * count, !.batch = IF pc = "bulk" THEN @ + 1 ELSE 0]
    /\ Queue(IF Tool({"put"}) THEN PutOps(n, count) ELSE GetOps(n, count))
(* No memory for the cycle, or the file ends within an operation: exit     *)
(* with whatever was queued not sent.                                      *)
Short(n, count) == Tool({"put"}) /\ pos.read + n * count > scene.len
TransferOrExit(n, count) ==
    \/ /\ ~Short(n, count) /\ Len(cycles) < MaxCycles
       /\ Transfer(n, count) /\ UNCHANGED exit
       /\ pc' = IF pc = "bulk" /\ pos.batch + 1 = Batch THEN "flush" ELSE pc
    \/ NoMemory /\ UNCHANGED pos
Rest == Idle /\ UNCHANGED <<mem, out, said, plan>>

First == /\ pc = "head" /\ Rest
         /\ IF pos.at % Bulk # 0 THEN TransferOrExit(Edge, 1)
           ELSE pc' = "headwait" /\ UNCHANGED <<pos, cycles, exit>>
Step == LET n == (EndBulk - pos.at) \div Bulk IN IF n > PerCycle THEN PerCycle ELSE n
Middle == /\ pc = "bulk" /\ Rest
          /\ IF pos.at < EndBulk THEN TransferOrExit(Bulk, Step)
             ELSE pc' = "tail" /\ UNCHANGED <<pos, cycles, exit>>
LastPart == /\ pc = "tail" /\ Rest
            /\ IF pos.at < End THEN TransferOrExit(Edge, 1)
               ELSE pc' = "tailwait" /\ UNCHANGED <<pos, cycles, exit>>

-----------------------------------------------------------------------------
(* The socket runs while the tool waits: cycles are executed in any order, *)
(* or not at all, and called back.                                         *)
Waiting == pc \in {"wait", "modify", "headwait", "flush", "tailwait"}
DeviceAt(op) == {d \in AllDevices : /\ Bytes(op.at, op.size) \subseteq d.first .. d.last
                                     /\ op.size \in d.sizes /\ op.at % op.size = 0}
(* my_read and my_write of eb-snoop, a program that is such a device.      *)
MyRead(d, a, n) == Ordered(d.order, Mem(mem, a, n))
MyWrite(d, m, a, v) == [x \in DOMAIN m |-> IF x \in Bytes(a, Len(v)) THEN Ordered(d.order, v)[x - a + 1] ELSE m[x]]
Executed(m, op) == MyWrite(CHOOSE d \in DeviceAt(op) : TRUE, m, op.at, op.val)
Performed(ops, bad) ==
    LET m[i \in 0 .. Len(ops)] == IF i = 0 THEN mem
                                  ELSE IF i \in bad \/ ops[i].val = <<>> THEN m[i - 1]
                                  ELSE Executed(m[i - 1], ops[i])
    IN  m[Len(ops)]
Value(op, failed) ==
    IF failed THEN [i \in 1 .. op.size |-> <<"bad", 0>>]
    ELSE MyRead(CHOOSE d \in DeviceAt(op) : TRUE, op.at, op.size)

(* set_stop of eb-read: the values one after the other.  dec_todo of       *)
(* eb-get: each at its place in the file.                                  *)
Joined(ops, bad) ==
    LET v[i \in 0 .. Len(ops)] == IF i = 0 THEN <<>> ELSE v[i - 1] \o Value(ops[i], i \in bad)
    IN  v[Len(ops)]
Saved(ops) ==
    LET into(o) == {i \in DOMAIN ops : o + scene.address \in Bytes(ops[i].at, ops[i].size)}
        new == UNION {{a - scene.address : a \in Bytes(ops[i].at, ops[i].size)} : i \in DOMAIN ops}
        byte(o, i) == Ordered(plan.order, Value(ops[i], FALSE))[o + scene.address - ops[i].at + 1]
    IN  [o \in DOMAIN out \cup new |-> IF o \in new THEN byte(o, CHOOSE i \in into(o) : TRUE) ELSE out[o]]

(* Where no device is, or the bus reports an error, an operation fails.    *)
(* eb-put and eb-get end at the first; eb-read and eb-write tell and go on.*)
Answered ==
    /\ Waiting /\ UNCHANGED <<sdbVars, scene, own, plan, pos>>
    /\ \E i \in DOMAIN cycles : \E bad \in SUBSET DOMAIN cycles[i] :
         LET ops == cycles[i] IN
         /\ \A j \in DOMAIN ops : DeviceAt(ops[j]) = {} => j \in bad
         /\ cycles' = [j \in 1 .. Len(cycles) - 1 |-> IF j < i THEN cycles[j] ELSE cycles[j + 1]]
         /\ mem' = Performed(ops, bad)
         /\ IF Tool({"put", "get"}) /\ bad # {}
            THEN Exit(1) /\ UNCHANGED <<out, said>>
            ELSE /\ said' = (said \/ bad # {}) /\ UNCHANGED <<pc, exit>>
                 /\ out' = IF Tool({"get"}) THEN Saved(ops)
                           ELSE IF pc = "wait" /\ ops[1].val = <<>> THEN Joined(ops, bad) ELSE out
(* The cycle has no answer: whether it was performed is not known.         *)
NoAnswer ==
    /\ Waiting /\ Exit(1)
    /\ \E i \in DOMAIN cycles : mem' \in {mem, Performed(cycles[i], {j \in DOMAIN cycles[i] : DeviceAt(cycles[i][j]) = {}})}
    /\ UNCHANGED <<sdbVars, scene, own, plan, pos, cycles, out, said>>

Skip == Before(scene.address, scene.len, Whole(scene.len))
ReadPart(v) == IF Widens(scene.len) THEN SubSeq(v, Skip + 1, Skip + scene.len) ELSE v
(* Nothing is awaited any more.                                            *)
ReadDone == /\ pc = "wait" /\ Tool({"read"}) /\ cycles = <<>>
            /\ out' = ReadPart(out) /\ Exit(0)
            /\ Idle /\ UNCHANGED <<mem, cycles, said, plan, pos>>
(* Whether there is memory for the second cycle is not looked at.          *)
Modify == /\ pc = "wait" /\ Tool({"write"}) /\ cycles = <<>> /\ Widens(scene.len)
          /\ LET n == scene.len  w == Whole(n)  a == Aligned(scene.address, w) IN
             \/ Queue(<<Op(a, w, Merged(out, scene.address, n, w))>>) /\ pc' = "modify" /\ UNCHANGED exit
             \/ Exit(2) /\ UNCHANGED cycles
          /\ Idle /\ UNCHANGED <<mem, out, said, plan, pos>>
WriteDone == /\ Tool({"write"}) /\ cycles = <<>>
             /\ pc = "modify" \/ (pc = "wait" /\ ~Widens(scene.len))
             /\ Exit(0) /\ Idle /\ KeepNet /\ UNCHANGED <<plan, pos>>
Drained == /\ pc \in {"headwait", "flush"} /\ cycles = <<>>
           /\ pc' = "bulk" /\ pos' = [pos EXCEPT !.batch = 0]
           /\ Idle /\ KeepNet /\ UNCHANGED <<plan, exit>>
TailDone == /\ pc = "tailwait" /\ cycles = <<>> /\ Exit(0)
            /\ Idle /\ KeepNet /\ UNCHANGED <<plan, pos>>

(* A device changes a byte by itself, next to those the tool writes.       *)
Asked == Bytes(scene.address, scene.len)
OwnChange ==
    /\ Tool({"write", "put"}) /\ Waiting /\ own = {}
    /\ \E d \in bus.devices : \E a \in (d.first .. d.last) \ Asked :
         mem' = [mem EXCEPT ![a] = <<"own", a>>] /\ own' = {a}
    /\ UNCHANGED <<sdbVars, scene, pc, plan, pos, cycles, out, said, exit>>

Progress ==
    \/ Refused \/ Search \/ NoProbe \/ Searching \/ SearchDone \/ Choose
    \/ Issue \/ First \/ Middle \/ LastPart
    \/ Answered \/ NoAnswer \/ ReadDone \/ Modify \/ WriteDone \/ Drained \/ TailDone
Attached == pc # "done" /\ Attach /\ UNCHANGED toolVars
Next == Progress \/ OwnChange \/ Attached
Spec == Init /\ [][Next]_vars

(* The program runs, and eb_socket_run calls every closed cycle back: this *)
(* is SentIsCalledBack of EbSocket.                                        *)
FairSpec == Spec /\ WF_vars(Progress)

-----------------------------------------------------------------------------
(* What a tool that ends with 0 has done, unless it told of an error: the  *)
(* value it prints, the file it writes, the memory it writes and the       *)
(* devices it lists are right (eb-read.c set_stop and its shifts, dec_todo *)
(* of eb-put and eb-get, list_devices of eb-ls, the searches of sdb.c).    *)
Device == CHOOSE d \in AllDevices : Asked \subseteq d.first .. d.last

(* No byte but those asked for is changed.  eb-write that must write more  *)
(* puts back what it read: another change in between is undone, and after  *)
(* a read that failed, which it tells of, it puts back what that gave.     *)
Rewritten == IF Tool({"write"}) /\ pc # "start" /\ Widens(scene.len)
             THEN Bytes(Aligned(scene.address, Whole(scene.len)), Whole(scene.len)) ELSE {}
OnlyWhatWasAsked ==
    \A a \in DOMAIN mem \ Asked :
        \/ mem[a] = (IF a \in own THEN <<"own", a>> ELSE <<"mem", a>>)
        \/ a \in Rewritten /\ (mem[a] = <<"mem", a>> \/ (said /\ mem[a] = <<"bad", 0>>))

(* A tool ends, whatever fails, but for two places: a bridge whose table   *)
(* leads back to itself is scanned for ever (sdb.c:370 and eb-ls.c), and   *)
(* list_devices waits for a scan it could not start (eb-ls.c:224).         *)
ListStuck == Tool({"ls"}) /\ frames # <<>> /\ frames[1].wait /\ scans = {}
EveryToolEnds == scene.cyclic \/ <>(exit # -1 \/ ListStuck)
=============================================================================
