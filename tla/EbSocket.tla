------------------------------ MODULE EbSocket ------------------------------
(***************************************************************************)
(* The requesting side of the Etherbone library (etherbone/api): cycles    *)
(* (glue/cycle.c), eb_device_flush (format/master.c), the responses of a   *)
(* socket (glue/socket.c, glue/readwrite.c) and eb_device_close            *)
(* (glue/device.c).  The library is one thread; it calls the application   *)
(* back, and the application may then open, close and abort cycles.        *)
(*                                                                         *)
(* The operations of a cycle are abstracted to its Shape, how many words   *)
(* of read values and of error status answer it, and to its Fault, why     *)
(* eb_device_flush refuses it.  Devices are open, with their widths        *)
(* negotiated.  The network and the remote (external) lose, repeat, delay  *)
(* and reorder packets, and may answer against the protocol.               *)
(***************************************************************************)
EXTENDS Integers, Sequences, FiniteSets, SequencesExt, Functions, Selection

CONSTANTS
  Cycles,        (* The cycles the application opens, each once.           *)
  DeviceList,    (* The devices they may be for, as the socket lists them. *)
  DeviceOf,      (* The device of each cycle.                              *)
  Shape,         (* [reads, stats] of each cycle.                          *)
  Fault,         (* Of each cycle: why flush may refuse it.                *)
  RbaMod,        (* Read-back addresses: 2^14 in the code.                 *)
  TimeMod,       (* Deadlines count modulo this: 2^16 in the code.         *)
  Patience,      (* Seconds until a response times out: 5 in the code.     *)
  BadRemote,     (* The remote may violate the protocol.                   *)
  CloseInFlush,  (* Callbacks that the flush of a device runs may close    *)
                 (* cycles of that device.                                 *)
  Epoch,         (* The time at which the socket is opened.                *)
  MaxGap,        (* Bound: seconds between two calls of eb_socket_check.   *)
  MaxTime        (* Bound: the clock stops here.                           *)

Devices == Range(DeviceList)
Words(c) == Shape[c].reads + Shape[c].stats
Status == {"none", "OK", "OOM", "OVERFLOW", "WIDTH", "TIMEOUT", "FAIL"}

ASSUME EbAssumption ==
  /\ DeviceList \in Seq(Devices) \ {<<>>}
  /\ DeviceOf \in [Cycles -> Devices]
  /\ Shape \in [Cycles -> [reads : Nat, stats : Nat]]
  /\ Fault \in [Cycles -> SUBSET {"OOM", "OVERFLOW", "WIDTH", "EMPTY"}]
  /\ \A c \in Cycles : "EMPTY" \in Fault[c] => Words(c) = 0
  /\ RbaMod \in Nat \ {0} /\ TimeMod \in Nat \ {0} /\ Patience \in Nat
  /\ BadRemote \in BOOLEAN /\ CloseInFlush \in BOOLEAN
  /\ Epoch \in Nat /\ MaxGap \in Nat /\ MaxTime \in Nat
  /\ 2 * Patience < TimeMod /\ 2 * MaxGap < TimeMod

VARIABLES
  \* The application's cycles.
  state,           (* new, open, then aborted, or closed and later gone.   *)
  \* struct eb_device
  passive, link, unready, ready,
  \* struct eb_socket
  first, last, rba, timeCache,
  \* Where the library is, and its locals.
  pc, ret, now, inbox, todo, dev, devs, packet,
  \* The environment.
  clock, sent, answered,   (* The time, and the packets: sent by flush,    *)
                           (* and those of which an answer arrived.        *)
  \* History.
  calls, status,   (* How often each cycle was called back, and with what. *)
  claims           (* The cycles that claimed a read-back address, oldest  *)
                   (* first, and when they were sent.                      *)

device == <<passive, link, unready, ready>>
socket == <<first, last, rba, timeCache>>
locals == <<now, inbox, todo, dev, devs, packet>>
env    == <<clock, sent, answered>>
hist   == <<calls, status, claims>>
vars   == <<state, device, socket, pc, ret, locals, env, hist>>

\* A response: xxxxxxxxxxxxxxxL is split into the address and which words it
\* still waits for (write_cursor and status_cursor).
Response == [address : 0 .. RbaMod - 1, deadline : 0 .. TimeMod - 1, cycle : Cycles,
             reads : Nat, stats : Nat]
\* What a packet says of one cycle; k counts the claimed addresses.
Entry == [address : 0 .. RbaMod - 1, cycle : Cycles, k : Nat]

Init ==
  /\ state = [c \in Cycles |-> "new"]
  /\ passive = [d \in Devices |-> FALSE] /\ link = [d \in Devices |-> TRUE]
  /\ unready = [d \in Devices |-> 0] /\ ready = [d \in Devices |-> <<>>]
  /\ first = <<>> /\ last = <<>> /\ rba = 0 /\ timeCache = Epoch
  /\ pc = "app" /\ ret = "app"
  /\ now = Epoch /\ inbox = <<>> /\ todo = <<>> /\ devs = <<>> /\ packet = <<>>
  /\ dev = Head(DeviceList)
  /\ clock = Epoch /\ sent = {} /\ answered = {}
  /\ calls = [c \in Cycles |-> 0] /\ status = [c \in Cycles |-> "none"]
  /\ claims = <<>>

-----------------------------------------------------------------------------
(* The application: in its own code, or in a callback.                     *)

Queue == first \o Reverse(last)
Outstanding == {r.cycle : r \in Range(Queue)}

\* Bound: while a cycle waits for its answer, the addresses do not come round.
Room ==
  LET coming == {c \in Cycles : state[c] \in {"open", "closed"}} \ Outstanding
      waiting == {i \in DOMAIN claims : claims[i].cycle \in Outstanding}
  IN \A i \in waiting \cup {Len(claims) + 1} :
       Len(claims) - i + 1 + Cardinality(coming) < RbaMod

\* eb_cycle_open.  It fails on a device that is closing.
Open(c) ==
  /\ Room
  /\ pc \in {"app", "callback"} /\ state[c] = "new" /\ ~passive[DeviceOf[c]]
  /\ state' = [state EXCEPT ![c] = "open"]
  /\ unready' = [unready EXCEPT ![DeviceOf[c]] = @ + 1]
  /\ UNCHANGED <<passive, link, ready, socket, pc, ret, locals, env, hist>>

\* eb_cycle_close and eb_cycle_close_silently with a callback: the cycle is
\* put at the head of the device's list.
Close(c) ==
  /\ pc \in {"app", "callback"} /\ state[c] = "open"
  /\ pc = "callback" /\ ret = "flush" /\ DeviceOf[c] = dev => CloseInFlush
  /\ state' = [state EXCEPT ![c] = "closed"]
  /\ ready' = [ready EXCEPT ![DeviceOf[c]] = <<c>> \o @]
  /\ unready' = [unready EXCEPT ![DeviceOf[c]] = @ - 1]
  /\ UNCHANGED <<passive, link, socket, pc, ret, locals, env, hist>>

\* eb_cycle_abort
Abort(c) ==
  /\ pc \in {"app", "callback"} /\ state[c] = "open"
  /\ state' = [state EXCEPT ![c] = "aborted"]
  /\ unready' = [unready EXCEPT ![DeviceOf[c]] = @ - 1]
  /\ UNCHANGED <<passive, link, ready, socket, pc, ret, locals, env, hist>>

\* The library runs the callback of cycle c, frees the cycle, and goes on at
\* where.
Call(c, with, where) ==
  /\ calls' = [calls EXCEPT ![c] = @ + 1]
  /\ status' = [status EXCEPT ![c] = with]
  /\ state' = [state EXCEPT ![c] = "gone"]
  /\ pc' = "callback" /\ ret' = where

Return ==
  /\ pc = "callback"
  /\ pc' = ret /\ ret' = "app"
  /\ UNCHANGED <<state, device, socket, locals, env, hist>>

App == (\E c \in Cycles : Open(c) \/ Close(c) \/ Abort(c))

-----------------------------------------------------------------------------
(* The responses of a socket: first has the oldest at its head, last the   *)
(* youngest.                                                               *)

\* Mutant: the list is not turned over.
FlipNot(q) == q

\* eb_response_flip
Flip(q) == Reverse(q)

\* Mutant: the difference is not read as a signed number.
Unsigned(x) == x

\* udelta = deadline - (uint16_t)time_cache, read as a signed number.
Signed(x) == IF 2 * x < TimeMod THEN x ELSE x - TimeMod
Deadline(r) == timeCache + Signed((r.deadline - timeCache) % TimeMod)

-----------------------------------------------------------------------------
(* eb_socket_check                                                         *)

Check ==
  /\ pc = "app"
  /\ now' = clock /\ pc' = "kill"
  /\ UNCHANGED <<state, device, socket, ret, inbox, todo, dev, devs, packet, env, hist>>

\* Step 1: only the older list is looked at.
KillExpired ==
  /\ pc = "kill" /\ first # <<>> /\ Deadline(Head(first)) <= now
  /\ first' = Tail(first)
  /\ Call(Head(first).cycle, "TIMEOUT", "kill")
  /\ UNCHANGED <<device, last, rba, timeCache, locals, env, claims>>

KillDone ==
  /\ pc = "kill" /\ (first # <<>> => Deadline(Head(first)) > now)
  /\ timeCache' = now
  /\ devs' = Select(DeviceList, {i \in DOMAIN DeviceList : ~passive[DeviceList[i]]})
  /\ pc' = "poll"
  /\ UNCHANGED <<state, device, first, last, rba, ret, now, inbox, todo, dev, packet, env, hist>>

\* Step 2, for each device: eb_device_slave takes the answer to a packet, perhaps
\* not for the first time.  Bound: the answer is no older than a turn of the
\* read-back addresses.
Receive(p) ==
  /\ pc = "poll" /\ devs # <<>> /\ link[Head(devs)]
  /\ p \in sent /\ DeviceOf[Head(p).cycle] = Head(devs)
  /\ \A i \in DOMAIN p : p[i].k + RbaMod > Len(claims)
  /\ inbox' = FlattenSeq([i \in DOMAIN p |->
       [w \in 1 .. Words(p[i].cycle) |->
          [address |-> p[i].address, stat |-> w > Shape[p[i].cycle].reads]]])
  /\ answered' = answered \cup {p}
  /\ pc' = "words"
  /\ UNCHANGED <<state, device, socket, ret, now, todo, dev, devs, packet, clock, sent, hist>>

\* A remote that violates the protocol sends a word the response has no use
\* for.
ReceiveBad(r, isStat) ==
  /\ pc = "poll" /\ BadRemote /\ devs # <<>> /\ link[Head(devs)]
  /\ (IF isStat THEN r.stats ELSE r.reads) = 0
  /\ inbox' = <<[address |-> r.address, stat |-> isStat]>>
  /\ pc' = "words"
  /\ UNCHANGED <<state, device, socket, ret, now, todo, dev, devs, packet, env, hist>>

\* The transport of the device fails: the link is gone, and only
\* eb_device_close helps.
LinkDown ==
  /\ pc = "poll" /\ BadRemote /\ devs # <<>> /\ link[Head(devs)]
  /\ link' = [link EXCEPT ![Head(devs)] = FALSE]
  /\ UNCHANGED <<state, passive, unready, ready, socket, pc, ret, locals, env, hist>>

\* eb_socket_write_config.  The younger list is turned over and joined only
\* when the older has no response with the address.
Hits(q) == {i \in DOMAIN q : q[i].address = Head(inbox).address}

Word ==
  /\ pc = "words" /\ inbox # <<>>
  /\ inbox' = Tail(inbox)
  /\ LET joined == Hits(first) = {}
         q == IF joined THEN first \o Flip(last) ELSE first
     IN
       /\ last' = IF joined THEN <<>> ELSE last
       /\ \/ /\ Hits(q) = {}
             /\ first' = q
             /\ UNCHANGED <<state, pc, ret, calls, status>>
          \/ /\ Hits(q) # {}
             /\ LET i == CHOOSE i \in Hits(q) : \A k \in Hits(q) : i <= k
                    r == q[i]
                    left == IF Head(inbox).stat THEN [r EXCEPT !.stats = @ - 1]
                                                ELSE [r EXCEPT !.reads = @ - 1]
                    fail == left.reads < 0 \/ left.stats < 0
                IN IF fail \/ left.reads + left.stats = 0
                   THEN /\ first' = RemoveAt(q, i)
                        /\ Call(r.cycle, IF fail THEN "FAIL" ELSE "OK", "words")
                   ELSE /\ first' = [q EXCEPT ![i] = left]
                        /\ UNCHANGED <<state, pc, ret, calls, status>>
  /\ UNCHANGED <<device, rba, timeCache, now, todo, dev, devs, packet, env, claims>>

WordsDone ==
  /\ pc = "words" /\ inbox = <<>>
  /\ pc' = "poll"
  /\ UNCHANGED <<state, device, socket, ret, locals, env, hist>>

\* Mutant: only the older list is ever looked at.
CheckDoneNoFlip ==
  /\ pc = "poll" /\ devs = <<>>
  /\ pc' = "app"
  /\ UNCHANGED <<state, device, socket, ret, locals, env, hist>>

\* eb_socket_timeout, which is to be asked when the next eb_socket_check is
\* due, turns the younger list over when the older is empty.
CheckDone ==
  /\ pc = "poll" /\ devs = <<>>
  /\ IF first = <<>> THEN first' = Flip(last) /\ last' = <<>> ELSE UNCHANGED <<first, last>>
  /\ pc' = "app"
  /\ UNCHANGED <<state, device, rba, timeCache, ret, locals, env, hist>>

-----------------------------------------------------------------------------
(* eb_device_flush                                                         *)

\* All that was ready to be read has been; flush the device.  Without a link it
\* fails.
FlushNot ==
  /\ pc = "poll" /\ devs # <<>> /\ ~link[Head(devs)]
  /\ devs' = Tail(devs)
  /\ UNCHANGED <<state, device, socket, pc, ret, now, inbox, todo, dev, packet, env, hist>>

\* The list is turned over, the oldest cycle first.  (This is done in place:
\* what the device still points to is no longer the list.)
Flush ==
  /\ pc = "poll" /\ devs # <<>> /\ link[Head(devs)]
  /\ devs' = Tail(devs) /\ dev' = Head(devs)
  /\ todo' = Reverse(ready[dev']) /\ ready' = [ready EXCEPT ![dev'] = <<>>]
  /\ pc' = "flush"
  /\ UNCHANGED <<state, passive, link, unready, socket, ret, now, inbox, packet, env, hist>>

\* The buffer is full, or the cycles are done: what has been formatted goes.
Send ==
  /\ pc = "flush" /\ packet # <<>>
  /\ sent' = sent \cup {packet} /\ packet' = <<>>
  /\ UNCHANGED <<state, device, socket, pc, ret, now, inbox, todo, dev, devs, clock, answered,
                 hist>>

\* No memory for an operation or for the response, an operation that does not
\* fit the device, no operation at all, or more than fit a packet: then what
\* was formatted before has been sent.
FlushRefuse(fault) ==
  /\ pc = "flush" /\ todo # <<>> /\ fault \in Fault[Head(todo)]
  /\ fault = "OVERFLOW" => packet = <<>>
  /\ Call(Head(todo), IF fault = "EMPTY" THEN "OK" ELSE fault, "flush")
  /\ todo' = Tail(todo)
  /\ UNCHANGED <<device, socket, now, inbox, dev, devs, packet, env, claims>>

\* No answer will come: the cycle is called back at once, before it is sent.
FlushWrite ==
  /\ pc = "flush" /\ todo # <<>>
  /\ LET c == Head(todo) IN
       /\ Words(c) = 0
       /\ packet' = Append(packet, [address |-> rba, cycle |-> c, k |-> Len(claims)])
       /\ Call(c, "OK", "flush")
  /\ todo' = Tail(todo)
  /\ UNCHANGED <<device, socket, now, inbox, dev, devs, env, claims>>

\* Mutants: all use one address; the address outgrows its bits.
NextRbaStuck == rba
NextRbaUnwrapped == rba + 1

NextRba == (rba + 1) % RbaMod

\* The response is queued.
FlushRead ==
  /\ pc = "flush" /\ todo # <<>>
  /\ LET c == Head(todo) IN
       /\ Words(c) > 0
       /\ packet' = Append(packet, [address |-> rba, cycle |-> c, k |-> Len(claims)])
       /\ last' = <<[address |-> rba, deadline |-> (timeCache + Patience) % TimeMod, cycle |-> c,
                     reads |-> Shape[c].reads, stats |-> Shape[c].stats]>> \o last
       /\ claims' = Append(claims, [cycle |-> c, at |-> timeCache])
  /\ rba' = NextRba
  /\ todo' = Tail(todo)
  /\ UNCHANGED <<state, device, first, timeCache, pc, ret, now, inbox, dev, devs, env, calls,
                 status>>

\* The ready list is emptied, whatever is on it.
FlushDone ==
  /\ pc = "flush" /\ todo = <<>> /\ packet = <<>>
  /\ ready' = [ready EXCEPT ![dev] = <<>>]
  /\ pc' = "poll"
  /\ UNCHANGED <<state, passive, link, unready, socket, ret, locals, env, hist>>

-----------------------------------------------------------------------------
(* eb_device_close                                                         *)

\* eb_socket_filter_inflight pushes those of the younger list, then those of
\* the older one, turned over.
Theirs(d, q) == Select(q, {i \in DOMAIN q : DeviceOf[q[i].cycle] = d})
Others(d, q) == Select(q, {i \in DOMAIN q : DeviceOf[q[i].cycle] # d})
Kept(d) == Others(d, first) \o Reverse(Others(d, last))
\* Mutant: the younger list is forgotten.
KilledFirst(d) == Theirs(d, first)

Killed(d) == Theirs(d, first) \o Reverse(Theirs(d, last))

\* The outstanding cycles of the device and then its ready ones are called
\* back, both oldest first.  (The ready list and the mark of a closing device
\* share their storage.)  Devices are closed outside the callbacks.
CloseDevice(d) ==
  /\ pc = "app" /\ ~passive[d] /\ unready[d] = 0
  /\ passive' = [passive EXCEPT ![d] = TRUE]
  /\ ready' = [ready EXCEPT ![d] = <<>>]
  /\ first' = Kept(d) /\ last' = <<>>
  /\ todo' = [i \in DOMAIN Killed(d) |-> Killed(d)[i].cycle] \o Reverse(ready[d])
  /\ dev' = d
  /\ pc' = "close"
  /\ UNCHANGED <<state, link, unready, rba, timeCache, ret, now, inbox, devs, packet, env, hist>>

CloseCycle ==
  /\ pc = "close" /\ todo # <<>>
  /\ Call(Head(todo), "TIMEOUT", "close")
  /\ todo' = Tail(todo)
  /\ UNCHANGED <<device, socket, now, inbox, dev, devs, packet, env, claims>>

CloseDone ==
  /\ pc = "close" /\ todo = <<>>
  /\ link' = [link EXCEPT ![dev] = FALSE]
  /\ pc' = "app"
  /\ UNCHANGED <<state, passive, unready, ready, socket, ret, locals, env, hist>>

-----------------------------------------------------------------------------
(* The environment (external).                                             *)

\* The library reads the clock when it is called.
Tick ==
  /\ pc = "app" /\ clock < MaxTime /\ clock - timeCache < MaxGap
  /\ clock' = clock + 1
  /\ UNCHANGED <<state, device, socket, pc, ret, locals, sent, answered, hist>>

-----------------------------------------------------------------------------
Lib ==
  \/ Return \/ KillExpired \/ KillDone \/ Word \/ WordsDone \/ CheckDone \/ FlushNot \/ Flush
  \/ Send \/ FlushWrite \/ FlushRead \/ FlushDone \/ CloseCycle \/ CloseDone
  \/ \E fault \in {"OOM", "OVERFLOW", "WIDTH", "EMPTY"} : FlushRefuse(fault)

Net ==
  \/ \E p \in sent : Receive(p)
  \/ \E r \in Range(Queue), s \in BOOLEAN : ReceiveBad(r, s)
  \/ LinkDown

Next ==
  \/ App \/ Check \/ (\E d \in Devices : CloseDevice(d))
  \/ Lib \/ Net \/ Tick

\* The application keeps running the socket, the library goes on, no flood of
\* packets keeps it reading for ever, and time passes.  Nothing is expected of
\* the remote, and no packet has to arrive.
Spec == Init /\ [][Next]_vars
FairSpec == Spec /\ WF_vars(Lib) /\ WF_vars(Check) /\ SF_vars(FlushNot \/ Flush) /\ SF_vars(Tick)

-----------------------------------------------------------------------------
(* Properties.                                                             *)

TypeOK ==
  /\ state \in [Cycles -> {"new", "open", "closed", "aborted", "gone"}]
  /\ passive \in [Devices -> BOOLEAN] /\ link \in [Devices -> BOOLEAN]
  /\ unready \in [Devices -> Nat] /\ ready \in [Devices -> Seq(Cycles)]
  /\ first \in Seq(Response) /\ last \in Seq(Response)
  /\ rba \in 0 .. RbaMod - 1 /\ timeCache \in Nat /\ clock \in Nat /\ now \in Nat
  /\ pc \in {"app", "callback", "kill", "poll", "words", "flush", "close"}
  /\ ret \in {"app", "kill", "words", "flush", "close"}
  /\ inbox \in Seq([address : 0 .. RbaMod - 1, stat : BOOLEAN])
  /\ todo \in Seq(Cycles) /\ dev \in Devices /\ devs \in Seq(Devices)
  /\ packet \in Seq(Entry) /\ \A p \in sent : p \in Seq(Entry)
  /\ answered \subseteq sent
  /\ calls \in [Cycles -> Nat] /\ status \in [Cycles -> Status]
  /\ claims \in Seq([cycle : Cycles, at : Nat])

\* In how many places the library holds a cycle that it is to call back: on
\* the ready list, on the list being flushed or closed, and outstanding.
Occurs(c, q) == Cardinality({i \in DOMAIN q : q[i] = c})
Held(c) ==
  Occurs(c, ready[DeviceOf[c]]) + Occurs(c, todo) + Occurs(c, [i \in DOMAIN Queue |-> Queue[i].cycle])

\* etherbone.h: "Your callback will be called exactly once".  A closed cycle
\* that was not called back yet is in exactly one place from which it will be,
\* and one that was is in none, whatever callbacks, flushes, answers, timeouts
\* and closing devices do in between.
CalledBackOnce ==
  \A c \in Cycles :
    calls[c] + Held(c) = IF state[c] \in {"closed", "gone"} THEN 1 ELSE 0

\* A cycle that reads is OK only if the remote answered it: no answer is
\* credited to another cycle, although packets are lost, repeated, late and
\* reordered, and read-back addresses are used again (master.c:521-523 and
\* the search of eb_socket_write_config).
OkMeansAnswered ==
  \A c \in Cycles : status[c] = "OK" /\ Words(c) > 0 =>
    \E p \in answered : \E i \in DOMAIN p : p[i].cycle = c

\* The low bits that a response keeps give back its deadline, on either list,
\* across the wrap of the counter and after late checks (master.c:516,
\* eb_socket_timeout): no cycle is given up early or kept for half a turn.
DeadlineSurvives ==
  \A i \in DOMAIN claims : \A r \in Range(Queue) :
    r.cycle = claims[i].cycle => Deadline(r) = claims[i].at + Patience

\* The two lists implement one queue: eb_response_flip, the timeouts, the
\* answers and eb_socket_kill_inflight keep the order of sending.
Claimed == {claims[i].cycle : i \in DOMAIN claims}
Abstract == INSTANCE ResponseQueue WITH
  Entries <- Cycles,
  Owner   <- DeviceOf,
  queue   <- [i \in DOMAIN Queue |-> Queue[i].cycle],
  leaving <- IF pc = "close" \/ (pc = "callback" /\ ret = "close")
             THEN Select(todo, {i \in DOMAIN todo : todo[i] \in Claimed}) ELSE <<>>,
  outcome <- [c \in Cycles |-> IF c \in Claimed THEN status[c] ELSE "none"]
IsAQueue == Abstract!QSpec

\* A cycle that was sent is called back, answer or no answer, once its time is
\* up, even if its link is lost and although only the older of the two lists is
\* checked (eb_socket_check, step 1).
SentIsCalledBack ==
  \A c \in Cycles : c \in Outstanding /\ clock + Patience <= MaxTime ~> calls[c] = 1
=============================================================================
