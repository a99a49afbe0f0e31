--------------------------- MODULE EbSocketProofs ---------------------------
(***************************************************************************)
(* Theorems about EbSocket: its state keeps its types; no cycle is called  *)
(* back twice, and each that was closed is called back once if callbacks   *)
(* that a flush runs close no cycle of the device that is flushed; the two *)
(* lists of responses implement one queue; deadlines outlive their high    *)
(* bits, and an OK is an answer.                                           *)
(*                                                                         *)
(* The proofs see a response only by its cycle: Line is the queue of the   *)
(* cycles that wait, and each operation on the two lists is shown to be    *)
(* one on Line.                                                            *)
(***************************************************************************)
EXTENDS EbSocket, QueueLemmas

\* The cycles of a list of responses.
LineOf(q) == [i \in DOMAIN q |-> q[i].cycle]
Line == LineOf(Queue)

\* The cycles of a list of responses are as many, in the same places.
LEMMA LineIs ==
  ASSUME NEW q \in Seq(Response)
  PROVE  /\ LineOf(q) \in Seq(Cycles) /\ Len(LineOf(q)) = Len(q) /\ DOMAIN LineOf(q) = DOMAIN q
         /\ \A i \in DOMAIN q : LineOf(q)[i] = q[i].cycle /\ q[i] \in Response
         /\ LineOf(q) = <<>> <=> q = <<>>
<1>1. Len(q) \in Nat /\ DOMAIN q = 1 .. Len(q) /\ \A i \in 1 .. Len(q) : q[i] \in Response
      BY LenProperties
<1>2. \A i \in 1 .. Len(q) : q[i].cycle \in Cycles
      BY <1>1 DEF Response
<1>3. LineOf(q) \in Seq(Cycles) /\ Len(LineOf(q)) = Len(q) /\ DOMAIN LineOf(q) = DOMAIN q
      BY <1>1, <1>2 DEF LineOf
<1>4. \A i \in DOMAIN q : LineOf(q)[i] = q[i].cycle
      BY DEF LineOf
<1>5. LineOf(q) = <<>> <=> q = <<>>
      BY <1>3, RangeIs
<1>. QED BY <1>1, <1>3, <1>4, <1>5

\* The cycles of two lists joined (eb_socket_write_config joins them).
LEMMA LineOfConcat ==
  ASSUME NEW s \in Seq(Response), NEW t \in Seq(Response)
  PROVE  LineOf(s \o t) = LineOf(s) \o LineOf(t)
<1>1. /\ s \o t \in Seq(Response) /\ Len(s \o t) = Len(s) + Len(t) /\ Len(s) \in Nat /\ Len(t) \in Nat
      /\ \A i \in 1 .. Len(s) + Len(t) : (s \o t)[i] = IF i <= Len(s) THEN s[i] ELSE t[i - Len(s)]
      /\ DOMAIN (s \o t) = 1 .. Len(s) + Len(t) /\ DOMAIN s = 1 .. Len(s) /\ DOMAIN t = 1 .. Len(t)
      BY ConcatProperties, LenProperties
<1>2. /\ LineOf(s) \in Seq(Cycles) /\ Len(LineOf(s)) = Len(s) /\ LineOf(t) \in Seq(Cycles) /\ Len(LineOf(t)) = Len(t)
      /\ LineOf(s \o t) \in Seq(Cycles) /\ Len(LineOf(s \o t)) = Len(s) + Len(t)
      BY <1>1, LineIs
<1>3. /\ LineOf(s) \o LineOf(t) \in Seq(Cycles) /\ Len(LineOf(s) \o LineOf(t)) = Len(s) + Len(t)
      /\ \A i \in 1 .. Len(s) + Len(t) :
           (LineOf(s) \o LineOf(t))[i] = IF i <= Len(s) THEN LineOf(s)[i] ELSE LineOf(t)[i - Len(s)]
      BY <1>2, ConcatProperties
<1>4. ASSUME NEW i \in 1 .. Len(s) + Len(t) PROVE LineOf(s \o t)[i] = (LineOf(s) \o LineOf(t))[i]
  <2>1. LineOf(s \o t)[i] = (s \o t)[i].cycle
        BY <1>1 DEF LineOf
  <2>2. i <= Len(s) => LineOf(s)[i] = s[i].cycle
        BY <1>1 DEF LineOf
  <2>3. ~(i <= Len(s)) => LineOf(t)[i - Len(s)] = t[i - Len(s)].cycle
        BY <1>1 DEF LineOf
  <2>. QED BY <1>1, <1>3, <2>1, <2>2, <2>3
<1>. QED BY <1>2, <1>3, <1>4, SeqEqual

\* The cycles of a list that eb_response_flip turned over.
LEMMA LineOfReverse ==
  ASSUME NEW q \in Seq(Response)
  PROVE  LineOf(Reverse(q)) = Reverse(LineOf(q))
<1>1. /\ Reverse(q) \in Seq(Response) /\ Len(Reverse(q)) = Len(q) /\ DOMAIN Reverse(q) = DOMAIN q
      /\ \A i \in DOMAIN q : Len(q) + 1 - i \in DOMAIN q /\ Reverse(q)[i] = q[Len(q) + 1 - i]
      BY ReverseIs
<1>2. /\ LineOf(q) \in Seq(Cycles) /\ Len(LineOf(q)) = Len(q) /\ DOMAIN LineOf(q) = DOMAIN q
      /\ LineOf(Reverse(q)) \in Seq(Cycles) /\ Len(LineOf(Reverse(q))) = Len(q)
      BY <1>1, LineIs
<1>3. /\ Reverse(LineOf(q)) \in Seq(Cycles) /\ Len(Reverse(LineOf(q))) = Len(q)
      /\ \A i \in DOMAIN q : Reverse(LineOf(q))[i] = LineOf(q)[Len(q) + 1 - i]
      BY <1>2, ReverseIs
<1>4. DOMAIN q = 1 .. Len(q)
      BY LenProperties
<1>5. ASSUME NEW i \in 1 .. Len(q) PROVE LineOf(Reverse(q))[i] = Reverse(LineOf(q))[i]
      BY <1>1, <1>3, <1>4 DEF LineOf
<1>. QED BY <1>2, <1>3, <1>5, SeqEqual

\* The cycles of those responses that eb_socket_filter_inflight picks.
LEMMA LineOfSelect ==
  ASSUME NEW q \in Seq(Response), NEW K \in SUBSET DOMAIN q
  PROVE  LineOf(Select(q, K)) = Select(LineOf(q), K)
<1>1. /\ Select(q, K) \in Seq(Response) /\ Len(Select(q, K)) = Cardinality(K)
      /\ DOMAIN Select(q, K) = 1 .. Cardinality(K)
      /\ \A j \in 1 .. Cardinality(K) : Nth(K, j) \in K /\ Select(q, K)[j] = q[Nth(K, j)]
      BY SelectIs
<1>2. LineOf(q) \in Seq(Cycles) /\ K \in SUBSET DOMAIN LineOf(q)
      BY LineIs
<1>3. /\ Select(LineOf(q), K) \in Seq(Cycles) /\ Len(Select(LineOf(q), K)) = Cardinality(K)
      /\ \A j \in 1 .. Cardinality(K) : Select(LineOf(q), K)[j] = LineOf(q)[Nth(K, j)]
      BY <1>2, SelectIs
<1>4. LineOf(Select(q, K)) \in Seq(Cycles) /\ Len(LineOf(Select(q, K))) = Cardinality(K)
      BY <1>1, LineIs
<1>5. ASSUME NEW j \in 1 .. Cardinality(K) PROVE LineOf(Select(q, K))[j] = Select(LineOf(q), K)[j]
      BY <1>1, <1>3 DEF LineOf
<1>. QED BY <1>3, <1>4, <1>5, SeqEqual

\* The cycles that are left when one response is taken out of a list.
LEMMA LineOfRemoveAt ==
  ASSUME NEW q \in Seq(Response), NEW i \in DOMAIN q
  PROVE  LineOf(RemoveAt(q, i)) = RemoveAt(LineOf(q), i)
<1>1. /\ RemoveAt(q, i) \in Seq(Response) /\ Len(RemoveAt(q, i)) = Len(q) - 1
      /\ DOMAIN RemoveAt(q, i) = 1 .. Len(q) - 1
      /\ \A j \in 1 .. Len(q) - 1 : RemoveAt(q, i)[j] = IF j < i THEN q[j] ELSE q[j + 1]
      BY RemoveAtIs
<1>2. LineOf(q) \in Seq(Cycles) /\ Len(LineOf(q)) = Len(q) /\ i \in DOMAIN LineOf(q)
      BY LineIs
<1>3. /\ RemoveAt(LineOf(q), i) \in Seq(Cycles) /\ Len(RemoveAt(LineOf(q), i)) = Len(q) - 1
      /\ \A j \in 1 .. Len(q) - 1 : RemoveAt(LineOf(q), i)[j] = IF j < i THEN LineOf(q)[j] ELSE LineOf(q)[j + 1]
      BY <1>2, RemoveAtIs
<1>4. LineOf(RemoveAt(q, i)) \in Seq(Cycles) /\ Len(LineOf(RemoveAt(q, i))) = Len(q) - 1
      BY <1>1, LineIs
<1>5. Len(q) \in Nat /\ DOMAIN q = 1 .. Len(q)
      BY LenProperties
<1>6. ASSUME NEW j \in 1 .. Len(q) - 1 PROVE LineOf(RemoveAt(q, i))[j] = RemoveAt(LineOf(q), i)[j]
  <2>1. j \in DOMAIN q /\ j + 1 \in DOMAIN q
        BY <1>5
  <2>2. LineOf(RemoveAt(q, i))[j] = RemoveAt(q, i)[j].cycle
        BY <1>1 DEF LineOf
  <2>3. LineOf(q)[j] = q[j].cycle /\ LineOf(q)[j + 1] = q[j + 1].cycle
        BY <2>1 DEF LineOf
  <2>. QED BY <1>1, <1>3, <2>2, <2>3
<1>. QED BY <1>3, <1>4, <1>6, SeqEqual

\* The cycles that are left when the head of a list is killed.
LEMMA LineOfTail ==
  ASSUME NEW q \in Seq(Response), q # <<>>
  PROVE  LineOf(Tail(q)) = Tail(LineOf(q)) /\ LineOf(q) # <<>> /\ Head(LineOf(q)) = Head(q).cycle
<1>1. /\ Tail(q) \in Seq(Response) /\ Len(Tail(q)) = Len(q) - 1 /\ DOMAIN Tail(q) = 1 .. Len(q) - 1
      /\ \A i \in 1 .. Len(q) - 1 : Tail(q)[i] = q[i + 1]
      /\ Head(q) = q[1] /\ 1 \in DOMAIN q /\ Len(q) \in Nat \ {0}
      BY HeadTailIs
<1>2. LineOf(q) \in Seq(Cycles) /\ Len(LineOf(q)) = Len(q) /\ LineOf(q) # <<>>
      BY LineIs
<1>3. /\ Tail(LineOf(q)) \in Seq(Cycles) /\ Len(Tail(LineOf(q))) = Len(q) - 1
      /\ Head(LineOf(q)) = LineOf(q)[1]
      /\ \A i \in 1 .. Len(q) - 1 : Tail(LineOf(q))[i] = LineOf(q)[i + 1]
      BY <1>2, HeadTailIs
<1>4. LineOf(Tail(q)) \in Seq(Cycles) /\ Len(LineOf(Tail(q))) = Len(q) - 1
      BY <1>1, LineIs
<1>5. DOMAIN q = 1 .. Len(q)
      BY LenProperties
<1>6. ASSUME NEW i \in 1 .. Len(q) - 1 PROVE LineOf(Tail(q))[i] = Tail(LineOf(q))[i]
  <2>1. i + 1 \in DOMAIN q
        BY <1>1, <1>5
  <2>. QED BY <1>1, <1>3, <2>1 DEF LineOf
<1>7. LineOf(Tail(q)) = Tail(LineOf(q))
      BY <1>3, <1>4, <1>6, SeqEqual
<1>. QED BY <1>1, <1>2, <1>3, <1>7 DEF LineOf

\* Two lists of responses, joined as those of the socket are.
LEMMA JoinIs ==
  ASSUME NEW f \in Seq(Response), NEW l \in Seq(Response)
  PROVE  /\ f \o Reverse(l) \in Seq(Response)
         /\ LineOf(f) \in Seq(Cycles) /\ Reverse(LineOf(l)) \in Seq(Cycles)
         /\ LineOf(f \o Reverse(l)) = LineOf(f) \o Reverse(LineOf(l))
<1>1. Reverse(l) \in Seq(Response) /\ LineOf(f) \in Seq(Cycles) /\ LineOf(l) \in Seq(Cycles)
      BY ReverseIs, LineIs
<1>2. Reverse(LineOf(l)) \in Seq(Cycles) /\ f \o Reverse(l) \in Seq(Response)
      BY <1>1, ReverseIs, ConcatProperties
<1>3. LineOf(f \o Reverse(l)) = LineOf(f) \o LineOf(Reverse(l))
      BY <1>1, LineOfConcat
<1>. QED BY <1>1, <1>2, <1>3, LineOfReverse

\* An empty list turned over is empty.
LEMMA ReverseEmpty == Reverse(<<>>) = <<>>
<1>1. <<>> \in Seq({}) /\ Len(<<>>) = 0
      BY EmptyIs
<1>2. Reverse(<<>>) \in Seq({}) /\ Len(Reverse(<<>>)) = 0
      BY <1>1, ReverseIs
<1>. QED BY <1>2, RangeIs

\* With the younger list empty, the queue is the older one.
LEMMA JoinNone ==
  ASSUME NEW f \in Seq(Response)
  PROVE  LineOf(f) \o Reverse(LineOf(<<>>)) = LineOf(f) /\ f \o Reverse(<<>>) = f
<1>1. <<>> \in Seq(Response) /\ LineOf(<<>>) = <<>>
  <2>1. <<>> \in Seq(Response)
        BY EmptySeq
  <2>. QED BY <2>1, LineIs
<1>2. LineOf(f) \in Seq(Cycles)
      BY LineIs
<1>. QED BY <1>1, <1>2, ReverseEmpty, ConcatEmptySeq

-----------------------------------------------------------------------------
(* Each operation keeps its variables' types.                              *)

\* What a word of an answer does: with the lists joined or not, it finds no
\* response, or has one waiting for less, or takes one out and calls it back.
Searched(q, l) ==
  /\ q \in Seq(Response) /\ l \in Seq(Response) /\ last' = l
  /\ \/ q = first /\ l = last
     \/ q = first \o Reverse(last) /\ l = <<>>
Lowered(r, s) ==
  /\ s \in Response /\ r \in Response
  /\ s.cycle = r.cycle /\ s.address = r.address /\ s.deadline = r.deadline
WordDoes ==
  \E q, l : Searched(q, l) /\
    \/ first' = q /\ UNCHANGED <<state, pc, ret, calls, status>>
    \/ \E i \in DOMAIN q, s \in Response :
         /\ first' = [q EXCEPT ![i] = s] /\ Lowered(q[i], s)
         /\ UNCHANGED <<state, pc, ret, calls, status>>
    \/ \E i \in DOMAIN q : \E with \in {"OK", "FAIL"} :
         /\ first' = RemoveAt(q, i) /\ Call(q[i].cycle, with, "words")
         /\ q[i].address = Head(inbox).address
         /\ with = "OK" => (IF Head(inbox).stat THEN q[i].stats ELSE q[i].reads) > 0

\* eb_socket_write_config does one of the three things that WordDoes lists.
LEMMA WordIs ==
  ASSUME first \in Seq(Response), last \in Seq(Response), Word
  PROVE  WordDoes
<1>. DEFINE joined == Hits(first) = {}
            q == IF joined THEN first \o Flip(last) ELSE first
            l == IF joined THEN <<>> ELSE last
            i == CHOOSE i \in Hits(q) : \A k \in Hits(q) : i <= k
            r == q[i]
            left == IF Head(inbox).stat THEN [r EXCEPT !.stats = @ - 1]
                                        ELSE [r EXCEPT !.reads = @ - 1]
            fail == left.reads < 0 \/ left.stats < 0
<1>1. q \in Seq(Response) /\ l \in Seq(Response) /\ first \o Flip(last) \in Seq(Response)
  <2>1. first \o Flip(last) \in Seq(Response)
        BY JoinIs DEF Flip
  <2>2. <<>> \in Seq(Response)
        BY EmptySeq
  <2>. QED BY <2>1, <2>2
<1>2. last' = l
      BY DEF Word
<1>3. \/ Hits(q) = {} /\ first' = q /\ UNCHANGED <<state, pc, ret, calls, status>>
      \/ /\ Hits(q) # {}
         /\ \/ /\ fail \/ left.reads + left.stats = 0
               /\ first' = RemoveAt(q, i)
               /\ Call(r.cycle, IF fail THEN "FAIL" ELSE "OK", "words")
            \/ /\ ~(fail \/ left.reads + left.stats = 0)
               /\ first' = [q EXCEPT ![i] = left]
               /\ UNCHANGED <<state, pc, ret, calls, status>>
      BY DEF Word
<1>4. Searched(q, l)
  <2>1. \/ q = first /\ l = last
        \/ q = first \o Reverse(last) /\ l = <<>>
        BY DEF Flip
  <2>. HIDE DEF q, l
  <2>. QED BY <1>1, <1>2, <2>1 DEF Searched
<1>5. CASE Hits(q) = {}
  <2>. HIDE DEF q, l, i, r, left, fail
  <2>. QED BY <1>3, <1>4, <1>5 DEF WordDoes
<1>6. CASE Hits(q) # {}
  <2>1. i \in Hits(q)
    <3>1. Hits(q) \in SUBSET Nat
      <4>1. DOMAIN q = 1 .. Len(q)
        <5>. HIDE DEF q
        <5>. QED BY <1>1, LenProperties
      <4>. HIDE DEF q
      <4>. QED BY <4>1 DEF Hits
    <3>. HIDE DEF q
    <3>2. \E k \in Hits(q) : \A j \in Hits(q) : k <= j
          BY <1>6, <3>1, LeastNat
    <3>. QED BY <3>2
  <2>. HIDE DEF q, l, i
  <2>2. i \in DOMAIN q /\ r.address = Head(inbox).address
        BY <2>1 DEF Hits
  <2>3. r \in Response
        BY <1>1, <2>2, LineIs
  <2>4. /\ left.cycle = r.cycle /\ left.address = r.address /\ left.deadline = r.deadline
        /\ left.reads \in Int /\ left.stats \in Int
        /\ (left.reads >= 0 /\ left.stats >= 0 => left \in Response)
    <3>1. /\ r = [address |-> r.address, deadline |-> r.deadline, cycle |-> r.cycle,
                  reads |-> r.reads, stats |-> r.stats]
          /\ r.reads \in Nat /\ r.stats \in Nat
          BY <2>3 DEF Response
    <3>. DEFINE with(a, b) == [address |-> r.address, deadline |-> r.deadline, cycle |-> r.cycle,
                              reads |-> a, stats |-> b]
    <3>2. \A a, b \in Int : a >= 0 /\ b >= 0 => with(a, b) \in Response
          BY <2>3 DEF Response
    <3>3. CASE Head(inbox).stat
      <4>1. left = with(r.reads, r.stats - 1)
            BY <3>1, <3>3
      <4>2. r.reads \in Int /\ r.stats - 1 \in Int
            BY <3>1
      <4>. QED BY <3>2, <4>1, <4>2
    <3>4. CASE ~Head(inbox).stat
      <4>1. left = with(r.reads - 1, r.stats)
            BY <3>1, <3>4
      <4>2. r.reads - 1 \in Int /\ r.stats \in Int
            BY <3>1
      <4>. QED BY <3>2, <4>1, <4>2
    <3>. QED BY <3>3, <3>4
  <2>5. ~fail => (IF Head(inbox).stat THEN r.stats ELSE r.reads) > 0
    <3>1. CASE Head(inbox).stat
      <4>1. left.stats = r.stats - 1
            BY <2>3, <3>1 DEF Response
      <4>. QED BY <2>3, <2>4, <3>1, <4>1 DEF Response
    <3>2. CASE ~Head(inbox).stat
      <4>1. left.reads = r.reads - 1
            BY <2>3, <3>2 DEF Response
      <4>. QED BY <2>3, <2>4, <3>2, <4>1 DEF Response
    <3>. QED BY <3>1, <3>2
  <2>6. ~fail => left \in Response
        BY <2>4
  <2>. HIDE DEF left
  <2>7. CASE fail \/ left.reads + left.stats = 0
    <3>1. first' = RemoveAt(q, i) /\ Call(r.cycle, IF fail THEN "FAIL" ELSE "OK", "words")
      <4>. HIDE DEF fail
      <4>. QED BY <1>3, <1>6, <2>7
    <3>. HIDE DEF fail
    <3>2. \E with \in {"OK", "FAIL"} : Call(r.cycle, with, "words") /\ (with = "OK" => ~fail)
      <4>1. CASE fail
            BY <3>1, <4>1
      <4>2. CASE ~fail
            BY <3>1, <4>2
      <4>. QED BY <4>1, <4>2
    <3>. QED BY <1>4, <2>2, <2>5, <3>1, <3>2 DEF WordDoes
  <2>8. CASE ~(fail \/ left.reads + left.stats = 0)
    <3>1. first' = [q EXCEPT ![i] = left] /\ UNCHANGED <<state, pc, ret, calls, status>>
      <4>. HIDE DEF fail
      <4>. QED BY <1>3, <1>6, <2>8
    <3>2. left \in Response
      <4>. HIDE DEF fail
      <4>. QED BY <2>6, <2>8
    <3>3. Lowered(q[i], left)
          BY <2>3, <2>4, <3>2 DEF Lowered
    <3>. HIDE DEF fail, r
    <3>. QED BY <1>4, <2>2, <3>1, <3>2, <3>3 DEF WordDoes
  <2>. QED BY <2>7, <2>8
<1>. QED BY <1>5, <1>6

\* The types, with unready only an integer.
AppType ==
  /\ state \in [Cycles -> {"new", "open", "closed", "aborted", "gone"}]
  /\ passive \in [Devices -> BOOLEAN] /\ link \in [Devices -> BOOLEAN]
  /\ unready \in [Devices -> Int] /\ ready \in [Devices -> Seq(Cycles)]
  /\ calls \in [Cycles -> Nat] /\ status \in [Cycles -> Status]
SocketType ==
  /\ first \in Seq(Response) /\ last \in Seq(Response)
  /\ rba \in 0 .. RbaMod - 1 /\ timeCache \in Nat /\ clock \in Nat /\ now \in Nat
  /\ claims \in Seq([cycle : Cycles, at : Nat])
LocalType ==
  /\ pc \in {"app", "callback", "kill", "poll", "words", "flush", "close"}
  /\ ret \in {"app", "kill", "words", "flush", "close"}
  /\ inbox \in Seq([address : 0 .. RbaMod - 1, stat : BOOLEAN])
  /\ todo \in Seq(Cycles) /\ dev \in Devices /\ devs \in Seq(Devices)
  /\ packet \in Seq(Entry) /\ (\A p \in sent : p \in Seq(Entry))
  /\ answered \subseteq sent
Shapes == AppType /\ SocketType /\ LocalType

\* What the assumptions say of the devices and the cycles.
LEMMA ConstantsAre ==
  /\ DeviceList \in Seq(Devices) /\ Head(DeviceList) \in Devices
  /\ \A c \in Cycles : DeviceOf[c] \in Devices /\ Shape[c].reads \in Nat /\ Shape[c].stats \in Nat
                       /\ Words(c) \in Nat
  /\ RbaMod \in Nat \ {0} /\ TimeMod \in Nat \ {0} /\ Patience \in Nat /\ Epoch \in Nat
<1>1. /\ DeviceList \in Seq(Devices) /\ DeviceList # <<>> /\ DeviceOf \in [Cycles -> Devices]
      /\ Shape \in [Cycles -> [reads : Nat, stats : Nat]]
      /\ RbaMod \in Nat \ {0} /\ TimeMod \in Nat \ {0} /\ Patience \in Nat /\ Epoch \in Nat
      BY EbAssumption DEF EbAssumption
<1>. QED BY <1>1, HeadTailIs DEF Words

\* A socket that was just opened has the right types.
LEMMA ShapesInit == Init => Shapes
<1> SUFFICES ASSUME Init PROVE Shapes
    OBVIOUS
<1>1. AppType
      BY DEF Init, AppType, Status
<1>2. SocketType
      BY ConstantsAre DEF Init, SocketType
<1>3. LocalType
      BY ConstantsAre DEF Init, LocalType
<1>. QED BY <1>1, <1>2, <1>3 DEF Shapes

\* One more at the head of a list (eb_cycle_close, eb_device_flush).
LEMMA ConsIs ==
  ASSUME NEW S, NEW s \in Seq(S), NEW x \in S
  PROVE  <<x>> \o s \in Seq(S)
BY OneIs, ConcatProperties

\* Each step keeps the types of the cycles and the devices.
LEMMA AppTypeNext == Shapes /\ [Next]_vars => AppType'
<1> SUFFICES ASSUME Shapes, [Next]_vars PROVE AppType'
    OBVIOUS
<1>1. /\ AppType /\ todo \in Seq(Cycles) /\ dev \in Devices
      /\ first \in Seq(Response) /\ last \in Seq(Response) /\ devs \in Seq(Devices)
      BY DEF Shapes, SocketType, LocalType
<1>2. ASSUME NEW c \in Cycles, NEW with \in Status, NEW where, Call(c, with, where),
             UNCHANGED <<passive, link, unready, ready>>
      PROVE  AppType'
      BY <1>1, <1>2 DEF Call, AppType
<1>3. UNCHANGED <<state, passive, link, unready, ready, calls, status>> => AppType'
      BY <1>1 DEF AppType
<1>4. todo # <<>> => Head(todo) \in Cycles
      BY <1>1, HeadTailIs
<1>5. \A d \in Devices : ready[d] \in Seq(Cycles)
      BY <1>1 DEF AppType
<1>6. ASSUME NEW c \in Cycles, Open(c) \/ Close(c) \/ Abort(c) PROVE AppType'
  <2>1. DeviceOf[c] \in Devices
        BY ConstantsAre
  <2>2. <<c>> \o ready[DeviceOf[c]] \in Seq(Cycles)
        BY <1>5, <2>1, ConsIs
  <2>3. CASE Open(c)
        BY <1>1, <2>1, <2>3 DEF Open, AppType, hist
  <2>4. CASE Close(c)
        BY <1>1, <2>1, <2>2, <2>4 DEF Close, AppType, hist
  <2>5. CASE Abort(c)
        BY <1>1, <2>1, <2>5 DEF Abort, AppType, hist
  <2>. QED BY <1>6, <2>3, <2>4, <2>5
<1>7. ASSUME NEW d \in Devices, CloseDevice(d) PROVE AppType'
      BY <1>1, <1>7 DEF CloseDevice, AppType, hist
<1>8. ASSUME KillExpired PROVE AppType'
  <2>1. Head(first).cycle \in Cycles
    <3>1. Head(first) \in Response
          BY <1>1, <1>8, HeadTailIs DEF KillExpired
    <3>. QED BY <3>1 DEF Response
  <2>. QED BY <1>2, <1>8, <2>1 DEF KillExpired, Status, device
<1>9. ASSUME Word PROVE AppType'
  <2>1. UNCHANGED <<passive, link, unready, ready>>
        BY <1>9 DEF Word, device
  <2>2. PICK q, l : Searched(q, l) /\
          \/ UNCHANGED <<state, calls, status>>
          \/ \E i \in DOMAIN q : \E with \in {"OK", "FAIL"} : Call(q[i].cycle, with, "words")
        BY <1>1, <1>9, WordIs DEF WordDoes
  <2>3. \A i \in DOMAIN q : q[i].cycle \in Cycles
    <3>1. \A i \in DOMAIN q : q[i] \in Response
          BY <2>2, LineIs DEF Searched
    <3>. QED BY <3>1 DEF Response
  <2>. QED BY <1>2, <1>3, <2>1, <2>2, <2>3 DEF Status
<1>10. ASSUME NEW fault \in {"OOM", "OVERFLOW", "WIDTH", "EMPTY"}, FlushRefuse(fault) PROVE AppType'
  <2>1. (IF fault = "EMPTY" THEN "OK" ELSE fault) \in Status
        BY DEF Status
  <2>. QED BY <1>2, <1>4, <1>10, <2>1 DEF FlushRefuse, device
<1>11. ASSUME FlushWrite PROVE AppType'
      BY <1>2, <1>4, <1>11 DEF FlushWrite, device, Status
<1>12. ASSUME CloseCycle PROVE AppType'
      BY <1>2, <1>4, <1>12 DEF CloseCycle, device, Status
<1>13. ASSUME Flush PROVE AppType'
  <2>1. dev' \in Devices
        BY <1>1, <1>13, HeadTailIs DEF Flush
  <2>. QED BY <1>1, <1>13, <2>1 DEF Flush, AppType, hist
<1>14. ASSUME FlushDone PROVE AppType'
      BY <1>1, <1>14 DEF FlushDone, AppType, hist
<1>15. ASSUME CloseDone PROVE AppType'
      BY <1>1, <1>15 DEF CloseDone, AppType, hist
<1>16. ASSUME LinkDown PROVE AppType'
      BY <1>1, <1>16 DEF LinkDown, AppType, hist
<1>17. CASE Return \/ KillDone \/ WordsDone \/ CheckDone \/ FlushNot \/ Send \/ Check \/ Tick
      BY <1>3, <1>17 DEF Return, KillDone, WordsDone, CheckDone, FlushNot, Send, Check, Tick, device, hist
<1>18. CASE FlushRead
      BY <1>3, <1>18 DEF FlushRead, device
<1>19. ASSUME NEW p, Receive(p) PROVE AppType'
      BY <1>3, <1>19 DEF Receive, device, hist
<1>20. ASSUME NEW r, NEW s, ReceiveBad(r, s) PROVE AppType'
      BY <1>3, <1>20 DEF ReceiveBad, device, hist
<1>21. CASE UNCHANGED vars
      BY <1>3, <1>21 DEF vars, device, hist
<1>. QED BY <1>6, <1>7, <1>8, <1>9, <1>10, <1>11, <1>12, <1>13, <1>14, <1>15, <1>16, <1>17, <1>18,
            <1>19, <1>20, <1>21 DEF Next, Lib, App, Net

\* Each step keeps the types of the socket: responses and addresses.
LEMMA SocketTypeNext == Shapes /\ [Next]_vars => SocketType'
<1> SUFFICES ASSUME Shapes, [Next]_vars PROVE SocketType'
    OBVIOUS
<1>1. SocketType /\ ready \in [Devices -> Seq(Cycles)] /\ todo \in Seq(Cycles)
      BY DEF Shapes, AppType, LocalType
<1>2. UNCHANGED <<socket, clock, now, claims>> => SocketType'
      BY <1>1 DEF SocketType, socket
<1>3. ASSUME first' \in Seq(Response), last' \in Seq(Response),
             UNCHANGED <<rba, timeCache, clock, now, claims>>
      PROVE  SocketType'
      BY <1>1, <1>3 DEF SocketType
<1>4. first \in Seq(Response) /\ last \in Seq(Response) /\ <<>> \in Seq(Response)
      BY <1>1, EmptySeq DEF SocketType
<1>5. CASE App \/ Return \/ WordsDone \/ FlushNot \/ Flush \/ Send \/ FlushWrite \/ FlushDone
           \/ CloseCycle \/ CloseDone \/ LinkDown \/ UNCHANGED vars
      BY <1>2, <1>5 DEF App, Open, Close, Abort, Return, WordsDone, FlushNot, Flush, Send,
           FlushWrite, FlushDone, CloseCycle, CloseDone, LinkDown, vars, locals, env, hist
<1>6. CASE Check \/ Tick
      BY <1>1, <1>6 DEF Check, Tick, SocketType, socket, env, hist, locals
<1>7. CASE KillExpired
      BY <1>3, <1>4, <1>7, HeadTailIs DEF KillExpired, locals, env
<1>8. CASE KillDone
      BY <1>1, <1>8 DEF KillDone, SocketType, env, hist
<1>9. ASSUME NEW d \in Devices, CloseDevice(d) PROVE SocketType'
  <2>1. Kept(d) \in Seq(Response)
    <3>1. Others(d, first) \in Seq(Response) /\ Others(d, last) \in Seq(Response)
          BY <1>4, SelectIs DEF Others
    <3>. QED BY <3>1, JoinIs DEF Kept
  <2>. QED BY <1>3, <1>4, <1>9, <2>1 DEF CloseDevice, env, hist
<1>10. CASE Word
  <2>1. PICK q, l : Searched(q, l) /\
          \/ first' = q
          \/ \E i \in DOMAIN q, s \in Response : first' = [q EXCEPT ![i] = s]
          \/ \E i \in DOMAIN q : first' = RemoveAt(q, i)
        BY <1>4, <1>10, WordIs DEF WordDoes
  <2>2. q \in Seq(Response) /\ last' \in Seq(Response)
        BY <2>1 DEF Searched
  <2>3. first' \in Seq(Response)
    <3>1. \A i \in DOMAIN q : RemoveAt(q, i) \in Seq(Response)
          BY <2>2, RemoveAtIs
    <3>2. \A i \in DOMAIN q, s \in Response : [q EXCEPT ![i] = s] \in Seq(Response)
          BY <2>2
    <3>. QED BY <2>1, <2>2, <3>1, <3>2
  <2>. QED BY <1>3, <1>10, <2>2, <2>3 DEF Word, env
<1>11. CASE CheckDone
      BY <1>3, <1>4, <1>11, ReverseIs DEF CheckDone, Flip, locals, env, hist
<1>12. CASE FlushRead
  <2>. DEFINE c == Head(todo)
              r == [address |-> rba, deadline |-> (timeCache + Patience) % TimeMod, cycle |-> c,
                    reads |-> Shape[c].reads, stats |-> Shape[c].stats]
  <2>1. c \in Cycles
        BY <1>1, <1>12, HeadTailIs DEF FlushRead
  <2>2. Shape[c].reads \in Nat /\ Shape[c].stats \in Nat
        BY <2>1, ConstantsAre
  <2>3. (timeCache + Patience) % TimeMod \in 0 .. TimeMod - 1 /\ NextRba \in 0 .. RbaMod - 1
        BY <1>1, ConstantsAre DEF SocketType, NextRba
  <2>4. r \in Response
        BY <1>1, <2>1, <2>2, <2>3 DEF Response, SocketType
  <2>5. <<r>> \o last \in Seq(Response)
    <3>. HIDE DEF r
    <3>. QED BY <1>4, <2>4, ConsIs
  <2>6. last' = <<r>> \o last /\ claims' = Append(claims, [cycle |-> c, at |-> timeCache])
        /\ rba' = NextRba /\ UNCHANGED <<first, timeCache, clock, now>>
        BY <1>12 DEF FlushRead, env
  <2>7. Append(claims, [cycle |-> c, at |-> timeCache]) \in Seq([cycle : Cycles, at : Nat])
    <3>1. [cycle |-> c, at |-> timeCache] \in [cycle : Cycles, at : Nat]
          BY <1>1, <2>1 DEF SocketType
    <3>. HIDE DEF c
    <3>. QED BY <1>1, <3>1 DEF SocketType
  <2>. HIDE DEF r, c
  <2>. QED BY <1>1, <1>4, <2>3, <2>5, <2>6, <2>7 DEF SocketType
<1>13. ASSUME NEW fault, FlushRefuse(fault) PROVE SocketType'
      BY <1>2, <1>13 DEF FlushRefuse, env
<1>14. ASSUME NEW p, Receive(p) PROVE SocketType'
      BY <1>2, <1>14 DEF Receive, hist
<1>15. ASSUME NEW r, NEW s, ReceiveBad(r, s) PROVE SocketType'
      BY <1>2, <1>15 DEF ReceiveBad, env, hist
<1>. QED BY <1>5, <1>6, <1>7, <1>8, <1>9, <1>10, <1>11, <1>12, <1>13, <1>14, <1>15 DEF Next, Lib, Net

\* What an answer says is about the cycles of the packet it answers.
LEMMA InboxIs ==
  ASSUME NEW p \in Seq(Entry)
  PROVE  LET words == FlattenSeq([i \in DOMAIN p |->
               [w \in 1 .. Words(p[i].cycle) |->
                  [address |-> p[i].address, stat |-> w > Shape[p[i].cycle].reads]]])
         IN /\ words \in Seq([address : 0 .. RbaMod - 1, stat : BOOLEAN])
            /\ \A x \in Range(words) : \E i \in DOMAIN p :
                 Words(p[i].cycle) > 0 /\ x.address = p[i].address
<1>. DEFINE Message == [address : 0 .. RbaMod - 1, stat : BOOLEAN]
            part(i) == [w \in 1 .. Words(p[i].cycle) |->
                          [address |-> p[i].address, stat |-> w > Shape[p[i].cycle].reads]]
            ss == [i \in DOMAIN p |-> part(i)]
<1>1. Len(p) \in Nat /\ DOMAIN p = 1 .. Len(p) /\ \A i \in 1 .. Len(p) : p[i] \in Entry
      BY LenProperties
<1>2. ASSUME NEW i \in 1 .. Len(p)
      PROVE  /\ part(i) \in Seq(Message)
             /\ \A x \in Range(part(i)) : Words(p[i].cycle) > 0 /\ x.address = p[i].address
  <2>1. p[i].cycle \in Cycles /\ p[i].address \in 0 .. RbaMod - 1
        BY <1>1 DEF Entry
  <2>2. Words(p[i].cycle) \in Nat
        BY <2>1, ConstantsAre
  <2>3. \A w \in 1 .. Words(p[i].cycle) :
          [address |-> p[i].address, stat |-> w > Shape[p[i].cycle].reads] \in Message
        BY <2>1
  <2>4. part(i) \in Seq(Message)
    <3>. HIDE DEF Message
    <3>. QED BY <2>2, <2>3
  <2>5. \A x \in Range(part(i)) : Words(p[i].cycle) > 0 /\ x.address = p[i].address
        BY <2>2 DEF Range
  <2>. QED BY <2>4, <2>5
<1>3. ss \in Seq(Seq(Message)) /\ Len(ss) = Len(p) /\ \A i \in 1 .. Len(p) : ss[i] = part(i)
  <2>1. \A i \in 1 .. Len(p) : part(i) \in Seq(Message)
        BY <1>2
  <2>. HIDE DEF Message, part
  <2>. QED BY <1>1, <2>1
<1>. HIDE DEF Message, part
<1>4. /\ FlattenSeq(ss) \in Seq(Message)
      /\ \A x \in Range(FlattenSeq(ss)) : \E i \in 1 .. Len(ss) : x \in Range(ss[i])
  <2>. HIDE DEF ss
  <2>. QED BY <1>3, FlattenIs
<1>5. \A x \in Range(FlattenSeq(ss)) : \E i \in DOMAIN p :
        Words(p[i].cycle) > 0 /\ x.address = p[i].address
  <2>. HIDE DEF ss
  <2>. QED BY <1>1, <1>2, <1>3, <1>4
<1>. QED BY <1>4, <1>5 DEF Message, part

\* Each step keeps the types of the locals, of what was received and sent.
LEMMA LocalTypeNext == Shapes /\ [Next]_vars => LocalType'
<1> SUFFICES ASSUME Shapes, [Next]_vars PROVE LocalType'
    OBVIOUS
<1>1. LocalType /\ SocketType /\ \A d \in Devices : ready[d] \in Seq(Cycles)
      BY DEF Shapes, AppType
<1>2. UNCHANGED <<pc, ret, inbox, todo, dev, devs, packet, sent, answered>> => LocalType'
      BY <1>1 DEF LocalType
<1>3. ASSUME UNCHANGED <<inbox, todo, dev, devs, packet, sent, answered>>,
             pc' \in {"app", "callback", "kill", "poll", "words", "flush", "close"},
             ret' \in {"app", "kill", "words", "flush", "close"}
      PROVE  LocalType'
      BY <1>1, <1>3 DEF LocalType
<1>4. ASSUME todo # <<>>, todo' = Tail(todo), packet' \in Seq(Entry),
             UNCHANGED <<inbox, dev, devs, sent, answered>>,
             pc' \in {"app", "callback", "kill", "poll", "words", "flush", "close"},
             ret' \in {"app", "kill", "words", "flush", "close"}
      PROVE  LocalType'
  <2>1. Tail(todo) \in Seq(Cycles)
        BY <1>1, <1>4, HeadTailIs DEF LocalType
  <2>. QED BY <1>1, <1>4, <2>1 DEF LocalType
<1>5. CASE App \/ FlushDone \/ LinkDown \/ Tick \/ UNCHANGED vars
      BY <1>1, <1>3, <1>5 DEF App, Open, Close, Abort, FlushDone, LinkDown, Tick, vars, locals, env, LocalType
<1>6. CASE Return \/ Check \/ WordsDone \/ CheckDone \/ CloseDone \/ KillExpired
      BY <1>1, <1>3, <1>6 DEF Return, Check, WordsDone, CheckDone, CloseDone, KillExpired, Call,
           locals, env, LocalType
<1>7. CASE KillDone
  <2>1. Select(DeviceList, {i \in DOMAIN DeviceList : ~passive[DeviceList[i]]}) \in Seq(Devices)
        BY ConstantsAre, SelectIs
  <2>. QED BY <1>1, <1>7, <2>1 DEF KillDone, LocalType, env
<1>8. CASE Word
  <2>1. \/ UNCHANGED <<state, pc, ret, calls, status>>
        \/ pc' = "callback" /\ ret' = "words"
        BY <1>1, <1>8, WordIs DEF WordDoes, Call, SocketType
  <2>2. Tail(inbox) \in Seq([address : 0 .. RbaMod - 1, stat : BOOLEAN])
        BY <1>1, <1>8, HeadTailIs DEF Word, LocalType
  <2>. QED BY <1>1, <1>8, <2>1, <2>2 DEF Word, LocalType, env
<1>9. CASE FlushNot \/ Flush
  <2>1. Head(devs) \in Devices /\ Tail(devs) \in Seq(Devices)
        BY <1>1, <1>9, HeadTailIs DEF FlushNot, Flush, LocalType
  <2>2. Reverse(ready[Head(devs)]) \in Seq(Cycles)
        BY <1>1, <2>1, ReverseIs
  <2>3. CASE FlushNot
        BY <1>1, <2>1, <2>3 DEF FlushNot, LocalType, env
  <2>4. CASE Flush
    <3>1. dev' = Head(devs) /\ todo' = Reverse(ready[dev'])
          BY <2>4 DEF Flush
    <3>. QED BY <1>1, <2>1, <2>2, <2>4, <3>1 DEF Flush, LocalType, env
  <2>. QED BY <1>9, <2>3, <2>4
<1>10. CASE Send
  <2>1. <<>> \in Seq(Entry) /\ packet \in Seq(Entry)
        BY <1>1, EmptySeq DEF LocalType
  <2>. QED BY <1>1, <1>10, <2>1 DEF Send, LocalType
<1>11. ASSUME NEW fault, FlushRefuse(fault) PROVE LocalType'
      BY <1>1, <1>4, <1>11 DEF FlushRefuse, Call, env, LocalType
<1>12. CASE FlushWrite \/ FlushRead
  <2>. DEFINE c == Head(todo)
  <2>1. c \in Cycles
        BY <1>1, <1>12, HeadTailIs DEF FlushWrite, FlushRead, LocalType
  <2>2. Len(claims) \in Nat /\ rba \in 0 .. RbaMod - 1
        BY <1>1, LenProperties DEF SocketType
  <2>3. [address |-> rba, cycle |-> c, k |-> Len(claims)] \in Entry
        BY <2>1, <2>2 DEF Entry
  <2>4. packet' = Append(packet, [address |-> rba, cycle |-> c, k |-> Len(claims)])
        BY <1>12 DEF FlushWrite, FlushRead
  <2>5. packet' \in Seq(Entry)
    <3>. HIDE DEF c
    <3>. QED BY <1>1, <2>3, <2>4 DEF LocalType
  <2>6. /\ todo # <<>> /\ todo' = Tail(todo) /\ UNCHANGED <<inbox, dev, devs, sent, answered>>
        /\ \/ pc' = pc /\ ret' = ret
           \/ pc' = "callback" /\ ret' = "flush"
        BY <1>12 DEF FlushWrite, FlushRead, Call, env
  <2>. QED BY <1>1, <1>4, <2>5, <2>6 DEF LocalType
<1>13. ASSUME NEW d \in Devices, CloseDevice(d) PROVE LocalType'
  <2>1. Killed(d) \in Seq(Response)
    <3>1. Theirs(d, first) \in Seq(Response) /\ Theirs(d, last) \in Seq(Response)
          BY <1>1, SelectIs DEF Theirs, SocketType
    <3>. QED BY <3>1, JoinIs DEF Killed
  <2>2. LineOf(Killed(d)) \in Seq(Cycles) /\ Reverse(ready[d]) \in Seq(Cycles)
        BY <1>1, <2>1, LineIs, ReverseIs
  <2>3. LineOf(Killed(d)) \o Reverse(ready[d]) \in Seq(Cycles)
        BY <2>2, ConcatProperties
  <2>4. todo' = LineOf(Killed(d)) \o Reverse(ready[d])
        BY <1>13 DEF CloseDevice, LineOf
  <2>. QED BY <1>1, <1>13, <2>3, <2>4 DEF CloseDevice, LocalType, env
<1>14. CASE CloseCycle
      BY <1>1, <1>4, <1>14 DEF CloseCycle, Call, env, LocalType
<1>15. ASSUME NEW p \in sent, Receive(p) PROVE LocalType'
  <2>1. p \in Seq(Entry)
        BY <1>1 DEF LocalType
  <2>2. inbox' \in Seq([address : 0 .. RbaMod - 1, stat : BOOLEAN])
        BY <1>15, <2>1, InboxIs DEF Receive
  <2>. QED BY <1>1, <1>15, <2>2 DEF Receive, LocalType
<1>16. ASSUME NEW r \in Range(Queue), NEW s \in BOOLEAN, ReceiveBad(r, s) PROVE LocalType'
  <2>1. Queue \in Seq(Response)
        BY <1>1, JoinIs DEF SocketType, Queue
  <2>2. r \in Response
        BY <2>1, RangeIs
  <2>3. [address |-> r.address, stat |-> s] \in [address : 0 .. RbaMod - 1, stat : BOOLEAN]
        BY <2>2 DEF Response
  <2>4. <<[address |-> r.address, stat |-> s]>> \in Seq([address : 0 .. RbaMod - 1, stat : BOOLEAN])
        BY <2>3, OneIs
  <2>. QED BY <1>1, <1>16, <2>4 DEF ReceiveBad, LocalType, env
<1>. QED BY <1>5, <1>6, <1>7, <1>8, <1>9, <1>10, <1>11, <1>12, <1>13, <1>14, <1>15, <1>16
         DEF Next, Lib, Net

\* Each step keeps all types.
LEMMA ShapesNext == Shapes /\ [Next]_vars => Shapes'
BY AppTypeNext, SocketTypeNext, LocalTypeNext DEF Shapes

-----------------------------------------------------------------------------
(* What the operations do to the queue of the cycles that wait.            *)

\* What holds of the queue of a socket with its two lists.
LEMMA QueueIs ==
  ASSUME SocketType
  PROVE  /\ Queue \in Seq(Response) /\ Line \in Seq(Cycles)
         /\ LineOf(first) \in Seq(Cycles) /\ Reverse(LineOf(last)) \in Seq(Cycles)
         /\ Line = LineOf(first) \o Reverse(LineOf(last))
         /\ Outstanding = Range(Line)
<1>1. first \in Seq(Response) /\ last \in Seq(Response)
      BY DEF SocketType
<1>2. /\ Queue \in Seq(Response) /\ LineOf(first) \in Seq(Cycles) /\ Reverse(LineOf(last)) \in Seq(Cycles)
      /\ Line = LineOf(first) \o Reverse(LineOf(last))
      BY <1>1, JoinIs DEF Queue, Line
<1>3. Line \in Seq(Cycles) /\ DOMAIN Line = DOMAIN Queue /\ \A i \in DOMAIN Queue : Line[i] = Queue[i].cycle
      BY <1>2, LineIs DEF Line
<1>4. Outstanding = Range(Line)
      BY <1>3 DEF Outstanding, Range
<1>. QED BY <1>2, <1>3, <1>4

\* step 1 of eb_socket_check takes the head of the queue.
LEMMA KillsHead ==
  ASSUME SocketType, KillExpired
  PROVE  Line # <<>> /\ Line' = Tail(Line) /\ Head(first).cycle = Head(Line)
<1>1. /\ first \in Seq(Response) /\ last \in Seq(Response) /\ first # <<>>
      /\ first' = Tail(first) /\ last' = last
      BY DEF SocketType, KillExpired
<1>2. LineOf(Tail(first)) = Tail(LineOf(first)) /\ LineOf(first) # <<>> /\ Head(LineOf(first)) = Head(first).cycle
      BY <1>1, LineOfTail
<1>3. Tail(first) \in Seq(Response)
      BY <1>1, HeadTailIs
<1>4. Line' = LineOf(Tail(first)) \o Reverse(LineOf(last))
      BY <1>1, <1>3, JoinIs DEF Line, Queue
<1>5. /\ Line # <<>> /\ Head(Line) = Head(LineOf(first))
      /\ Tail(Line) = Tail(LineOf(first)) \o Reverse(LineOf(last))
      BY <1>2, QueueIs, TailConcat
<1>. QED BY <1>2, <1>4, <1>5

\* A word of an answer leaves the queue as it is, or takes the cycle that it
\* calls back out of it.
LEMMA WordTakes ==
  ASSUME SocketType, Word
  PROVE  \/ Line' = Line /\ UNCHANGED <<state, pc, ret, calls, status>>
         \/ \E i \in DOMAIN Line : \E with \in {"OK", "FAIL"} :
              /\ Line' = RemoveAt(Line, i) /\ Call(Line[i], with, "words")
<1>1. first \in Seq(Response) /\ last \in Seq(Response)
      BY DEF SocketType
<1>2. PICK q, l : Searched(q, l) /\
        \/ first' = q /\ UNCHANGED <<state, pc, ret, calls, status>>
        \/ \E i \in DOMAIN q, s \in Response :
             /\ first' = [q EXCEPT ![i] = s] /\ Lowered(q[i], s)
             /\ UNCHANGED <<state, pc, ret, calls, status>>
        \/ \E i \in DOMAIN q : \E with \in {"OK", "FAIL"} :
             /\ first' = RemoveAt(q, i) /\ Call(q[i].cycle, with, "words")
      BY <1>1, WordIs DEF WordDoes
<1>3. /\ q \in Seq(Response) /\ l \in Seq(Response) /\ last' = l
      /\ LineOf(q) \in Seq(Cycles) /\ Reverse(LineOf(l)) \in Seq(Cycles)
      BY <1>2, JoinIs DEF Searched
<1>4. Line = LineOf(q) \o Reverse(LineOf(l))
  <2>1. CASE q = first /\ l = last
        BY <2>1, QueueIs
  <2>2. CASE q = first \o Reverse(last) /\ l = <<>>
        BY <1>3, <2>2, JoinNone DEF Line, Queue
  <2>. QED BY <1>2, <2>1, <2>2 DEF Searched
<1>5. ASSUME NEW f \in Seq(Response), first' = f PROVE Line' = LineOf(f) \o Reverse(LineOf(l))
      BY <1>3, <1>5, JoinIs DEF Line, Queue
<1>6. CASE first' = q /\ UNCHANGED <<state, pc, ret, calls, status>>
      BY <1>3, <1>4, <1>5, <1>6
<1>7. ASSUME NEW i \in DOMAIN q, NEW s \in Response, first' = [q EXCEPT ![i] = s], Lowered(q[i], s),
             UNCHANGED <<state, pc, ret, calls, status>>
      PROVE  Line' = Line
  <2>1. [q EXCEPT ![i] = s] \in Seq(Response)
        BY <1>3
  <2>2. LineOf([q EXCEPT ![i] = s]) = LineOf(q)
        BY <1>3, <1>7 DEF LineOf, Lowered
  <2>. QED BY <1>4, <1>5, <1>7, <2>1, <2>2
<1>8. ASSUME NEW i \in DOMAIN q, first' = RemoveAt(q, i)
      PROVE  i \in DOMAIN Line /\ Line[i] = q[i].cycle /\ Line' = RemoveAt(Line, i)
  <2>1. RemoveAt(q, i) \in Seq(Response) /\ LineOf(RemoveAt(q, i)) = RemoveAt(LineOf(q), i)
        BY <1>3, RemoveAtIs, LineOfRemoveAt
  <2>2. i \in DOMAIN LineOf(q) /\ LineOf(q)[i] = q[i].cycle
        BY <1>3, LineIs
  <2>3. /\ i \in DOMAIN Line /\ Line[i] = LineOf(q)[i]
        /\ RemoveAt(Line, i) = RemoveAt(LineOf(q), i) \o Reverse(LineOf(l))
        BY <1>3, <1>4, <2>2, RemoveConcat
  <2>. QED BY <1>5, <1>8, <2>1, <2>2, <2>3
<1>. QED BY <1>2, <1>6, <1>7, <1>8

\* eb_response_flip in eb_socket_timeout does not change the queue.
LEMMA FlipKeepsQueue ==
  ASSUME SocketType, CheckDone
  PROVE  Queue' = Queue
<1>1. first \in Seq(Response) /\ last \in Seq(Response)
      BY DEF SocketType
<1>2. CASE first = <<>>
  <2>1. Reverse(last) \in Seq(Response)
        BY <1>1, ReverseIs
  <2>2. Queue = Reverse(last)
        BY <1>2, <2>1, ConcatEmptySeq DEF Queue
  <2>3. Queue' = Reverse(last)
        BY <1>2, <2>1, JoinNone DEF Queue, CheckDone, Flip
  <2>. QED BY <2>2, <2>3
<1>3. CASE first # <<>>
      BY <1>3 DEF CheckDone, Queue
<1>. QED BY <1>2, <1>3

\* eb_device_flush queues a response behind all others.
LEMMA ReadJoins ==
  ASSUME SocketType, Head(todo) \in Cycles, FlushRead
  PROVE  \E r \in Response :
           /\ r = [address |-> rba, deadline |-> (timeCache + Patience) % TimeMod, cycle |-> Head(todo),
                   reads |-> Shape[Head(todo)].reads, stats |-> Shape[Head(todo)].stats]
           /\ Queue' = Append(Queue, r) /\ Line' = Append(Line, Head(todo))
<1>. DEFINE c == Head(todo)
            r == [address |-> rba, deadline |-> (timeCache + Patience) % TimeMod, cycle |-> c,
                  reads |-> Shape[c].reads, stats |-> Shape[c].stats]
<1>1. first \in Seq(Response) /\ last \in Seq(Response)
      BY DEF SocketType
<1>2. r \in Response
  <2>1. Shape[c].reads \in Nat /\ Shape[c].stats \in Nat
        BY ConstantsAre
  <2>2. (timeCache + Patience) % TimeMod \in 0 .. TimeMod - 1
        BY ConstantsAre DEF SocketType
  <2>. QED BY <2>1, <2>2 DEF Response, SocketType
<1>3. last' = <<r>> \o last /\ first' = first
      BY DEF FlushRead
<1>4. r.cycle = c
      OBVIOUS
<1>. HIDE DEF r
<1>5. Reverse(last) \in Seq(Response)
      BY <1>1, ReverseIs
<1>6. Queue' = Append(Queue, r)
  <2>1. Reverse(<<r>> \o last) = Append(Reverse(last), r)
        BY <1>1, <1>2, ReverseCons
  <2>2. first \o Append(Reverse(last), r) = Append(first \o Reverse(last), r)
        BY <1>1, <1>2, <1>5, ConcatAppend
  <2>. QED BY <1>3, <2>1, <2>2 DEF Queue
<1>7. Line' = Append(Line, c)
  <2>1. Queue \in Seq(Response) /\ Line \in Seq(Cycles)
        BY QueueIs
  <2>2. <<r>> \in Seq(Response) /\ LineOf(<<r>>) = <<c>>
    <3>1. <<r>> \in Seq(Response) /\ Len(<<r>>) = 1 /\ <<r>>[1] = r /\ DOMAIN <<r>> = {1}
          BY <1>2
    <3>2. LineOf(<<r>>) \in Seq(Cycles) /\ Len(LineOf(<<r>>)) = 1 /\ LineOf(<<r>>)[1] = c
          BY <1>4, <3>1, LineIs DEF LineOf
    <3>3. <<c>> \in Seq(Cycles) /\ Len(<<c>>) = 1 /\ <<c>>[1] = c
          BY OneIs
    <3>4. \A i \in 1 .. Len(LineOf(<<r>>)) : LineOf(<<r>>)[i] = <<c>>[i]
          BY <3>2, <3>3
    <3>. QED BY <3>1, <3>2, <3>3, <3>4, SeqEqual
  <2>3. Queue' = Queue \o <<r>> /\ Append(Line, c) = Line \o <<c>>
        BY <1>2, <1>6, <2>1, AppendIsConcat
  <2>4. LineOf(Queue \o <<r>>) = LineOf(Queue) \o LineOf(<<r>>)
        BY <2>1, <2>2, LineOfConcat
  <2>. QED BY <2>2, <2>3, <2>4 DEF Line
<1>. QED BY <1>2, <1>6, <1>7 DEF r

\* The cycles of a device.
Of(d) == {c \in Cycles : DeviceOf[c] = d}

\* eb_socket_kill_inflight takes the cycles of a device out of the queue, and
\* both they and the others stay in order.
LEMMA CloseParts ==
  ASSUME SocketType, NEW d \in Devices, CloseDevice(d)
  PROVE  /\ LineOf(Killed(d)) = Keep(Line, Of(d)) /\ Line' = Keep(Line, Cycles \ Of(d))
         /\ todo' = Keep(Line, Of(d)) \o Reverse(ready[d])
<1>1. first \in Seq(Response) /\ last \in Seq(Response)
      BY DEF SocketType
<1>2. ASSUME NEW q \in Seq(Response)
      PROVE  /\ Theirs(d, q) \in Seq(Response) /\ LineOf(Theirs(d, q)) = Keep(LineOf(q), Of(d))
             /\ Others(d, q) \in Seq(Response) /\ LineOf(Others(d, q)) = Keep(LineOf(q), Cycles \ Of(d))
  <2>. DEFINE K == {i \in DOMAIN q : DeviceOf[q[i].cycle] = d}
              L == {i \in DOMAIN q : DeviceOf[q[i].cycle] # d}
  <2>1. K \in SUBSET DOMAIN q /\ L \in SUBSET DOMAIN q
        OBVIOUS
  <2>2. DOMAIN LineOf(q) = DOMAIN q /\ \A i \in DOMAIN q : LineOf(q)[i] = q[i].cycle /\ LineOf(q)[i] \in Cycles
    <3>1. /\ LineOf(q) \in Seq(Cycles) /\ DOMAIN LineOf(q) = DOMAIN q
          /\ \A i \in DOMAIN q : LineOf(q)[i] = q[i].cycle
          BY LineIs
    <3>. QED BY <3>1
  <2>3. K = {i \in DOMAIN LineOf(q) : LineOf(q)[i] \in Of(d)}
        BY <2>2 DEF Of
  <2>4. L = {i \in DOMAIN LineOf(q) : LineOf(q)[i] \in Cycles \ Of(d)}
        BY <2>2 DEF Of
  <2>5. /\ LineOf(Select(q, K)) = Select(LineOf(q), K) /\ Select(q, K) \in Seq(Response)
        /\ LineOf(Select(q, L)) = Select(LineOf(q), L) /\ Select(q, L) \in Seq(Response)
    <3>. HIDE DEF K, L
    <3>. QED BY <2>1, LineOfSelect, SelectIs
  <2>6. Theirs(d, q) = Select(q, K) /\ Others(d, q) = Select(q, L)
        BY DEF Theirs, Others
  <2>7. Keep(LineOf(q), Of(d)) = Select(LineOf(q), K)
        BY <2>3 DEF Keep
  <2>8. Keep(LineOf(q), Cycles \ Of(d)) = Select(LineOf(q), L)
        BY <2>4 DEF Keep
  <2>. HIDE DEF K, L
  <2>. QED BY <2>5, <2>6, <2>7, <2>8
<1>3. ASSUME NEW P
      PROVE  Keep(Line, P) = Keep(LineOf(first), P) \o Reverse(Keep(LineOf(last), P))
  <2>1. LineOf(first) \in Seq(Cycles) /\ LineOf(last) \in Seq(Cycles)
        BY <1>1, LineIs
  <2>2. Reverse(LineOf(last)) \in Seq(Cycles)
        BY <2>1, ReverseIs
  <2>3. Keep(Line, P) = Keep(LineOf(first), P) \o Keep(Reverse(LineOf(last)), P)
    <3>1. Line = LineOf(first) \o Reverse(LineOf(last))
          BY QueueIs
    <3>2. Keep(LineOf(first) \o Reverse(LineOf(last)), P)
            = Keep(LineOf(first), P) \o Keep(Reverse(LineOf(last)), P)
          BY <2>1, <2>2, KeepConcat
    <3>. QED BY <3>1, <3>2
  <2>. QED BY <2>1, <2>3, KeepReverse
<1>4. LineOf(Killed(d)) = Keep(Line, Of(d))
  <2>1. LineOf(Killed(d)) = LineOf(Theirs(d, first)) \o Reverse(LineOf(Theirs(d, last)))
        BY <1>1, <1>2, JoinIs DEF Killed
  <2>. QED BY <1>1, <1>2, <1>3, <2>1
<1>5. Line' = Keep(Line, Cycles \ Of(d))
  <2>1. Kept(d) \in Seq(Response) /\ LineOf(Kept(d)) = LineOf(Others(d, first)) \o Reverse(LineOf(Others(d, last)))
        BY <1>1, <1>2, JoinIs DEF Kept
  <2>2. first' = Kept(d) /\ last' = <<>>
        BY DEF CloseDevice
  <2>3. Line' = LineOf(Kept(d) \o Reverse(<<>>))
        BY <2>2 DEF Line, Queue
  <2>4. Line' = LineOf(Kept(d))
        BY <2>1, <2>3, JoinNone
  <2>. QED BY <1>1, <1>2, <1>3, <2>1, <2>4
<1>6. todo' = LineOf(Killed(d)) \o Reverse(ready[d])
      BY DEF CloseDevice, LineOf
<1>. QED BY <1>4, <1>5, <1>6

-----------------------------------------------------------------------------
(* Where the library holds the cycles it is to call back.                  *)

\* The library is in the loop w, or runs a callback that returns to it.
InLoop(w) == pc = w \/ (pc = "callback" /\ ret = w)

\* The lists share no cycle, hold none twice, hold closed cycles only; a cycle
\* that is gone was called back once, and others were not.
Apart ==
  /\ Range(todo) \cap Range(Line) = {}
  /\ \A d \in Devices : Range(ready[d]) \cap (Range(todo) \cup Range(Line)) = {}
NoneTwice ==
  /\ IsInjective(todo) /\ IsInjective(Line)
  /\ \A d \in Devices : IsInjective(ready[d])
HeldAreClosed ==
  /\ \A c \in Range(todo) \cup Range(Line) : state[c] = "closed"
  /\ \A d \in Devices : \A c \in Range(ready[d]) : state[c] = "closed" /\ DeviceOf[c] = d
CountsCalls == \A c \in Cycles : calls[c] = IF state[c] = "gone" THEN 1 ELSE 0
TodoInLoop == todo # <<>> => InLoop("flush") \/ InLoop("close")
HeldInv == Apart /\ NoneTwice /\ HeldAreClosed /\ CountsCalls /\ TodoInLoop

\* At first nothing is held and no cycle was called back.
LEMMA HeldInit == Init => HeldInv
<1> SUFFICES ASSUME Init PROVE HeldInv
    OBVIOUS
<1>1. /\ first = <<>> /\ last = <<>> /\ todo = <<>> /\ \A d \in Devices : ready[d] = <<>>
      BY DEF Init
<1>2. <<>> \in Seq(Response) /\ Queue = <<>>
      BY <1>1, JoinNone, EmptySeq DEF Queue
<1>3. Line = <<>>
      BY <1>2, LineIs DEF Line
<1>4. Range(<<>>) = {} /\ IsInjective(<<>>)
      BY EmptyIs
<1>. QED BY <1>1, <1>3, <1>4 DEF Init, HeldInv, Apart, NoneTwice, HeldAreClosed, CountsCalls, TodoInLoop

\* Each step keeps the lists apart: the cycle that leaves one of them is called
\* back or joins another one (eb_device_flush, eb_device_close).
LEMMA HeldNext == Shapes /\ HeldInv /\ [Next]_vars => HeldInv'
<1> SUFFICES ASSUME Shapes, HeldInv, [Next]_vars PROVE HeldInv'
    OBVIOUS
<1>1. /\ todo \in Seq(Cycles) /\ dev \in Devices /\ devs \in Seq(Devices) /\ SocketType
      /\ ready \in [Devices -> Seq(Cycles)]
      /\ state \in [Cycles -> {"new", "open", "closed", "aborted", "gone"}]
      /\ calls \in [Cycles -> Nat]
      BY DEF Shapes, LocalType, AppType
<1>2. Line \in Seq(Cycles) /\ Range(Line) \subseteq Cycles /\ Range(todo) \subseteq Cycles
      BY <1>1, QueueIs, RangeIs
<1>3. ASSUME Line' = Line, todo' = todo, ready' = ready, state' = state, calls' = calls,
             todo # <<>> => InLoop("flush")' \/ InLoop("close")'
      PROVE  HeldInv'
      BY <1>3 DEF HeldInv, Apart, NoneTwice, HeldAreClosed, CountsCalls, TodoInLoop
\* A cycle that is called back leaves the only place it is in.
<1>4. ASSUME NEW c \in Cycles, NEW with, NEW where, Call(c, with, where), state[c] = "closed", ready' = ready,
             IsInjective(todo'), Range(todo') \subseteq Range(todo) \ {c},
             IsInjective(Line'), Range(Line') \subseteq Range(Line) \ {c},
             \A d \in Devices : c \notin Range(ready[d]),
             todo' # <<>> => where \in {"flush", "close"}
      PROVE  HeldInv'
  <2>1. Apart' /\ NoneTwice'
        BY <1>4 DEF HeldInv, Apart, NoneTwice
  <2>2. /\ state'[c] = "gone" /\ calls'[c] = calls[c] + 1
        /\ \A k \in Cycles : k # c => state'[k] = state[k] /\ calls'[k] = calls[k]
        BY <1>1, <1>4 DEF Call
  <2>3. \A d \in Devices : Range(ready[d]) \subseteq Cycles
        BY <1>1, RangeIs
  <2>4. HeldAreClosed'
        BY <1>2, <1>4, <2>2, <2>3 DEF HeldInv, HeldAreClosed
  <2>5. CountsCalls'
    <3>1. calls[c] = 0
          BY <1>4 DEF HeldInv, CountsCalls
    <3>. QED BY <2>2, <3>1 DEF HeldInv, CountsCalls
  <2>6. TodoInLoop'
        BY <1>4 DEF TodoInLoop, InLoop, Call
  <2>. QED BY <2>1, <2>4, <2>5, <2>6 DEF HeldInv
<1>5. ASSUME NEW c \in Range(Line)
      PROVE  /\ c \in Cycles /\ state[c] = "closed" /\ c \notin Range(todo)
             /\ \A d \in Devices : c \notin Range(ready[d])
      BY <1>2 DEF HeldInv, Apart, HeldAreClosed
<1>6. ASSUME NEW c \in Range(todo)
      PROVE  /\ c \in Cycles /\ state[c] = "closed" /\ c \notin Range(Line)
             /\ \A d \in Devices : c \notin Range(ready[d])
      BY <1>2 DEF HeldInv, Apart, HeldAreClosed
<1>7. todo # <<>> =>
        /\ Head(todo) \in Range(todo) /\ Tail(todo) \in Seq(Cycles)
        /\ IsInjective(Tail(todo)) /\ Range(Tail(todo)) = Range(todo) \ {Head(todo)}
  <2>1. ASSUME todo # <<>>
        PROVE  /\ Range(todo) = {Head(todo)} \cup Range(Tail(todo)) /\ Tail(todo) \in Seq(Cycles)
               /\ (IsInjective(todo) => IsInjective(Tail(todo)) /\ Head(todo) \notin Range(Tail(todo)))
        BY <1>1, <2>1, HeadTailIs
  <2>. QED BY <2>1 DEF HeldInv, NoneTwice
<1>8. first' = first /\ last' = last => Line' = Line
      BY DEF Line, Queue
<1>9. ASSUME NEW c \in Cycles, Close(c) PROVE HeldInv'
  <2>. DEFINE d == DeviceOf[c]
  <2>1. d \in Devices /\ state[c] = "open" /\ ready' = [ready EXCEPT ![d] = <<c>> \o @]
        /\ state' = [state EXCEPT ![c] = "closed"] /\ UNCHANGED <<pc, ret, todo, calls>> /\ Line' = Line
        BY <1>8, <1>9, ConstantsAre DEF Close, socket, locals, hist
  <2>2. /\ c \notin Range(todo) /\ c \notin Range(Line) /\ \A k \in Devices : c \notin Range(ready[k])
        BY <2>1 DEF HeldInv, HeldAreClosed
  <2>3. /\ Range(<<c>> \o ready[d]) = {c} \cup Range(ready[d]) /\ IsInjective(<<c>> \o ready[d])
    <3>1. <<c>> \in Seq(Cycles) /\ Range(<<c>>) = {c} /\ IsInjective(<<c>>)
          BY OneIs
    <3>2. ready[d] \in Seq(Cycles) /\ IsInjective(ready[d])
          BY <1>1, <2>1 DEF HeldInv, NoneTwice
    <3>3. /\ Range(<<c>> \o ready[d]) = Range(<<c>>) \cup Range(ready[d])
          /\ IsInjective(<<c>>) /\ IsInjective(ready[d]) /\ Range(<<c>>) \cap Range(ready[d]) = {}
               => IsInjective(<<c>> \o ready[d])
          BY <3>1, <3>2, ConcatIs
    <3>. QED BY <2>1, <2>2, <3>1, <3>2, <3>3
  <2>4. /\ ready'[d] = <<c>> \o ready[d] /\ \A k \in Devices : k # d => ready'[k] = ready[k]
        /\ state'[c] = "closed" /\ \A k \in Cycles : k # c => state'[k] = state[k]
        BY <1>1, <2>1
  <2>5. \A k \in Devices : Range(ready[k]) \subseteq Cycles
        BY <1>1, RangeIs
  <2>. HIDE DEF d
  <2>6. Apart'
        BY <2>1, <2>2, <2>3, <2>4 DEF HeldInv, Apart
  <2>7. NoneTwice'
        BY <2>1, <2>3, <2>4 DEF HeldInv, NoneTwice
  <2>8. HeldAreClosed'
    <3>1. \A k \in Range(todo) \cup Range(Line) : state'[k] = "closed"
          BY <1>2, <2>2, <2>4 DEF HeldInv, HeldAreClosed
    <3>2. ASSUME NEW k \in Devices, NEW x \in Range(ready'[k])
          PROVE  state'[x] = "closed" /\ DeviceOf[x] = k
      <4>1. CASE k = d /\ x = c
            BY <2>4, <4>1 DEF d
      <4>2. CASE x \in Range(ready[k])
            BY <2>2, <2>4, <2>5, <4>2 DEF HeldInv, HeldAreClosed
      <4>. QED BY <2>3, <2>4, <4>1, <4>2
    <3>. QED BY <2>1, <3>1, <3>2 DEF HeldAreClosed
  <2>9. CountsCalls'
        BY <2>1, <2>4 DEF HeldInv, CountsCalls
  <2>10. TodoInLoop'
        BY <2>1 DEF HeldInv, TodoInLoop, InLoop
  <2>. QED BY <2>6, <2>7, <2>8, <2>9, <2>10 DEF HeldInv
<1>10. ASSUME NEW c \in Cycles, Open(c) \/ Abort(c) PROVE HeldInv'
  <2>1. /\ state[c] # "closed" /\ state[c] # "gone" /\ state'[c] # "closed" /\ state'[c] # "gone"
        /\ (\A k \in Cycles : k # c => state'[k] = state[k])
        /\ UNCHANGED <<ready, todo, calls, pc, ret>> /\ Line' = Line
        BY <1>1, <1>8, <1>10 DEF Open, Abort, socket, locals, hist
  <2>2. \A d \in Devices : Range(ready[d]) \subseteq Cycles
        BY <1>1, RangeIs
  <2>3. HeldAreClosed'
        BY <1>2, <2>1, <2>2 DEF HeldInv, HeldAreClosed
  <2>4. CountsCalls'
        BY <2>1 DEF HeldInv, CountsCalls
  <2>5. Apart' /\ NoneTwice' /\ TodoInLoop'
        BY <2>1 DEF HeldInv, Apart, NoneTwice, TodoInLoop, InLoop
  <2>. QED BY <2>3, <2>4, <2>5 DEF HeldInv
<1>11. CASE KillExpired
  <2>1. Line # <<>> /\ Line' = Tail(Line) /\ Head(first).cycle = Head(Line) /\ todo = <<>>
        BY <1>1, <1>11, KillsHead DEF KillExpired, HeldInv, TodoInLoop, InLoop
  <2>2. /\ Range(Line) = {Head(Line)} \cup Range(Tail(Line))
        /\ (IsInjective(Line) => IsInjective(Tail(Line)) /\ Head(Line) \notin Range(Tail(Line)))
        BY <1>2, <2>1, HeadTailIs
  <2>3. IsInjective(Line) /\ IsInjective(todo)
        BY DEF HeldInv, NoneTwice
  <2>4. Head(Line) \in Range(Line) /\ Range(Tail(Line)) \subseteq Range(Line) \ {Head(Line)}
        BY <2>2, <2>3
  <2>5. Call(Head(Line), "TIMEOUT", "kill") /\ todo' = todo /\ ready' = ready
        BY <1>11, <2>1 DEF KillExpired, device, locals
  <2>. HIDE DEF HeldInv
  <2>. QED BY <1>4, <1>5, <2>1, <2>2, <2>3, <2>4, <2>5
<1>12. CASE Word
  <2>1. todo = <<>> /\ todo' = todo /\ ready' = ready
        BY <1>12 DEF Word, device, HeldInv, TodoInLoop, InLoop
  <2>2. CASE Line' = Line /\ UNCHANGED <<state, pc, ret, calls, status>>
        BY <1>3, <2>1, <2>2
  <2>3. ASSUME NEW i \in DOMAIN Line, NEW with, Line' = RemoveAt(Line, i), Call(Line[i], with, "words")
        PROVE  HeldInv'
    <3>1. /\ Range(Line) = {Line[i]} \cup Range(RemoveAt(Line, i))
          /\ (IsInjective(Line) => IsInjective(RemoveAt(Line, i)) /\ Line[i] \notin Range(RemoveAt(Line, i)))
          BY <1>2, RemoveAtRange
    <3>2. IsInjective(Line) /\ IsInjective(todo)
          BY DEF HeldInv, NoneTwice
    <3>3. Line[i] \in Range(Line) /\ Range(Line') \subseteq Range(Line) \ {Line[i]} /\ IsInjective(Line')
          BY <2>3, <3>1, <3>2
    <3>4. Line[i] \notin Range(todo)
          BY <1>5, <3>3
    <3>. HIDE DEF HeldInv
    <3>. QED BY <1>4, <1>5, <2>1, <2>3, <3>2, <3>3, <3>4
  <2>. QED BY <1>1, <1>12, <2>2, <2>3, WordTakes
\* The head of the list that is gone through is called back.
<1>13. ASSUME todo # <<>>, todo' = Tail(todo), Line' = Line, ready' = ready,
              NEW with, NEW where \in {"flush", "close"}, Call(Head(todo), with, where)
       PROVE  HeldInv'
  <2>1. IsInjective(Line) /\ IsInjective(Tail(todo)) /\ Head(todo) \in Range(todo)
        BY <1>7, <1>13 DEF HeldInv, NoneTwice
  <2>. HIDE DEF HeldInv
  <2>. QED BY <1>4, <1>6, <1>7, <1>13, <2>1
<1>14. CASE FlushWrite \/ CloseCycle \/ \E fault \in {"OOM", "OVERFLOW", "WIDTH", "EMPTY"} : FlushRefuse(fault)
  <2>1. /\ todo # <<>> /\ todo' = Tail(todo) /\ Line' = Line /\ ready' = ready
        /\ \E with : \E where \in {"flush", "close"} : Call(Head(todo), with, where)
        BY <1>8, <1>14 DEF FlushWrite, CloseCycle, FlushRefuse, device, socket
  <2>. QED BY <1>13, <2>1
<1>15. CASE FlushRead
  <2>1. todo # <<>> /\ todo' = Tail(todo) /\ UNCHANGED <<state, ready, calls, pc, ret>> /\ InLoop("flush")
        BY <1>15 DEF FlushRead, device, InLoop
  <2>. DEFINE c == Head(todo)
  <2>2. c \in Range(todo) /\ c \in Cycles
        BY <1>6, <1>7, <2>1
  <2>3. Line' = Append(Line, c)
        BY <1>1, <1>15, <2>2, ReadJoins
  <2>4. Range(Line') = Range(Line) \cup {c} /\ IsInjective(Line')
    <3>1. /\ Range(Append(Line, c)) = Range(Line) \cup {c}
          /\ IsInjective(Line) /\ c \notin Range(Line) => IsInjective(Append(Line, c))
      <4>. HIDE DEF c
      <4>. QED BY <1>2, <2>2, AppendIs
    <3>2. IsInjective(Line) /\ c \notin Range(Line)
          BY <1>6, <2>2 DEF HeldInv, NoneTwice
    <3>. QED BY <2>3, <3>1, <3>2
  <2>5. Range(todo') = Range(todo) \ {c} /\ IsInjective(todo')
        BY <1>7, <2>1
  <2>6. Apart'
        BY <1>6, <2>1, <2>2, <2>4, <2>5 DEF HeldInv, Apart
  <2>7. NoneTwice' /\ HeldAreClosed' /\ CountsCalls' /\ TodoInLoop'
        BY <2>1, <2>2, <2>4, <2>5 DEF HeldInv, NoneTwice, HeldAreClosed, CountsCalls, TodoInLoop, InLoop
  <2>. QED BY <2>6, <2>7 DEF HeldInv
<1>16. CASE Flush
  <2>. DEFINE d == Head(devs)
  <2>1. /\ d \in Devices /\ todo = <<>> /\ todo' = Reverse(ready[d])
        /\ ready' = [ready EXCEPT ![d] = <<>>] /\ pc' = "flush"
        /\ UNCHANGED <<state, calls, ret>> /\ Line' = Line
        BY <1>1, <1>8, <1>16, HeadTailIs DEF Flush, socket, hist, HeldInv, TodoInLoop, InLoop
  <2>2. ready[d] \in Seq(Cycles)
        BY <1>1, <2>1
  <2>. HIDE DEF d
  <2>3. /\ Range(todo') = Range(ready[d]) /\ IsInjective(todo')
        BY <2>1, <2>2, ReverseIs DEF HeldInv, NoneTwice
  <2>4. /\ Range(ready'[d]) = {} /\ IsInjective(ready'[d])
        /\ \A k \in Devices : k # d => ready'[k] = ready[k]
        BY <1>1, <2>1, EmptyIs
  <2>5. \A k \in Devices : k # d => Range(ready[k]) \cap Range(ready[d]) = {}
        BY <2>1 DEF HeldInv, HeldAreClosed
  <2>6. Apart'
        BY <2>1, <2>3, <2>4, <2>5 DEF HeldInv, Apart
  <2>7. NoneTwice' /\ HeldAreClosed'
        BY <2>1, <2>3, <2>4 DEF HeldInv, NoneTwice, HeldAreClosed
  <2>8. CountsCalls' /\ TodoInLoop'
        BY <2>1 DEF HeldInv, CountsCalls, TodoInLoop, InLoop
  <2>. QED BY <2>6, <2>7, <2>8 DEF HeldInv
<1>17. CASE FlushDone
  <2>1. /\ todo = <<>> /\ todo' = todo /\ ready' = [ready EXCEPT ![dev] = <<>>]
        /\ UNCHANGED <<state, calls>> /\ Line' = Line
        BY <1>8, <1>17 DEF FlushDone, socket, hist, locals
  <2>2. /\ Range(ready'[dev]) = {} /\ IsInjective(ready'[dev])
        /\ \A k \in Devices : k # dev => ready'[k] = ready[k]
        BY <1>1, <2>1, EmptyIs
  <2>. QED BY <2>1, <2>2 DEF HeldInv, Apart, NoneTwice, HeldAreClosed, CountsCalls, TodoInLoop
<1>18. ASSUME NEW d \in Devices, CloseDevice(d) PROVE HeldInv'
  <2>1. /\ todo = <<>> /\ ready' = [ready EXCEPT ![d] = <<>>] /\ pc' = "close"
        /\ UNCHANGED <<state, calls, ret>>
        BY <1>18 DEF CloseDevice, hist, HeldInv, TodoInLoop, InLoop
  <2>2. Line' = Keep(Line, Cycles \ Of(d)) /\ todo' = Keep(Line, Of(d)) \o Reverse(ready[d])
        BY <1>1, <1>18, CloseParts
  <2>3. /\ Range(Line') = Range(Line) \cap (Cycles \ Of(d)) /\ IsInjective(Line')
        /\ Keep(Line, Of(d)) \in Seq(Cycles)
        /\ Range(Keep(Line, Of(d))) = Range(Line) \cap Of(d) /\ IsInjective(Keep(Line, Of(d)))
        BY <1>2, <2>2, KeepIs DEF HeldInv, NoneTwice
  <2>4. /\ Reverse(ready[d]) \in Seq(Cycles) /\ Range(Reverse(ready[d])) = Range(ready[d])
        /\ IsInjective(Reverse(ready[d]))
        BY <1>1, ReverseIs DEF HeldInv, NoneTwice
  <2>5. Range(ready[d]) \cap Range(Line) = {}
        BY DEF HeldInv, Apart
  <2>6. Range(todo') = (Range(Line) \cap Of(d)) \cup Range(ready[d]) /\ IsInjective(todo')
    <3>1. /\ Range(Keep(Line, Of(d)) \o Reverse(ready[d])) = Range(Keep(Line, Of(d))) \cup Range(Reverse(ready[d]))
          /\ IsInjective(Keep(Line, Of(d))) /\ IsInjective(Reverse(ready[d]))
               /\ Range(Keep(Line, Of(d))) \cap Range(Reverse(ready[d])) = {}
             => IsInjective(Keep(Line, Of(d)) \o Reverse(ready[d]))
          BY <2>3, <2>4, ConcatIs
    <3>2. Range(Keep(Line, Of(d))) \cap Range(Reverse(ready[d])) = {}
          BY <2>3, <2>4, <2>5
    <3>. QED BY <2>2, <2>3, <2>4, <3>1, <3>2
  <2>7. /\ Range(ready'[d]) = {} /\ IsInjective(ready'[d])
        /\ \A k \in Devices : k # d => ready'[k] = ready[k]
        BY <1>1, <2>1, EmptyIs
  <2>8. \A k \in Devices : k # d => Range(ready[k]) \cap Range(ready[d]) = {}
        BY DEF HeldInv, HeldAreClosed
  <2>9. Apart'
    <3>1. Range(todo') \cap Range(Line') = {}
          BY <2>3, <2>5, <2>6
    <3>2. \A k \in Devices : Range(ready'[k]) \cap (Range(todo') \cup Range(Line')) = {}
          BY <2>3, <2>6, <2>7, <2>8 DEF HeldInv, Apart
    <3>. QED BY <3>1, <3>2 DEF Apart
  <2>10. NoneTwice'
        BY <2>3, <2>6, <2>7 DEF HeldInv, NoneTwice
  <2>11. HeldAreClosed'
        BY <2>1, <2>3, <2>6, <2>7 DEF HeldInv, HeldAreClosed
  <2>12. CountsCalls' /\ TodoInLoop'
        BY <2>1 DEF HeldInv, CountsCalls, TodoInLoop, InLoop
  <2>. QED BY <2>9, <2>10, <2>11, <2>12 DEF HeldInv
<1>19. CASE CheckDone
  <2>1. Line' = Line
        BY <1>1, <1>19, FlipKeepsQueue DEF Line
  <2>2. UNCHANGED <<state, ready, todo, calls>> /\ todo = <<>>
        BY <1>19 DEF CheckDone, device, locals, hist, HeldInv, TodoInLoop, InLoop
  <2>. QED BY <1>3, <2>1, <2>2
<1>20. CASE Return
  <2>1. /\ UNCHANGED <<state, ready, todo, calls>> /\ Line' = Line
        /\ \A w \in {"flush", "close"} : InLoop(w) => InLoop(w)'
        BY <1>8, <1>20 DEF Return, device, locals, hist, socket, InLoop
  <2>. QED BY <1>3, <2>1 DEF HeldInv, TodoInLoop
<1>21. CASE Check \/ KillDone \/ WordsDone \/ FlushNot \/ CloseDone
  <2>1. UNCHANGED <<state, ready, todo, calls>> /\ Line' = Line /\ todo = <<>>
        BY <1>8, <1>21 DEF Check, KillDone, WordsDone, FlushNot, CloseDone, device, locals, hist, socket,
             HeldInv, TodoInLoop, InLoop
  <2>. QED BY <1>3, <2>1
<1>22. CASE Send \/ LinkDown \/ Tick \/ UNCHANGED vars
  <2>1. UNCHANGED <<state, ready, todo, calls, pc, ret>> /\ Line' = Line
        BY <1>8, <1>22 DEF Send, LinkDown, Tick, vars, device, locals, hist, socket
  <2>. QED BY <1>3, <2>1 DEF HeldInv, TodoInLoop, InLoop
<1>23. ASSUME NEW p, Receive(p) PROVE HeldInv'
  <2>1. UNCHANGED <<state, ready, todo, calls>> /\ Line' = Line /\ todo = <<>>
        BY <1>8, <1>23 DEF Receive, device, hist, socket, HeldInv, TodoInLoop, InLoop
  <2>. QED BY <1>3, <2>1
<1>24. ASSUME NEW r, NEW s, ReceiveBad(r, s) PROVE HeldInv'
  <2>1. UNCHANGED <<state, ready, todo, calls>> /\ Line' = Line /\ todo = <<>>
        BY <1>8, <1>24 DEF ReceiveBad, device, hist, socket, HeldInv, TodoInLoop, InLoop
  <2>. QED BY <1>3, <2>1
<1>. QED BY <1>9, <1>10, <1>11, <1>12, <1>14, <1>15, <1>16, <1>17, <1>18, <1>19, <1>20, <1>21, <1>22,
            <1>23, <1>24 DEF Next, Lib, App, Net

\* A closed cycle is on a list, and the list of the device that is flushed stays
\* empty.
NoneLost == \A c \in Cycles : state[c] = "closed" =>
  c \in Range(ready[DeviceOf[c]]) \cup Range(todo) \cup Range(Line)
FlushedEmpty == InLoop("flush") => ready[dev] = <<>>
KeptInv == NoneLost /\ FlushedEmpty

\* At first no cycle is closed.
LEMMA KeptInit == Init => KeptInv
BY DEF Init, KeptInv, NoneLost, FlushedEmpty, InLoop

\* No step loses a closed cycle.  The assumption is needed where eb_device_flush
\* empties the ready list (FlushDone): what a callback closed would be dropped.
LEMMA KeptNext ==
  ASSUME ~CloseInFlush
  PROVE  Shapes /\ HeldInv /\ KeptInv /\ [Next]_vars => KeptInv'
<1> SUFFICES ASSUME Shapes, HeldInv, KeptInv, [Next]_vars PROVE KeptInv'
    OBVIOUS
<1>1. /\ todo \in Seq(Cycles) /\ dev \in Devices /\ devs \in Seq(Devices) /\ SocketType
      /\ ready \in [Devices -> Seq(Cycles)]
      /\ state \in [Cycles -> {"new", "open", "closed", "aborted", "gone"}]
      BY DEF Shapes, LocalType, AppType
<1>2. Line \in Seq(Cycles) /\ \A c \in Cycles : DeviceOf[c] \in Devices
      BY <1>1, QueueIs, ConstantsAre
<1>3. first' = first /\ last' = last => Line' = Line
      BY DEF Line, Queue
<1>4. todo # <<>> => InLoop("flush") \/ InLoop("close")
      BY DEF HeldInv, TodoInLoop
<1>5. ASSUME Line' = Line, UNCHANGED <<todo, ready, dev>>, \A c \in Cycles : state'[c] = "closed" => state[c] = "closed",
             InLoop("flush")' => InLoop("flush")
      PROVE  KeptInv'
      BY <1>5 DEF KeptInv, NoneLost, FlushedEmpty
\* A cycle that is called back is the only one to leave its place.
<1>6. ASSUME NEW c \in Cycles, NEW with, NEW where, Call(c, with, where), ready' = ready, dev' = dev,
             Range(todo) \subseteq Range(todo') \cup {c}, Range(Line) \subseteq Range(Line') \cup {c},
             where = "flush" => InLoop("flush")
      PROVE  KeptInv'
  <2>1. state'[c] = "gone" /\ \A k \in Cycles : k # c => state'[k] = state[k]
        BY <1>1, <1>6 DEF Call
  <2>2. NoneLost'
        BY <1>6, <2>1 DEF KeptInv, NoneLost
  <2>3. FlushedEmpty'
        BY <1>6 DEF Call, KeptInv, FlushedEmpty, InLoop
  <2>. QED BY <2>2, <2>3 DEF KeptInv
<1>7. todo # <<>> => Head(todo) \in Cycles /\ Range(todo) = {Head(todo)} \cup Range(Tail(todo))
      BY <1>1, HeadTailIs
<1>8. ASSUME NEW c \in Cycles, Close(c) PROVE KeptInv'
  <2>. DEFINE d == DeviceOf[c]
  <2>1. /\ ready' = [ready EXCEPT ![d] = <<c>> \o @] /\ state' = [state EXCEPT ![c] = "closed"]
        /\ UNCHANGED <<pc, ret, todo, dev>> /\ Line' = Line /\ d \in Devices
        /\ (InLoop("flush") => d # dev)
        BY <1>2, <1>3, <1>8 DEF Close, socket, locals, hist, InLoop
  <2>2. Range(<<c>> \o ready[d]) = {c} \cup Range(ready[d])
    <3>1. <<c>> \in Seq(Cycles) /\ Range(<<c>>) = {c} /\ ready[d] \in Seq(Cycles)
          BY <1>1, <2>1, OneIs
    <3>2. Range(<<c>> \o ready[d]) = Range(<<c>>) \cup Range(ready[d])
          BY <3>1, ConcatIs
    <3>. QED BY <3>1, <3>2
  <2>3. /\ ready'[d] = <<c>> \o ready[d] /\ \A k \in Devices : k # d => ready'[k] = ready[k]
        /\ \A k \in Cycles : k # c => state'[k] = state[k]
        BY <1>1, <2>1
  <2>4. ASSUME NEW k \in Cycles, state'[k] = "closed"
        PROVE  k \in Range(ready'[DeviceOf[k]]) \cup Range(todo') \cup Range(Line')
    <3>1. CASE k = c
          BY <2>2, <2>3, <3>1
    <3>2. CASE k # c
      <4>1. k \in Range(ready[DeviceOf[k]]) \cup Range(todo) \cup Range(Line)
            BY <2>3, <2>4, <3>2 DEF KeptInv, NoneLost
      <4>2. CASE DeviceOf[k] = d
            BY <2>1, <2>2, <2>3, <4>1, <4>2
      <4>3. CASE DeviceOf[k] # d
            BY <1>2, <2>1, <2>3, <4>1, <4>3
      <4>. QED BY <4>2, <4>3
    <3>. QED BY <3>1, <3>2
  <2>5. FlushedEmpty'
        BY <1>1, <2>1, <2>3 DEF KeptInv, FlushedEmpty, InLoop
  <2>. QED BY <2>4, <2>5 DEF KeptInv, NoneLost
<1>9. ASSUME NEW c \in Cycles, Open(c) \/ Abort(c) PROVE KeptInv'
  <2>1. /\ UNCHANGED <<ready, todo, dev, pc, ret>> /\ Line' = Line
        /\ \A k \in Cycles : state'[k] = "closed" => state[k] = "closed"
        BY <1>1, <1>3, <1>9 DEF Open, Abort, socket, locals, hist
  <2>. QED BY <1>5, <2>1 DEF InLoop
<1>10. CASE KillExpired
  <2>1. /\ Line # <<>> /\ Line' = Tail(Line) /\ Call(Head(Line), "TIMEOUT", "kill")
        /\ UNCHANGED <<todo, ready, dev>>
        BY <1>1, <1>10, KillsHead DEF KillExpired, device, locals
  <2>2. Head(Line) \in Cycles /\ Range(Line) = {Head(Line)} \cup Range(Tail(Line))
        BY <1>2, <2>1, HeadTailIs
  <2>. QED BY <1>6, <2>1, <2>2
<1>11. CASE Word
  <2>1. UNCHANGED <<todo, ready, dev>>
        BY <1>11 DEF Word, device
  <2>2. CASE Line' = Line /\ UNCHANGED <<state, pc, ret, calls, status>>
        BY <1>5, <2>1, <2>2 DEF InLoop
  <2>3. ASSUME NEW i \in DOMAIN Line, NEW with, Line' = RemoveAt(Line, i), Call(Line[i], with, "words")
        PROVE  KeptInv'
    <3>1. Range(Line) = {Line[i]} \cup Range(RemoveAt(Line, i)) /\ Line[i] \in Cycles
          BY <1>2, RemoveAtRange, LenProperties
    <3>. QED BY <1>6, <2>1, <2>3, <3>1
  <2>. QED BY <1>1, <1>11, <2>2, <2>3, WordTakes
<1>12. CASE FlushWrite \/ \E fault \in {"OOM", "OVERFLOW", "WIDTH", "EMPTY"} : FlushRefuse(fault)
  <2>1. /\ todo # <<>> /\ todo' = Tail(todo) /\ UNCHANGED <<ready, dev>> /\ Line' = Line /\ InLoop("flush")
        /\ \E with : Call(Head(todo), with, "flush")
        BY <1>3, <1>12 DEF FlushWrite, FlushRefuse, device, socket, InLoop
  <2>. QED BY <1>6, <1>7, <2>1
<1>13. CASE CloseCycle
  <2>1. /\ todo # <<>> /\ todo' = Tail(todo) /\ UNCHANGED <<ready, dev>> /\ Line' = Line
        /\ Call(Head(todo), "TIMEOUT", "close")
        BY <1>3, <1>13 DEF CloseCycle, device, socket
  <2>. QED BY <1>6, <1>7, <2>1
<1>14. CASE FlushRead
  <2>1. todo # <<>> /\ todo' = Tail(todo) /\ UNCHANGED <<state, ready, pc, ret, dev>>
        BY <1>14 DEF FlushRead, device
  <2>2. Line' = Append(Line, Head(todo))
        BY <1>1, <1>7, <1>14, <2>1, ReadJoins
  <2>3. Range(Line') = Range(Line) \cup {Head(todo)}
        BY <1>2, <1>7, <2>1, <2>2, AppendIs
  <2>. QED BY <1>7, <2>1, <2>3 DEF KeptInv, NoneLost, FlushedEmpty, InLoop
<1>15. CASE Flush
  <2>. DEFINE d == Head(devs)
  <2>1. /\ d \in Devices /\ todo = <<>> /\ todo' = Reverse(ready[d]) /\ dev' = d
        /\ ready' = [ready EXCEPT ![d] = <<>>] /\ state' = state /\ Line' = Line
        BY <1>1, <1>3, <1>4, <1>15, HeadTailIs DEF Flush, socket, hist, InLoop
  <2>2. ready[d] \in Seq(Cycles)
        BY <1>1, <2>1
  <2>. HIDE DEF d
  <2>3. Range(todo') = Range(ready[d])
        BY <2>1, <2>2, ReverseIs
  <2>4. ready'[d] = <<>> /\ \A k \in Devices : k # d => ready'[k] = ready[k]
        BY <1>1, <2>1
  <2>5. NoneLost'
    <3> SUFFICES ASSUME NEW c \in Cycles, state'[c] = "closed"
                 PROVE  c \in Range(ready'[DeviceOf[c]]) \cup Range(todo') \cup Range(Line')
        BY DEF NoneLost
    <3>1. c \in Range(ready[DeviceOf[c]]) \cup Range(Line)
          BY <2>1, EmptyIs DEF KeptInv, NoneLost
    <3>2. CASE DeviceOf[c] = d
          BY <2>1, <2>3, <3>1, <3>2
    <3>3. CASE DeviceOf[c] # d
          BY <1>2, <2>1, <2>4, <3>1, <3>3
    <3>. QED BY <3>2, <3>3
  <2>. QED BY <2>1, <2>4, <2>5 DEF KeptInv, FlushedEmpty
<1>16. CASE FlushDone
  <2>1. /\ ready[dev] = <<>> /\ ready' = [ready EXCEPT ![dev] = <<>>] /\ UNCHANGED <<state, todo, dev>>
        /\ Line' = Line /\ pc' = "poll"
        BY <1>3, <1>16 DEF FlushDone, socket, hist, locals, KeptInv, FlushedEmpty, InLoop
  <2>2. ready' = ready
        BY <1>1, <2>1
  <2>. QED BY <1>5, <2>1, <2>2 DEF InLoop
<1>17. ASSUME NEW d \in Devices, CloseDevice(d) PROVE KeptInv'
  <2>1. /\ todo = <<>> /\ ready' = [ready EXCEPT ![d] = <<>>] /\ pc' = "close" /\ state' = state
        BY <1>4, <1>17 DEF CloseDevice, hist, InLoop
  <2>2. Line' = Keep(Line, Cycles \ Of(d)) /\ todo' = Keep(Line, Of(d)) \o Reverse(ready[d])
        BY <1>1, <1>17, CloseParts
  <2>3. /\ Range(Line') = Range(Line) \cap (Cycles \ Of(d))
        /\ Keep(Line, Of(d)) \in Seq(Cycles) /\ Range(Keep(Line, Of(d))) = Range(Line) \cap Of(d)
        BY <1>2, <2>2, KeepIs
  <2>4. Reverse(ready[d]) \in Seq(Cycles) /\ Range(Reverse(ready[d])) = Range(ready[d])
        BY <1>1, ReverseIs
  <2>5. Range(todo') = (Range(Line) \cap Of(d)) \cup Range(ready[d])
        BY <2>2, <2>3, <2>4, ConcatIs
  <2>6. \A k \in Devices : k # d => ready'[k] = ready[k]
        BY <1>1, <2>1
  <2>7. NoneLost'
    <3> SUFFICES ASSUME NEW c \in Cycles, state'[c] = "closed"
                 PROVE  c \in Range(ready'[DeviceOf[c]]) \cup Range(todo') \cup Range(Line')
        BY DEF NoneLost
    <3>1. c \in Range(ready[DeviceOf[c]]) \cup Range(Line)
          BY <2>1, EmptyIs DEF KeptInv, NoneLost
    <3>2. CASE DeviceOf[c] = d
          BY <2>3, <2>5, <3>1, <3>2
    <3>3. CASE DeviceOf[c] # d
          BY <1>2, <2>3, <2>5, <2>6, <3>1, <3>3
    <3>. QED BY <3>2, <3>3
  <2>8. FlushedEmpty'
        BY <2>1 DEF FlushedEmpty, InLoop
  <2>. QED BY <2>7, <2>8 DEF KeptInv
<1>18. CASE CheckDone
  <2>1. Line' = Line
        BY <1>1, <1>18, FlipKeepsQueue DEF Line
  <2>. QED BY <1>5, <1>18, <2>1 DEF CheckDone, device, locals, hist, InLoop
<1>19. CASE Return
  <2>1. Line' = Line /\ UNCHANGED <<todo, ready, dev, state>> /\ (InLoop("flush")' => InLoop("flush"))
        BY <1>3, <1>19 DEF Return, device, locals, hist, socket, InLoop
  <2>. QED BY <1>5, <2>1
<1>20. CASE Check \/ KillDone \/ WordsDone \/ FlushNot \/ CloseDone \/ Send \/ LinkDown \/ Tick \/ UNCHANGED vars
  <2>1. Line' = Line /\ UNCHANGED <<todo, ready, dev, state>> /\ (InLoop("flush")' => InLoop("flush"))
        BY <1>3, <1>20 DEF Check, KillDone, WordsDone, FlushNot, CloseDone, Send, LinkDown, Tick, vars,
             device, locals, hist, socket, InLoop
  <2>. QED BY <1>5, <2>1
<1>21. ASSUME NEW p, Receive(p) PROVE KeptInv'
      BY <1>3, <1>5, <1>21 DEF Receive, device, hist, socket, InLoop
<1>22. ASSUME NEW r, NEW s, ReceiveBad(r, s) PROVE KeptInv'
      BY <1>3, <1>5, <1>22 DEF ReceiveBad, device, hist, socket, InLoop
<1>. QED BY <1>8, <1>9, <1>10, <1>11, <1>12, <1>13, <1>14, <1>15, <1>16, <1>17, <1>18, <1>19, <1>20,
            <1>21, <1>22 DEF Next, Lib, App, Net

-----------------------------------------------------------------------------
(* The cycles that are open.                                               *)

\* The open cycles of a device are counted in unready.
Opened(d) == {c \in Cycles : state[c] = "open" /\ DeviceOf[c] = d}
Counted == \A d \in Devices : IsFiniteSet(Opened(d)) /\ unready[d] = Cardinality(Opened(d))

\* At first no cycle is open.
LEMMA CountedInit == Init => Counted
<1> SUFFICES ASSUME Init PROVE Counted
    OBVIOUS
<1>1. \A d \in Devices : Opened(d) = {} /\ unready[d] = 0
      BY DEF Init, Opened
<1>. QED BY <1>1, FS_EmptySet DEF Counted

\* unready goes up and down with the open cycles (eb_cycle_open, eb_cycle_close,
\* eb_cycle_abort).
LEMMA CountedNext == Shapes /\ HeldInv /\ Counted /\ [Next]_vars => Counted'
<1> SUFFICES ASSUME Shapes, HeldInv, Counted, [Next]_vars PROVE Counted'
    OBVIOUS
<1>0. /\ state \in [Cycles -> {"new", "open", "closed", "aborted", "gone"}]
      /\ unready \in [Devices -> Int] /\ todo \in Seq(Cycles) /\ SocketType
      /\ \A c \in Cycles : DeviceOf[c] \in Devices
      BY ConstantsAre DEF Shapes, AppType, LocalType
<1>1. ASSUME NEW c \in Cycles, state[c] # "open", state'[c] = "open",
             \A k \in Cycles : k # c => state'[k] = state[k],
             unready' = [unready EXCEPT ![DeviceOf[c]] = @ + 1]
      PROVE  Counted'
  <2> SUFFICES ASSUME NEW d \in Devices
               PROVE  IsFiniteSet(Opened(d)') /\ unready'[d] = Cardinality(Opened(d)')
      BY DEF Counted
  <2>1. IsFiniteSet(Opened(d)) /\ unready[d] = Cardinality(Opened(d))
        BY <1>0 DEF Counted
  <2>2. CASE DeviceOf[c] = d
    <3>1. Opened(d)' = Opened(d) \cup {c} /\ c \notin Opened(d)
          BY <1>1, <2>2 DEF Opened
    <3>2. IsFiniteSet(Opened(d)') /\ Cardinality(Opened(d)') = Cardinality(Opened(d)) + 1
          BY <2>1, <3>1, FS_AddElement
    <3>. QED BY <1>0, <1>1, <2>1, <2>2, <3>2
  <2>3. CASE DeviceOf[c] # d
    <3>1. Opened(d)' = Opened(d)
          BY <1>1, <2>3 DEF Opened
    <3>. QED BY <1>0, <1>1, <2>1, <2>3, <3>1
  <2>. QED BY <2>2, <2>3
<1>2. ASSUME NEW c \in Cycles, state[c] = "open", state'[c] # "open",
             \A k \in Cycles : k # c => state'[k] = state[k],
             unready' = [unready EXCEPT ![DeviceOf[c]] = @ - 1]
      PROVE  Counted'
  <2> SUFFICES ASSUME NEW d \in Devices
               PROVE  IsFiniteSet(Opened(d)') /\ unready'[d] = Cardinality(Opened(d)')
      BY DEF Counted
  <2>1. IsFiniteSet(Opened(d)) /\ unready[d] = Cardinality(Opened(d))
        BY <1>0 DEF Counted
  <2>2. CASE DeviceOf[c] = d
    <3>1. Opened(d)' = Opened(d) \ {c} /\ c \in Opened(d)
          BY <1>2, <2>2 DEF Opened
    <3>2. IsFiniteSet(Opened(d)') /\ Cardinality(Opened(d)') = Cardinality(Opened(d)) - 1
          BY <2>1, <3>1, FS_RemoveElement
    <3>. QED BY <1>0, <1>2, <2>1, <2>2, <3>2
  <2>3. CASE DeviceOf[c] # d
    <3>1. Opened(d)' = Opened(d)
          BY <1>2, <2>3 DEF Opened
    <3>. QED BY <1>0, <1>2, <2>1, <2>3, <3>1
  <2>. QED BY <2>2, <2>3
<1>3. ASSUME \A c \in Cycles : state'[c] = "open" <=> state[c] = "open", unready' = unready
      PROVE  Counted'
  <2> SUFFICES ASSUME NEW d \in Devices
               PROVE  IsFiniteSet(Opened(d)') /\ unready'[d] = Cardinality(Opened(d)')
      BY DEF Counted
  <2>1. Opened(d)' = Opened(d)
        BY <1>3 DEF Opened
  <2>. QED BY <1>3, <2>1 DEF Counted
\* A cycle that is called back was closed, not open.
<1>4. ASSUME NEW c \in Cycles, state[c] = "closed", NEW with, NEW where, Call(c, with, where), unready' = unready
      PROVE  Counted'
  <2>1. \A k \in Cycles : state'[k] = "open" <=> state[k] = "open"
        BY <1>0, <1>4 DEF Call
  <2>. QED BY <1>3, <1>4, <2>1
<1>5. \A c \in Range(todo) \cup Range(Line) : c \in Cycles /\ state[c] = "closed"
  <2>1. Line \in Seq(Cycles)
        BY <1>0, QueueIs
  <2>2. Range(todo) \subseteq Cycles /\ Range(Line) \subseteq Cycles
        BY <1>0, <2>1, RangeIs
  <2>. QED BY <2>2 DEF HeldInv, HeldAreClosed
<1>6. todo # <<>> => Head(todo) \in Range(todo)
      BY <1>0, HeadTailIs
<1>7. ASSUME NEW c \in Cycles, Open(c) PROVE Counted'
      BY <1>0, <1>1, <1>7 DEF Open
<1>8. ASSUME NEW c \in Cycles, Close(c) \/ Abort(c) PROVE Counted'
      BY <1>0, <1>2, <1>8 DEF Close, Abort
<1>9. CASE KillExpired
  <2>1. Line # <<>> /\ Head(first).cycle = Head(Line) /\ Line \in Seq(Cycles)
        BY <1>0, <1>9, KillsHead, QueueIs
  <2>2. Head(Line) \in Range(Line)
        BY <2>1, HeadTailIs
  <2>3. Call(Head(Line), "TIMEOUT", "kill") /\ unready' = unready
        BY <1>9, <2>1 DEF KillExpired, device
  <2>. QED BY <1>4, <1>5, <2>2, <2>3
<1>10. CASE Word
  <2>1. unready' = unready
        BY <1>10 DEF Word, device
  <2>2. CASE UNCHANGED <<state, pc, ret, calls, status>>
        BY <1>3, <2>1, <2>2
  <2>3. ASSUME NEW i \in DOMAIN Line, NEW with, Call(Line[i], with, "words") PROVE Counted'
    <3>1. Line[i] \in Range(Line)
          BY DEF Range
    <3>. QED BY <1>4, <1>5, <2>1, <2>3, <3>1
  <2>. QED BY <1>0, <1>10, <2>2, <2>3, WordTakes
<1>11. CASE FlushWrite \/ CloseCycle \/ \E fault \in {"OOM", "OVERFLOW", "WIDTH", "EMPTY"} : FlushRefuse(fault)
  <2>1. /\ todo # <<>> /\ unready' = unready
        /\ \E with : \E where : Call(Head(todo), with, where)
        BY <1>11 DEF FlushWrite, CloseCycle, FlushRefuse, device
  <2>. QED BY <1>4, <1>5, <1>6, <2>1
<1>12. CASE Return \/ KillDone \/ WordsDone \/ CheckDone \/ FlushNot \/ Flush \/ Send \/ FlushRead
            \/ FlushDone \/ CloseDone \/ Check \/ LinkDown \/ Tick \/ UNCHANGED vars
      BY <1>3, <1>12 DEF Return, KillDone, WordsDone, CheckDone, FlushNot, Flush, Send, FlushRead,
           FlushDone, CloseDone, Check, LinkDown, Tick, vars, device, hist
<1>13. ASSUME NEW d, CloseDevice(d) PROVE Counted'
      BY <1>3, <1>13 DEF CloseDevice, hist
<1>14. ASSUME NEW p, Receive(p) PROVE Counted'
      BY <1>3, <1>14 DEF Receive, device, hist
<1>15. ASSUME NEW r, NEW s, ReceiveBad(r, s) PROVE Counted'
      BY <1>3, <1>15 DEF ReceiveBad, device, hist
<1>. QED BY <1>7, <1>8, <1>9, <1>10, <1>11, <1>12, <1>13, <1>14, <1>15 DEF Next, Lib, App, Net

\* The inductive invariant of this module's safety theorems.
SafeInv == Shapes /\ HeldInv /\ Counted

\* The types, the lists and the count hold in every reachable state.
LEMMA SafeInvariant == Spec => []SafeInv
<1>1. Init => SafeInv
      BY ShapesInit, HeldInit, CountedInit DEF SafeInv
<1>2. SafeInv /\ [Next]_vars => SafeInv'
      BY ShapesNext, HeldNext, CountedNext DEF SafeInv
<1>. QED BY <1>1, <1>2, PTL DEF Spec

\* Every variable keeps its type, and unready never goes below 0: eb_device_close
\* refuses a device exactly while it has open cycles.
THEOREM TypeCorrect == Spec => []TypeOK
<1>1. SafeInv => TypeOK
  <2> SUFFICES ASSUME SafeInv PROVE TypeOK
      OBVIOUS
  <2>1. unready \in [Devices -> Nat]
    <3>1. \A d \in Devices : unready[d] \in Nat
          BY FS_CardinalityType DEF SafeInv, Counted
    <3>. QED BY <3>1 DEF SafeInv, Shapes, AppType
  <2>. QED BY <2>1 DEF SafeInv, Shapes, AppType, SocketType, LocalType, TypeOK
<1>. QED BY <1>1, SafeInvariant, PTL

\* In a list that holds none twice a cycle occurs once or not at all.
LEMMA OccursIs ==
  ASSUME NEW S, NEW s \in Seq(S), IsInjective(s), NEW c
  PROVE  Occurs(c, s) = IF c \in Range(s) THEN 1 ELSE 0
<1>1. CASE c \in Range(s)
  <2>1. PICK i \in DOMAIN s : s[i] = c
        BY <1>1 DEF Range
  <2>2. {k \in DOMAIN s : s[k] = c} = {i}
        BY <2>1 DEF IsInjective
  <2>. QED BY <1>1, <2>2, FS_Singleton DEF Occurs
<1>2. CASE c \notin Range(s)
  <2>1. {k \in DOMAIN s : s[k] = c} = {}
        BY <1>2 DEF Range
  <2>. QED BY <1>2, <2>1, FS_EmptySet DEF Occurs
<1>. QED BY <1>1, <1>2

\* The library holds a cycle once or not at all, and only a closed one.
LEMMA HeldIs ==
  ASSUME Shapes, HeldInv, NEW c \in Cycles
  PROVE  /\ Held(c) = IF c \in Range(ready[DeviceOf[c]]) \cup Range(todo) \cup Range(Line) THEN 1 ELSE 0
         /\ Held(c) # 0 => state[c] = "closed"
<1>. DEFINE r == ready[DeviceOf[c]]
<1>1. /\ r \in Seq(Cycles) /\ todo \in Seq(Cycles) /\ Line \in Seq(Cycles)
      /\ IsInjective(r) /\ IsInjective(todo) /\ IsInjective(Line) /\ DeviceOf[c] \in Devices
      BY ConstantsAre, QueueIs DEF Shapes, AppType, LocalType, HeldInv, NoneTwice
<1>2. /\ Range(r) \cap (Range(todo) \cup Range(Line)) = {} /\ Range(todo) \cap Range(Line) = {}
      /\ (c \in Range(r) \cup Range(todo) \cup Range(Line) => state[c] = "closed")
      BY <1>1 DEF HeldInv, Apart, HeldAreClosed
<1>3. Held(c) = Occurs(c, r) + Occurs(c, todo) + Occurs(c, Line)
      BY DEF Held, Line, LineOf
<1>. HIDE DEF r
<1>4. /\ Occurs(c, r) = IF c \in Range(r) THEN 1 ELSE 0
      /\ Occurs(c, todo) = IF c \in Range(todo) THEN 1 ELSE 0
      /\ Occurs(c, Line) = IF c \in Range(Line) THEN 1 ELSE 0
      BY <1>1, OccursIs
<1>5. Held(c) = IF c \in Range(r) \cup Range(todo) \cup Range(Line) THEN 1 ELSE 0
      BY <1>2, <1>3, <1>4
<1>. QED BY <1>2, <1>5 DEF r

\* No cycle is called back twice, none that was called back is still held, and
\* none is held in two places, whatever callbacks, answers, timeouts and closing
\* devices do in between and whatever callbacks close (eb_socket_check,
\* eb_device_flush, eb_device_close).
THEOREM CalledAtMostOnce == Spec => [](\A c \in Cycles : calls[c] + Held(c) \in {0, 1})
<1>1. SafeInv => \A c \in Cycles : calls[c] + Held(c) \in {0, 1}
  <2> SUFFICES ASSUME SafeInv, NEW c \in Cycles PROVE calls[c] + Held(c) \in {0, 1}
      OBVIOUS
  <2>1. Held(c) \in {0, 1} /\ (Held(c) # 0 => state[c] = "closed")
        BY HeldIs DEF SafeInv
  <2>2. calls[c] = IF state[c] = "gone" THEN 1 ELSE 0
        BY DEF SafeInv, HeldInv, CountsCalls
  <2>. QED BY <2>1, <2>2
<1>. QED BY <1>1, SafeInvariant, PTL

\* etherbone.h: "Your callback will be called exactly once".  It is, or will be, if
\* callbacks that the flush of a device runs close no cycle of that device:
\* eb_device_flush empties the ready list when it is done.
THEOREM EachIsCalledBackOnce ==
  ASSUME ~CloseInFlush
  PROVE  Spec => []CalledBackOnce
<1>1. Init => KeptInv
      BY KeptInit
<1>2. SafeInv /\ KeptInv /\ [Next]_vars => KeptInv'
      BY KeptNext DEF SafeInv
<1>3. SafeInv /\ KeptInv => CalledBackOnce
  <2> SUFFICES ASSUME SafeInv, KeptInv, NEW c \in Cycles
               PROVE  calls[c] + Held(c) = IF state[c] \in {"closed", "gone"} THEN 1 ELSE 0
      BY DEF CalledBackOnce
  <2>1. /\ Held(c) = IF c \in Range(ready[DeviceOf[c]]) \cup Range(todo) \cup Range(Line) THEN 1 ELSE 0
        /\ Held(c) # 0 => state[c] = "closed"
        BY HeldIs DEF SafeInv
  <2>2. calls[c] = IF state[c] = "gone" THEN 1 ELSE 0
        BY DEF SafeInv, HeldInv, CountsCalls
  <2>3. state[c] = "closed" => c \in Range(ready[DeviceOf[c]]) \cup Range(todo) \cup Range(Line)
        BY DEF KeptInv, NoneLost
  <2>. QED BY <2>1, <2>2, <2>3
<1>. QED BY <1>1, <1>2, <1>3, SafeInvariant, PTL DEF Spec

-----------------------------------------------------------------------------
(* The abstract queue.                                                     *)

\* What the abstract queue sees: those that leave, and the outcomes.
Closing == pc = "close" \/ (pc = "callback" /\ ret = "close")
Leaving == IF Closing THEN Keep(todo, Claimed) ELSE <<>>
Outcome == [c \in Cycles |-> IF c \in Claimed THEN status[c] ELSE "none"]

\* Those that claimed an address are the ones queued, leaving or gone, and only
\* those that are gone have a status.
ClaimInv ==
  /\ \A c \in Cycles : state[c] # "gone" => status[c] = "none"
  /\ Range(Line) \subseteq Claimed
  /\ \A c \in Claimed : state[c] = "gone" \/ c \in Range(Line) \/ (Closing /\ c \in Range(todo))

\* Claimed, for any list of claims.
Claimants(s) == {s[i].cycle : i \in DOMAIN s}

\* The cycles that claimed an address, after one more did.
LEMMA ClaimedIs ==
  ASSUME NEW s \in Seq([cycle : Cycles, at : Nat]), NEW x \in [cycle : Cycles, at : Nat]
  PROVE  /\ Claimants(s) \subseteq Cycles
         /\ Claimants(Append(s, x)) = Claimants(s) \cup {x.cycle}
<1>1. Len(s) \in Nat /\ DOMAIN s = 1 .. Len(s) /\ \A i \in 1 .. Len(s) : s[i] \in [cycle : Cycles, at : Nat]
      BY LenProperties
<1>2. /\ Append(s, x) \in Seq([cycle : Cycles, at : Nat]) /\ Len(Append(s, x)) = Len(s) + 1
      /\ \A i \in 1 .. Len(s) + 1 : Append(s, x)[i] = IF i <= Len(s) THEN s[i] ELSE x
      BY AppendIs
<1>3. DOMAIN Append(s, x) = 1 .. Len(s) + 1
      BY <1>2, LenProperties
<1>4. Claimants(s) \subseteq Cycles
      BY <1>1 DEF Claimants
<1>5. \A i \in 1 .. Len(s) + 1 : i \in 1 .. Len(s) \/ (i = Len(s) + 1 /\ ~(i <= Len(s)))
      BY <1>1
<1>6. \A i \in 1 .. Len(s) : i \in 1 .. Len(s) + 1 /\ i <= Len(s)
      BY <1>1
<1>7. Len(s) + 1 \in 1 .. Len(s) + 1
      BY <1>1
<1>8. \A c : c \in Claimants(Append(s, x)) <=> \E i \in 1 .. Len(s) + 1 : Append(s, x)[i].cycle = c
      BY <1>3 DEF Claimants
<1>9. \A c : c \in Claimants(s) <=> \E i \in 1 .. Len(s) : s[i].cycle = c
      BY <1>1 DEF Claimants
<1>10. ASSUME NEW c \in Claimants(Append(s, x)) PROVE c \in Claimants(s) \/ c = x.cycle
  <2>1. PICK i \in 1 .. Len(s) + 1 : Append(s, x)[i].cycle = c
        BY <1>8
  <2>. QED BY <1>2, <1>5, <1>9, <2>1
<1>11. x.cycle \in Claimants(Append(s, x)) /\ \A c \in Claimants(s) : c \in Claimants(Append(s, x))
      BY <1>2, <1>5, <1>6, <1>7, <1>8, <1>9, <1>1
<1>. QED BY <1>4, <1>10, <1>11

\* eb_device_flush claims an address for the cycle it sends.
LEMMA ClaimAppends ==
  ASSUME NEW c \in Cycles, claims \in Seq([cycle : Cycles, at : Nat]), timeCache \in Nat,
         claims' = Append(claims, [cycle |-> c, at |-> timeCache])
  PROVE  Claimed' = Claimed \cup {c}
<1>. DEFINE x == [cycle |-> c, at |-> timeCache]
<1>1. x \in [cycle : Cycles, at : Nat] /\ x.cycle = c /\ claims' = Append(claims, x)
      OBVIOUS
<1>2. Claimed = Claimants(claims) /\ Claimed' = Claimants(claims')
      BY DEF Claimed, Claimants
<1>. HIDE DEF x
<1>3. Claimants(Append(claims, x)) = Claimants(claims) \cup {x.cycle}
      BY <1>1, ClaimedIs
<1>. QED BY <1>1, <1>2, <1>3

\* At first nothing is queued and no address was claimed.
LEMMA ClaimInit == Init => ClaimInv /\ Line = <<>> /\ Claimed = {}
<1> SUFFICES ASSUME Init PROVE ClaimInv /\ Line = <<>> /\ Claimed = {}
    OBVIOUS
<1>1. Line = <<>>
  <2>1. <<>> \in Seq(Response) /\ Queue = <<>>
        BY JoinNone, EmptySeq DEF Queue, Init
  <2>. QED BY <2>1, LineIs DEF Line
<1>2. Claimed = {}
      BY EmptyIs DEF Init, Claimed
<1>. QED BY <1>1, <1>2, EmptyIs DEF Init, ClaimInv

\* When nothing is closing, no cycle that waits to be sent has claimed an address.
LEMMA UnclaimedIs ==
  ASSUME HeldInv, ClaimInv
  PROVE  /\ \A d \in Devices : Range(ready[d]) \cap Claimed = {}
         /\ ~Closing => Range(todo) \cap Claimed = {}
         /\ \A c \in Claimed : state[c] \in {"closed", "gone"}
BY DEF HeldInv, HeldAreClosed, Apart, ClaimInv

\* Each step keeps ClaimInv: a cycle that claimed an address stays queued until
\* it is called back, or leaves with its device.
LEMMA ClaimNext == Shapes /\ HeldInv /\ ClaimInv /\ [Next]_vars => ClaimInv'
<1> SUFFICES ASSUME Shapes, HeldInv, ClaimInv, [Next]_vars PROVE ClaimInv'
    OBVIOUS
<1>1. /\ todo \in Seq(Cycles) /\ dev \in Devices /\ devs \in Seq(Devices) /\ SocketType
      /\ ready \in [Devices -> Seq(Cycles)] /\ Line \in Seq(Cycles)
      /\ state \in [Cycles -> {"new", "open", "closed", "aborted", "gone"}]
      /\ status \in [Cycles -> Status] /\ claims \in Seq([cycle : Cycles, at : Nat])
      BY QueueIs DEF Shapes, LocalType, AppType, SocketType
<1>0. Claimed \subseteq Cycles
  <2>1. \A i \in DOMAIN claims : claims[i] \in [cycle : Cycles, at : Nat]
    <3>1. claims \in Seq([cycle : Cycles, at : Nat])
          BY <1>1
    <3>2. DOMAIN claims = 1 .. Len(claims)
          BY <3>1, LenProperties
    <3>. QED BY <3>1, <3>2, ElementOfSeq
  <2>. QED BY <2>1 DEF Claimed
<1>2. first' = first /\ last' = last => Line' = Line
      BY DEF Line, Queue
<1>3. claims' = claims => Claimed' = Claimed
      BY DEF Claimed
<1>4. todo # <<>> => InLoop("flush") \/ Closing
      BY DEF HeldInv, TodoInLoop, InLoop, Closing
<1>5. ASSUME Line' = Line, UNCHANGED <<todo, claims, status>>,
             \A c \in Cycles : state[c] = "gone" <=> state'[c] = "gone",
             Closing => Closing' \/ todo = <<>>
      PROVE  ClaimInv'
  <2>1. Claimed' = Claimed /\ Claimed \subseteq Cycles
        BY <1>0, <1>3, <1>5
  <2>. QED BY <1>5, <2>1, EmptyIs DEF ClaimInv
\* A cycle that is called back is the only one to leave its place.
<1>6. ASSUME NEW c \in Cycles, NEW with, NEW where, Call(c, with, where), claims' = claims,
             Range(todo) \subseteq Range(todo') \cup {c},
             Range(Line) \subseteq Range(Line') \cup {c}, Range(Line') \subseteq Range(Line),
             Closing => where = "close"
      PROVE  ClaimInv'
  <2>1. /\ state'[c] = "gone" /\ \A k \in Cycles : k # c => state'[k] = state[k] /\ status'[k] = status[k]
        /\ Claimed' = Claimed /\ Claimed \subseteq Cycles
        BY <1>0, <1>1, <1>3, <1>6 DEF Call
  <2>2. Closing => Closing'
        BY <1>6 DEF Call, Closing
  <2>. QED BY <1>6, <2>1, <2>2 DEF ClaimInv
<1>7. todo # <<>> => Head(todo) \in Cycles /\ Range(todo) = {Head(todo)} \cup Range(Tail(todo))
      BY <1>1, HeadTailIs
<1>8. CASE KillExpired
  <2>1. /\ Line # <<>> /\ Line' = Tail(Line) /\ Call(Head(Line), "TIMEOUT", "kill")
        /\ UNCHANGED <<todo, claims>> /\ ~Closing
        BY <1>1, <1>8, KillsHead DEF KillExpired, locals, Closing
  <2>2. Head(Line) \in Cycles /\ Range(Line) = {Head(Line)} \cup Range(Tail(Line))
        BY <1>1, <2>1, HeadTailIs
  <2>. QED BY <1>6, <2>1, <2>2
<1>9. CASE Word
  <2>1. UNCHANGED <<todo, claims>> /\ ~Closing
        BY <1>9 DEF Word, Closing
  <2>2. CASE Line' = Line /\ UNCHANGED <<state, pc, ret, calls, status>>
        BY <1>5, <2>1, <2>2
  <2>3. ASSUME NEW i \in DOMAIN Line, NEW with, Line' = RemoveAt(Line, i), Call(Line[i], with, "words")
        PROVE  ClaimInv'
    <3>1. Range(Line) = {Line[i]} \cup Range(RemoveAt(Line, i)) /\ Line[i] \in Cycles
          BY <1>1, RemoveAtRange, LenProperties
    <3>. QED BY <1>6, <2>1, <2>3, <3>1
  <2>. QED BY <1>1, <1>9, <2>2, <2>3, WordTakes
<1>10. CASE FlushWrite \/ \E fault \in {"OOM", "OVERFLOW", "WIDTH", "EMPTY"} : FlushRefuse(fault)
  <2>1. /\ todo # <<>> /\ todo' = Tail(todo) /\ claims' = claims /\ Line' = Line /\ ~Closing
        /\ \E with : Call(Head(todo), with, "flush")
        BY <1>2, <1>10 DEF FlushWrite, FlushRefuse, socket, Closing
  <2>. QED BY <1>6, <1>7, <2>1
<1>11. CASE CloseCycle
  <2>1. /\ todo # <<>> /\ todo' = Tail(todo) /\ claims' = claims /\ Line' = Line
        /\ Call(Head(todo), "TIMEOUT", "close")
        BY <1>2, <1>11 DEF CloseCycle, socket
  <2>. QED BY <1>6, <1>7, <2>1
<1>12. CASE FlushRead
  <2>1. /\ todo # <<>> /\ UNCHANGED <<state, status, pc, ret>> /\ ~Closing
        /\ claims' = Append(claims, [cycle |-> Head(todo), at |-> timeCache])
        BY <1>12 DEF FlushRead, Closing
  <2>2. Line' = Append(Line, Head(todo))
        BY <1>1, <1>7, <1>12, <2>1, ReadJoins
  <2>3. Range(Line') = Range(Line) \cup {Head(todo)}
        BY <1>1, <1>7, <2>1, <2>2, AppendIs
  <2>4. Claimed' = Claimed \cup {Head(todo)}
        BY <1>1, <1>7, <2>1, ClaimAppends DEF SocketType
  <2>. QED BY <2>1, <2>3, <2>4 DEF ClaimInv
<1>13. CASE Flush
  <2>1. /\ todo = <<>> /\ UNCHANGED <<state, status, claims>> /\ Line' = Line /\ ~Closing
        BY <1>2, <1>4, <1>13 DEF Flush, socket, hist, InLoop, Closing
  <2>2. Claimed' = Claimed
        BY <1>3, <2>1
  <2>. QED BY <2>1, <2>2 DEF ClaimInv
<1>14. ASSUME NEW d \in Devices, CloseDevice(d) PROVE ClaimInv'
  <2>1. /\ todo = <<>> /\ pc' = "close" /\ UNCHANGED <<state, status, claims>>
        BY <1>4, <1>14 DEF CloseDevice, hist, InLoop, Closing
  <2>2. Line' = Keep(Line, Cycles \ Of(d)) /\ todo' = Keep(Line, Of(d)) \o Reverse(ready[d])
        BY <1>1, <1>14, CloseParts
  <2>3. /\ Range(Line') = Range(Line) \cap (Cycles \ Of(d))
        /\ Keep(Line, Of(d)) \in Seq(Cycles) /\ Range(Keep(Line, Of(d))) = Range(Line) \cap Of(d)
        BY <1>1, <2>2, KeepIs
  <2>4. Reverse(ready[d]) \in Seq(Cycles)
        BY <1>1, ReverseIs
  <2>5. Range(Keep(Line, Of(d))) \subseteq Range(todo')
        BY <2>2, <2>3, <2>4, ConcatIs
  <2>6. Claimed' = Claimed /\ Closing' /\ Range(Line) \subseteq Cycles
        BY <1>1, <1>3, <2>1, RangeIs DEF Closing
  <2>. QED BY <2>1, <2>3, <2>5, <2>6, EmptyIs DEF ClaimInv
<1>15. CASE CheckDone
  <2>1. Line' = Line
        BY <1>1, <1>15, FlipKeepsQueue DEF Line
  <2>. QED BY <1>5, <1>15, <2>1 DEF CheckDone, locals, hist, Closing
<1>16. ASSUME NEW c \in Cycles, Open(c) \/ Close(c) \/ Abort(c) PROVE ClaimInv'
  <2>1. /\ UNCHANGED <<todo, claims, status, pc, ret>> /\ Line' = Line
        /\ \A k \in Cycles : state[k] = "gone" <=> state'[k] = "gone"
        BY <1>1, <1>2, <1>16 DEF Open, Close, Abort, socket, locals, hist
  <2>. QED BY <1>5, <2>1 DEF Closing
<1>17. CASE Return \/ CloseDone
  <2>1. /\ UNCHANGED <<todo, claims, status, state>> /\ Line' = Line
        /\ (Closing => Closing' \/ todo = <<>>)
        BY <1>2, <1>17 DEF Return, CloseDone, socket, locals, hist, Closing
  <2>. QED BY <1>5, <2>1
<1>18. CASE Check \/ KillDone \/ WordsDone \/ FlushNot \/ Send \/ FlushDone \/ LinkDown \/ Tick \/ UNCHANGED vars
  <2>1. /\ UNCHANGED <<todo, claims, status, state>> /\ Line' = Line /\ (Closing => Closing')
        BY <1>2, <1>18 DEF Check, KillDone, WordsDone, FlushNot, Send, FlushDone, LinkDown, Tick, vars,
             socket, locals, hist, Closing
  <2>. QED BY <1>5, <2>1
<1>19. ASSUME NEW p, Receive(p) PROVE ClaimInv'
      BY <1>2, <1>5, <1>19 DEF Receive, hist, socket, Closing
<1>20. ASSUME NEW r, NEW s, ReceiveBad(r, s) PROVE ClaimInv'
      BY <1>2, <1>5, <1>20 DEF ReceiveBad, hist, socket, Closing
<1>. QED BY <1>8, <1>9, <1>10, <1>11, <1>12, <1>13, <1>14, <1>15, <1>16, <1>17, <1>18, <1>19, <1>20
         DEF Next, Lib, App, Net

\* The actions of the abstract queue, in terms of Line, Leaving and Outcome.
LEMMA AbstractIs ==
  /\ Abstract!QInit <=> Line = <<>> /\ Leaving = <<>> /\ Outcome = [c \in Cycles |-> "none"]
  /\ \A e : Abstract!Join(e) <=>
       /\ Outcome[e] = "none" /\ e \notin Range(Line) \cup Range(Leaving)
       /\ Line' = Append(Line, e) /\ UNCHANGED <<Leaving, Outcome>>
  /\ Abstract!GiveUp <=>
       /\ Line # <<>> /\ Outcome[Head(Line)] = "none"
       /\ Outcome' = [Outcome EXCEPT ![Head(Line)] = "TIMEOUT"]
       /\ Line' = Tail(Line) /\ UNCHANGED Leaving
  /\ \A i : Abstract!Answer(i) <=>
       /\ \E o \in {"OK", "FAIL"} : Outcome[Line[i]] = "none" /\ Outcome' = [Outcome EXCEPT ![Line[i]] = o]
       /\ Line' = RemoveAt(Line, i) /\ UNCHANGED Leaving
  /\ \A w : Abstract!Leave(w) <=>
       /\ Leaving = <<>>
       /\ Leaving' = Select(Line, {i \in DOMAIN Line : DeviceOf[Line[i]] = w})
       /\ Line' = Select(Line, {i \in DOMAIN Line : DeviceOf[Line[i]] # w})
       /\ UNCHANGED Outcome
  /\ Abstract!Left <=>
       /\ Leaving # <<>> /\ Outcome[Head(Leaving)] = "none"
       /\ Outcome' = [Outcome EXCEPT ![Head(Leaving)] = "TIMEOUT"]
       /\ Leaving' = Tail(Leaving) /\ UNCHANGED Line
<1>1. Abstract!QInit <=> Line = <<>> /\ Leaving = <<>> /\ Outcome = [c \in Cycles |-> "none"]
      BY DEF Abstract!QInit, Line, LineOf, Leaving, Closing, Outcome, Keep
<1>2. \A e : Abstract!Join(e) <=>
       /\ Outcome[e] = "none" /\ e \notin Range(Line) \cup Range(Leaving)
       /\ Line' = Append(Line, e) /\ UNCHANGED <<Leaving, Outcome>>
      BY DEF Abstract!Join, Line, LineOf, Leaving, Closing, Outcome, Keep, Range, Abstract!Range
<1>3. Abstract!GiveUp <=>
       /\ Line # <<>> /\ Outcome[Head(Line)] = "none"
       /\ Outcome' = [Outcome EXCEPT ![Head(Line)] = "TIMEOUT"]
       /\ Line' = Tail(Line) /\ UNCHANGED Leaving
      BY DEF Abstract!GiveUp, Abstract!Settle, Line, LineOf, Leaving, Closing, Outcome, Keep
<1>4. \A i : Abstract!Answer(i) <=>
       /\ \E o \in {"OK", "FAIL"} : Outcome[Line[i]] = "none" /\ Outcome' = [Outcome EXCEPT ![Line[i]] = o]
       /\ Line' = RemoveAt(Line, i) /\ UNCHANGED Leaving
      BY DEF Abstract!Answer, Abstract!Settle, Line, LineOf, Leaving, Closing, Outcome, Keep, RemoveAt,
             Abstract!RemoveAt
<1>5. \A w : Abstract!Leave(w) <=>
       /\ Leaving = <<>>
       /\ Leaving' = Select(Line, {i \in DOMAIN Line : DeviceOf[Line[i]] = w})
       /\ Line' = Select(Line, {i \in DOMAIN Line : DeviceOf[Line[i]] # w})
       /\ UNCHANGED Outcome
  <2>1. \A q, K : Abstract!Select(q, K) = Select(q, K)
    <3> SUFFICES ASSUME NEW q, NEW K PROVE Abstract!Select(q, K) = Select(q, K)
        OBVIOUS
    <3>1. \A j : Abstract!Nth(K, j) = Nth(K, j)
          BY DEF Abstract!Nth, Nth, Abstract!Cardinality, Cardinality
    <3>2. Abstract!Cardinality(K) = Cardinality(K)
          BY DEF Abstract!Cardinality, Cardinality
    <3>. QED BY <3>1, <3>2 DEF Abstract!Select, Select
  <2>2. \A w : Abstract!Leave(w) <=>
          /\ Leaving = <<>>
          /\ Leaving' = Abstract!Select(Line, {i \in DOMAIN Line : DeviceOf[Line[i]] = w})
          /\ Line' = Abstract!Select(Line, {i \in DOMAIN Line : DeviceOf[Line[i]] # w})
          /\ UNCHANGED Outcome
        BY DEF Abstract!Leave, Line, LineOf, Leaving, Closing, Outcome, Keep
  <2>. QED BY <2>1, <2>2
<1>6. Abstract!Left <=>
       /\ Leaving # <<>> /\ Outcome[Head(Leaving)] = "none"
       /\ Outcome' = [Outcome EXCEPT ![Head(Leaving)] = "TIMEOUT"]
       /\ Leaving' = Tail(Leaving) /\ UNCHANGED Line
      BY DEF Abstract!Left, Abstract!Settle, Line, LineOf, Leaving, Closing, Outcome, Keep
<1>. QED BY <1>1, <1>2, <1>3, <1>4, <1>5, <1>6

\* Each step of the socket is one of the abstract queue or leaves it alone.
LEMMA QueueStep ==
  Shapes /\ HeldInv /\ ClaimInv /\ [Next]_vars
    => Abstract!QNext \/ UNCHANGED <<Line, Leaving, Outcome>>
<1> SUFFICES ASSUME Shapes, HeldInv, ClaimInv, [Next]_vars
             PROVE  Abstract!QNext \/ UNCHANGED <<Line, Leaving, Outcome>>
    OBVIOUS
<1>1. /\ todo \in Seq(Cycles) /\ SocketType /\ Line \in Seq(Cycles)
      /\ ready \in [Devices -> Seq(Cycles)]
      /\ state \in [Cycles -> {"new", "open", "closed", "aborted", "gone"}]
      /\ status \in [Cycles -> Status] /\ claims \in Seq([cycle : Cycles, at : Nat])
      BY QueueIs DEF Shapes, LocalType, AppType, SocketType
<1>2. first' = first /\ last' = last => Line' = Line
      BY DEF Line, Queue
<1>3. claims' = claims => Claimed' = Claimed
      BY DEF Claimed
<1>4. todo # <<>> => InLoop("flush") \/ Closing
      BY DEF HeldInv, TodoInLoop, InLoop, Closing
<1>5. /\ \A c \in Range(Line) \cup Range(todo) : state[c] = "closed"
      /\ \A d \in Devices : \A c \in Range(ready[d]) : state[c] = "closed"
      BY DEF HeldInv, HeldAreClosed
<1>6. \A c \in Cycles : state[c] = "closed" => Outcome[c] = "none"
      BY DEF ClaimInv, Outcome
<1>7. /\ (\E e \in Cycles : Abstract!Join(e)) => Abstract!QNext
      /\ Abstract!GiveUp => Abstract!QNext
      /\ (\E i \in DOMAIN Line : Abstract!Answer(i)) => Abstract!QNext
      /\ (\E w \in Range(DeviceOf) : Abstract!Leave(w)) => Abstract!QNext
      /\ Abstract!Left => Abstract!QNext
      BY DEF Abstract!QNext, Line, LineOf, Range, Abstract!Range
<1>8. ~Closing => Leaving = <<>>
      BY DEF Leaving
<1>9. ASSUME UNCHANGED <<claims, status>> PROVE Outcome' = Outcome /\ Claimed' = Claimed
      BY <1>3, <1>9 DEF Outcome
<1>10. ASSUME UNCHANGED <<todo, claims>>, Closing' <=> Closing PROVE Leaving' = Leaving
      BY <1>3, <1>10 DEF Leaving, Keep
\* A cycle that is called back has an outcome if it claimed an address.
<1>11. ASSUME NEW c \in Cycles, NEW with, NEW where, Call(c, with, where), claims' = claims
      PROVE  /\ c \in Claimed => Outcome' = [Outcome EXCEPT ![c] = with]
             /\ c \notin Claimed => Outcome' = Outcome
             /\ Claimed' = Claimed /\ pc' = "callback" /\ ret' = where
  <2>1. Claimed' = Claimed /\ status' = [status EXCEPT ![c] = with]
        BY <1>3, <1>11 DEF Call
  <2>. QED BY <1>1, <1>11, <2>1 DEF Outcome, Call
<1>12. CASE KillExpired
  <2>1. /\ Line # <<>> /\ Line' = Tail(Line) /\ Call(Head(Line), "TIMEOUT", "kill")
        /\ UNCHANGED <<todo, claims>> /\ ~Closing
        BY <1>1, <1>12, KillsHead DEF KillExpired, locals, Closing
  <2>2. Head(Line) \in Cycles /\ Head(Line) \in Range(Line)
        BY <1>1, <2>1, HeadTailIs
  <2>3. Outcome[Head(Line)] = "none" /\ Head(Line) \in Claimed
        BY <1>5, <1>6, <2>2 DEF ClaimInv
  <2>4. Outcome' = [Outcome EXCEPT ![Head(Line)] = "TIMEOUT"] /\ ~Closing'
        BY <1>11, <2>1, <2>2, <2>3 DEF Closing
  <2>5. Leaving' = Leaving
        BY <1>10, <2>1, <2>4
  <2>6. Abstract!GiveUp
        BY <2>1, <2>3, <2>4, <2>5, AbstractIs
  <2>. QED BY <1>7, <2>6
<1>13. CASE Word
  <2>1. UNCHANGED <<todo, claims>> /\ ~Closing
        BY <1>13 DEF Word, Closing
  <2>2. CASE Line' = Line /\ UNCHANGED <<state, pc, ret, calls, status>>
    <3>1. Closing' <=> Closing
          BY <2>2 DEF Closing
    <3>. QED BY <1>9, <1>10, <2>1, <2>2, <3>1
  <2>3. ASSUME NEW i \in DOMAIN Line, NEW with \in {"OK", "FAIL"},
               Line' = RemoveAt(Line, i), Call(Line[i], with, "words")
        PROVE  Abstract!QNext
    <3>1. Line[i] \in Cycles /\ Line[i] \in Range(Line)
          BY <1>1, RemoveAtRange, LenProperties
    <3>2. Outcome[Line[i]] = "none" /\ Line[i] \in Claimed
          BY <1>5, <1>6, <3>1 DEF ClaimInv
    <3>3. Outcome' = [Outcome EXCEPT ![Line[i]] = with] /\ ~Closing'
          BY <1>11, <2>1, <2>3, <3>1, <3>2 DEF Closing
    <3>4. Leaving' = Leaving
          BY <1>10, <2>1, <3>3
    <3>5. Abstract!Answer(i)
          BY <2>3, <3>2, <3>3, <3>4, AbstractIs
    <3>. QED BY <1>7, <3>5
  <2>. QED BY <1>1, <1>13, <2>2, <2>3, WordTakes
<1>14. CASE FlushWrite \/ \E fault \in {"OOM", "OVERFLOW", "WIDTH", "EMPTY"} : FlushRefuse(fault)
  <2>1. /\ todo # <<>> /\ claims' = claims /\ Line' = Line /\ ~Closing
        /\ \E with : Call(Head(todo), with, "flush")
        BY <1>2, <1>14 DEF FlushWrite, FlushRefuse, socket, Closing
  <2>2. Head(todo) \in Cycles /\ Head(todo) \in Range(todo)
        BY <1>1, <2>1, HeadTailIs
  <2>3. Head(todo) \notin Claimed
        BY <2>1, <2>2, UnclaimedIs
  <2>4. Outcome' = Outcome /\ ~Closing'
        BY <1>11, <2>1, <2>2, <2>3 DEF Closing
  <2>5. Leaving = <<>> /\ Leaving' = <<>>
        BY <2>1, <2>4 DEF Leaving
  <2>. QED BY <2>1, <2>4, <2>5
<1>15. CASE FlushRead
  <2>1. /\ todo # <<>> /\ UNCHANGED <<state, status, pc, ret>> /\ ~Closing /\ ~Closing'
        /\ claims' = Append(claims, [cycle |-> Head(todo), at |-> timeCache])
        BY <1>15 DEF FlushRead, Closing
  <2>2. Head(todo) \in Cycles /\ Head(todo) \in Range(todo)
        BY <1>1, <2>1, HeadTailIs
  <2>3. Line' = Append(Line, Head(todo))
        BY <1>1, <1>15, <2>2, ReadJoins
  <2>4. Claimed' = Claimed \cup {Head(todo)}
        BY <1>1, <2>1, <2>2, ClaimAppends DEF SocketType
  <2>5. Outcome[Head(todo)] = "none" /\ Head(todo) \notin Range(Line)
        BY <1>5, <1>6, <2>2 DEF HeldInv, Apart
  <2>6. status[Head(todo)] = "none"
        BY <1>5, <2>2 DEF ClaimInv
  <2>7. Outcome' = Outcome
        BY <2>1, <2>4, <2>6 DEF Outcome
  <2>8. Leaving = <<>> /\ Leaving' = <<>>
        BY <2>1 DEF Leaving
  <2>9. PICK c \in Cycles : c = Head(todo)
        BY <2>2
  <2>10. Abstract!Join(c)
    <3>1. \A e : Abstract!Join(e) <=>
            /\ Outcome[e] = "none" /\ e \notin Range(Line) \cup Range(Leaving)
            /\ Line' = Append(Line, e) /\ UNCHANGED <<Leaving, Outcome>>
          BY AbstractIs
    <3>2. Range(Leaving) = {}
          BY <2>8, EmptyIs
    <3>. QED BY <2>3, <2>5, <2>7, <2>8, <2>9, <3>1, <3>2
  <2>. QED BY <1>7, <2>10
<1>16. CASE Flush
  <2>1. /\ ~Closing /\ ~Closing' /\ UNCHANGED <<status, claims>> /\ Line' = Line
        BY <1>2, <1>16 DEF Flush, socket, hist, Closing
  <2>2. Leaving = <<>> /\ Leaving' = <<>>
        BY <2>1 DEF Leaving
  <2>. QED BY <1>9, <2>1, <2>2
<1>17. ASSUME NEW d \in Devices, CloseDevice(d)
      PROVE  Abstract!QNext \/ UNCHANGED <<Line, Leaving, Outcome>>
  <2>1. ~Closing /\ Closing' /\ UNCHANGED <<status, claims>>
        BY <1>17 DEF CloseDevice, hist, Closing
  <2>2. Line' = Keep(Line, Cycles \ Of(d)) /\ todo' = Keep(Line, Of(d)) \o Reverse(ready[d])
        BY <1>1, <1>17, CloseParts
  <2>3. Outcome' = Outcome /\ Claimed' = Claimed
        BY <1>9, <2>1
  <2>4. Leaving = <<>> /\ Leaving' = Keep(todo', Claimed)
        BY <2>1, <2>3 DEF Leaving, Keep
  <2>5. ready[d] \in Seq(Cycles) /\ Range(ready[d]) \cap Claimed = {}
        BY <1>1, UnclaimedIs
  <2>6. /\ Reverse(ready[d]) \in Seq(Cycles) /\ Range(Reverse(ready[d])) = Range(ready[d])
        /\ Keep(Line, Of(d)) \in Seq(Cycles) /\ Range(Keep(Line, Of(d))) = Range(Line) \cap Of(d)
        BY <1>1, <2>5, ReverseIs, KeepIs
  <2>7. Keep(Keep(Line, Of(d)), Claimed) = Keep(Line, Of(d))
    <3>1. Range(Keep(Line, Of(d))) \subseteq Claimed
          BY <2>6 DEF ClaimInv
    <3>. QED BY <2>6, <3>1, KeepAll
  <2>8. Keep(Reverse(ready[d]), Claimed) = <<>>
        BY <2>5, <2>6, KeepAll
  <2>9. Leaving' = Keep(Line, Of(d))
    <3>1. Keep(Keep(Line, Of(d)) \o Reverse(ready[d]), Claimed)
            = Keep(Keep(Line, Of(d)), Claimed) \o Keep(Reverse(ready[d]), Claimed)
          BY <2>6, KeepConcat
    <3>2. Keep(Line, Of(d)) \o <<>> = Keep(Line, Of(d))
          BY <2>6, ConcatEmptySeq
    <3>. QED BY <2>2, <2>4, <2>7, <2>8, <3>1, <3>2
  <2>10. /\ Select(Line, {i \in DOMAIN Line : DeviceOf[Line[i]] = d}) = Keep(Line, Of(d))
         /\ Select(Line, {i \in DOMAIN Line : DeviceOf[Line[i]] # d}) = Keep(Line, Cycles \ Of(d))
    <3>1. \A i \in DOMAIN Line : Line[i] \in Cycles
          BY <1>1, LenProperties
    <3>2. {i \in DOMAIN Line : DeviceOf[Line[i]] = d} = {i \in DOMAIN Line : Line[i] \in Of(d)}
          BY <3>1 DEF Of
    <3>3. {i \in DOMAIN Line : DeviceOf[Line[i]] # d} = {i \in DOMAIN Line : Line[i] \in Cycles \ Of(d)}
          BY <3>1 DEF Of
    <3>. QED BY <3>2, <3>3 DEF Keep
  <2>11. Abstract!Leave(d)
    <3>1. Abstract!Leave(d) <=>
            /\ Leaving = <<>>
            /\ Leaving' = Select(Line, {i \in DOMAIN Line : DeviceOf[Line[i]] = d})
            /\ Line' = Select(Line, {i \in DOMAIN Line : DeviceOf[Line[i]] # d})
            /\ UNCHANGED Outcome
          BY AbstractIs
    <3>. QED BY <2>2, <2>3, <2>4, <2>9, <2>10, <3>1
  <2>12. CASE d \in Range(DeviceOf)
        BY <1>7, <2>11, <2>12
  <2>13. CASE d \notin Range(DeviceOf)
    <3>1. Of(d) = {}
          BY <2>13, EbAssumption DEF Of, Range, EbAssumption
    <3>2. Keep(Line, Of(d)) = <<>> /\ Keep(Line, Cycles \ Of(d)) = Line
      <4>1. Range(Line) \cap Of(d) = {} /\ Range(Line) \subseteq Cycles \ Of(d)
            BY <1>1, <3>1, RangeIs
      <4>. QED BY <1>1, <4>1, KeepAll
    <3>. QED BY <2>2, <2>3, <2>4, <2>9, <3>2
  <2>. QED BY <2>12, <2>13
<1>18. CASE CloseCycle
  <2>1. /\ todo # <<>> /\ todo' = Tail(todo) /\ claims' = claims /\ Line' = Line
        /\ Call(Head(todo), "TIMEOUT", "close") /\ Closing
        BY <1>2, <1>18 DEF CloseCycle, socket, Closing
  <2>2. Head(todo) \in Cycles /\ Head(todo) \in Range(todo)
        BY <1>1, <2>1, HeadTailIs
  <2>3. Claimed' = Claimed /\ Closing'
        BY <1>11, <2>1, <2>2 DEF Closing
  <2>4. Leaving = Keep(todo, Claimed) /\ Leaving' = Keep(Tail(todo), Claimed)
        BY <2>1, <2>3 DEF Leaving, Keep
  <2>5. CASE Head(todo) \in Claimed
    <3>1. Leaving # <<>> /\ Head(Leaving) = Head(todo) /\ Tail(Leaving) = Leaving'
          BY <1>1, <2>1, <2>4, <2>5, KeepHead
    <3>2. Outcome[Head(todo)] = "none"
          BY <1>5, <1>6, <2>2
    <3>3. Outcome' = [Outcome EXCEPT ![Head(todo)] = "TIMEOUT"]
          BY <1>11, <2>1, <2>2, <2>5
    <3>4. Abstract!Left
          BY <2>1, <3>1, <3>2, <3>3, AbstractIs
    <3>. QED BY <1>7, <3>4
  <2>6. CASE Head(todo) \notin Claimed
    <3>1. Leaving' = Leaving
          BY <1>1, <2>1, <2>4, <2>6, KeepHead
    <3>2. Outcome' = Outcome
          BY <1>11, <2>1, <2>2, <2>6
    <3>. QED BY <2>1, <3>1, <3>2
  <2>. QED BY <2>5, <2>6
<1>19. CASE CloseDone
  <2>1. /\ todo = <<>> /\ ~Closing' /\ UNCHANGED <<status, claims>> /\ Line' = Line
        BY <1>2, <1>19 DEF CloseDone, socket, hist, locals, Closing
  <2>2. Leaving = <<>> /\ Leaving' = <<>>
    <3>1. Keep(<<>>, Claimed) = <<>>
          BY EmptyIs, KeepAll
    <3>. QED BY <2>1, <3>1 DEF Leaving
  <2>. QED BY <1>9, <2>1, <2>2
<1>20. CASE CheckDone
  <2>1. Line' = Line
        BY <1>1, <1>20, FlipKeepsQueue DEF Line
  <2>2. UNCHANGED <<todo, claims, status>> /\ (Closing' <=> Closing)
        BY <1>20 DEF CheckDone, locals, hist, Closing
  <2>. QED BY <1>9, <1>10, <2>1, <2>2
<1>21. ASSUME UNCHANGED <<todo, claims, status, first, last>>, Closing' <=> Closing
      PROVE  UNCHANGED <<Line, Leaving, Outcome>>
      BY <1>2, <1>9, <1>10, <1>21
<1>22. CASE Return \/ Check \/ KillDone \/ WordsDone \/ FlushNot \/ Send \/ FlushDone \/ LinkDown \/ Tick
            \/ UNCHANGED vars
  <2>1. UNCHANGED <<todo, claims, status, first, last>> /\ (Closing' <=> Closing)
        BY <1>22 DEF Return, Check, KillDone, WordsDone, FlushNot, Send, FlushDone, LinkDown, Tick, vars,
             socket, locals, hist, Closing
  <2>. QED BY <1>21, <2>1
<1>23. ASSUME NEW c \in Cycles, Open(c) \/ Close(c) \/ Abort(c)
      PROVE  UNCHANGED <<Line, Leaving, Outcome>>
      BY <1>21, <1>23 DEF Open, Close, Abort, socket, locals, hist, Closing
<1>24. ASSUME NEW p, Receive(p) PROVE UNCHANGED <<Line, Leaving, Outcome>>
      BY <1>21, <1>24 DEF Receive, hist, socket, Closing
<1>25. ASSUME NEW r, NEW s, ReceiveBad(r, s) PROVE UNCHANGED <<Line, Leaving, Outcome>>
      BY <1>21, <1>25 DEF ReceiveBad, hist, socket, Closing
<1>. QED BY <1>12, <1>13, <1>14, <1>15, <1>16, <1>17, <1>18, <1>19, <1>20, <1>22, <1>23, <1>24, <1>25
         DEF Next, Lib, App, Net

\* The two lists implement one queue: eb_response_flip, the timeouts, the answers
\* and eb_socket_kill_inflight keep the order of sending, and each cycle that was
\* sent leaves with one outcome.
THEOREM QueueImplements == Spec => IsAQueue
<1>1. Init => Abstract!QInit
  <2> SUFFICES ASSUME Init PROVE Line = <<>> /\ Leaving = <<>> /\ Outcome = [c \in Cycles |-> "none"]
      BY AbstractIs
  <2>1. Line = <<>> /\ Claimed = {}
        BY ClaimInit
  <2>2. ~Closing
        BY DEF Init, Closing
  <2>. QED BY <2>1, <2>2 DEF Leaving, Outcome
<1>2. SafeInv /\ ClaimInv /\ [Next]_vars
        => [Abstract!QNext]_<<[i \in DOMAIN Queue |-> Queue[i].cycle],
             IF pc = "close" \/ (pc = "callback" /\ ret = "close")
             THEN Select(todo, {i \in DOMAIN todo : todo[i] \in Claimed}) ELSE <<>>,
             [c \in Cycles |-> IF c \in Claimed THEN status[c] ELSE "none"]>>
      BY QueueStep DEF SafeInv, Line, LineOf, Leaving, Closing, Keep, Outcome
<1>3. Init => ClaimInv
      BY ClaimInit
<1>4. SafeInv /\ ClaimInv /\ [Next]_vars => ClaimInv'
      BY ClaimNext DEF SafeInv
<1>5. Spec => []SafeInv
      BY SafeInvariant
<1>. QED BY <1>1, <1>2, <1>3, <1>4, <1>5, PTL DEF Spec, IsAQueue, Abstract!QSpec

-----------------------------------------------------------------------------
(* What the responses keep of a cycle: the low bits of its deadline and of *)
(* the number of its read-back address.  The history claims numbers the    *)
(* cycles that were sent; the bits that are kept give the numbers back     *)
(* because the queue is in the order of sending and none of its responses  *)
(* is old.                                                                 *)

(* Counting modulo M.                                                      *)

\* The rest and the quotient of a division.
LEMMA RestIs ==
  ASSUME NEW M \in Nat \ {0}, NEW x \in Int
  PROVE  x % M \in 0 .. M - 1 /\ \E q \in Int : x = M * q + (x % M)
<1>1. x % M \in 0 .. M - 1
      OBVIOUS
<1>2. x \div M \in Int
      OBVIOUS
<1>3. x = M * (x \div M) + (x % M)
      OBVIOUS
<1>. QED BY <1>1, <1>2, <1>3

\* The only multiple of M between -M and M is 0.
LEMMA SmallMultiple ==
  ASSUME NEW M \in Nat \ {0}, NEW n \in Int, -M < M * n, M * n < M
  PROVE  n = 0
<1>1. CASE n >= 1
  <2>1. M * n >= M
        BY <1>1
  <2>. QED BY <2>1
<1>2. CASE n <= -1
  <2>1. M * (-n) >= M
        BY <1>2
  <2>2. M * (-n) = -(M * n)
        OBVIOUS
  <2>. QED BY <2>1, <2>2
<1>. QED BY <1>1, <1>2

\* Numbers that are less than M apart have different rests.
LEMMA SameRest ==
  ASSUME NEW M \in Nat \ {0}, NEW a \in Int, NEW b \in Int, a % M = b % M, -M < a - b, a - b < M
  PROVE  a = b
<1>1. PICK p \in Int : a = M * p + (a % M)
      BY RestIs
<1>2. PICK q \in Int : b = M * q + (b % M)
      BY RestIs
<1>. DEFINE n == p - q  u == M * p  w == M * q  m == a % M
<1>3. m \in Int
      BY RestIs
<1>4. n \in Int /\ M * n = u - w /\ u \in Int /\ w \in Int
      OBVIOUS
<1>5. M * n = a - b
  <2>1. a = u + m /\ b = w + m
        BY <1>1, <1>2
  <2>. HIDE DEF u, w, n, m
  <2>. QED BY <1>3, <1>4, <2>1
<1>. HIDE DEF n
<1>6. n = 0
      BY <1>4, <1>5, SmallMultiple
<1>. QED BY <1>4, <1>5, <1>6

\* A number that is a multiple of M away from a rest has this rest.
LEMMA RestUnique ==
  ASSUME NEW M \in Nat \ {0}, NEW x \in Int, NEW q \in Int, NEW r \in 0 .. M - 1, x = M * q + r
  PROVE  x % M = r
<1>1. PICK p \in Int : x = M * p + (x % M)
      BY RestIs
<1>2. x % M \in 0 .. M - 1
      BY RestIs
<1>. DEFINE n == p - q  u == M * p  w == M * q  m == x % M
<1>3. n \in Int /\ M * n = u - w /\ u \in Int /\ w \in Int
      OBVIOUS
<1>4. x = u + m
      BY <1>1
<1>8. x = w + r
      OBVIOUS
<1>9. m \in 0 .. M - 1
      BY <1>2
<1>. HIDE DEF n, u, w, m
<1>5. M * n = r - m
      BY <1>3, <1>4, <1>8, <1>9
<1>6. n = 0
      BY <1>3, <1>5, <1>9, SmallMultiple
<1>7. r = m
      BY <1>3, <1>4, <1>5, <1>6, <1>8, <1>9
<1>. QED BY <1>7 DEF m

\* Counting on from a rest.
LEMMA NextRest ==
  ASSUME NEW M \in Nat \ {0}, NEW a \in Int
  PROVE  ((a % M) + 1) % M = (a + 1) % M
<1>. DEFINE m == a % M
<1>1. PICK q \in Int : a = M * q + m
      BY RestIs
<1>2. m \in 0 .. M - 1
      BY RestIs
<1>. HIDE DEF m
<1>3. CASE m + 1 < M
  <2>1. m + 1 = M * 0 + (m + 1) /\ a + 1 = M * q + (m + 1) /\ m + 1 \in 0 .. M - 1 /\ a + 1 \in Int
        /\ 0 \in Int /\ m + 1 \in Int
        BY <1>1, <1>2, <1>3
  <2>2. (m + 1) % M = m + 1
        BY <2>1, RestUnique
  <2>3. (a + 1) % M = m + 1
        BY <2>1, RestUnique
  <2>. QED BY <2>2, <2>3 DEF m
<1>4. CASE m + 1 = M
  <2>1. m + 1 = M * 1 + 0 /\ a + 1 = M * (q + 1) + 0 /\ 0 \in 0 .. M - 1 /\ a + 1 \in Int
        /\ 1 \in Int /\ q + 1 \in Int /\ m + 1 \in Int
        BY <1>1, <1>2, <1>4
  <2>2. (m + 1) % M = 0
        BY <2>1, RestUnique
  <2>3. (a + 1) % M = 0
        BY <2>1, RestUnique
  <2>. QED BY <2>2, <2>3 DEF m
<1>. QED BY <1>2, <1>3, <1>4

\* A number kept modulo M and read back relative to a moment less than half of
\* M away is the number that was kept (eb_socket_timeout).
LEMMA SignedIs ==
  ASSUME NEW a \in Int, NEW t \in Int, -TimeMod <= 2 * (a - t), 2 * (a - t) < TimeMod
  PROVE  Signed(((a % TimeMod) - t) % TimeMod) = a - t
<1>. DEFINE M == TimeMod  m == a % M  s == (m - t) % M
<1>1. M \in Nat \ {0}
      BY EbAssumption DEF EbAssumption
<1>2. PICK p \in Int : a = M * p + m
      BY <1>1, RestIs
<1>3. m \in 0 .. M - 1
      BY <1>1, RestIs
<1>11. m - t \in Int
      BY <1>3
<1>12. \A x \in Int : x % M \in 0 .. M - 1 /\ \E q \in Int : x = M * q + (x % M)
      BY <1>1, RestIs
<1>4. PICK q \in Int : m - t = M * q + s
  <2>. HIDE DEF m
  <2>. QED BY <1>11, <1>12
<1>5. s \in 0 .. M - 1
  <2>. HIDE DEF m
  <2>. QED BY <1>11, <1>12
<1>. DEFINE v == a - t  u == M * p  w == M * q  n == p + q
<1>6. n \in Int /\ M * n = u + w /\ M * (n + 1) = u + w + M /\ u \in Int /\ w \in Int
      BY <1>1
<1>7. a = u + m /\ m - t = w + s /\ v = a - t /\ v \in Int /\ -M <= 2 * v /\ 2 * v < M
      BY <1>2, <1>4
<1>. HIDE DEF m, u, w, n
<1>8. v = M * n + s
      BY <1>3, <1>5, <1>6, <1>7
<1>9. CASE 2 * s < M
  <2>1. -M < M * n /\ M * n < M
        BY <1>1, <1>5, <1>6, <1>7, <1>8, <1>9
  <2>2. n = 0
        BY <1>1, <1>6, <2>1, SmallMultiple
  <2>3. v = s
        BY <1>1, <1>5, <1>7, <1>8, <2>2
  <2>. QED BY <1>9, <2>3 DEF Signed, m
<1>10. CASE ~(2 * s < M)
  <2>1. -M < M * (n + 1) /\ M * (n + 1) < M /\ n + 1 \in Int
        BY <1>1, <1>5, <1>6, <1>7, <1>8, <1>10
  <2>2. n + 1 = 0
        BY <1>1, <2>1, SmallMultiple
  <2>3. v = s - M
        BY <1>1, <1>5, <1>6, <1>7, <1>8, <2>2
  <2>. QED BY <1>10, <2>3 DEF Signed, m
<1>. QED BY <1>9, <1>10

-----------------------------------------------------------------------------
(* What the operations do to the responses.                                *)

\* In s each is in relation R to those behind it.
Follows(s, R) == \A i, j \in DOMAIN s : i < j => <<s[i], s[j]>> \in R

\* What is taken out of a list leaves the others in their order.
LEMMA FollowsLess ==
  ASSUME NEW S, NEW s \in Seq(S), NEW R, Follows(s, R)
  PROVE  /\ s # <<>> => Follows(Tail(s), R)
         /\ \A i \in DOMAIN s : Follows(RemoveAt(s, i), R)
         /\ \A P : Follows(Keep(s, P), R)
<1>1. Len(s) \in Nat /\ DOMAIN s = 1 .. Len(s)
      BY LenProperties
<1>2. ASSUME s # <<>> PROVE Follows(Tail(s), R)
  <2>1. DOMAIN Tail(s) = 1 .. Len(s) - 1 /\ \A i \in 1 .. Len(s) - 1 : Tail(s)[i] = s[i + 1]
        BY <1>2, HeadTailIs
  <2>2. \A i \in 1 .. Len(s) - 1 : i + 1 \in 1 .. Len(s)
        BY <1>1
  <2>. QED BY <1>1, <2>1, <2>2 DEF Follows
<1>3. ASSUME NEW i \in DOMAIN s PROVE Follows(RemoveAt(s, i), R)
  <2>1. /\ DOMAIN RemoveAt(s, i) = 1 .. Len(s) - 1
        /\ \A j \in 1 .. Len(s) - 1 : RemoveAt(s, i)[j] = IF j < i THEN s[j] ELSE s[j + 1]
        BY RemoveAtIs
  <2>. SUFFICES ASSUME NEW j \in 1 .. Len(s) - 1, NEW k \in 1 .. Len(s) - 1, j < k
                PROVE  <<RemoveAt(s, i)[j], RemoveAt(s, i)[k]>> \in R
       BY <2>1 DEF Follows
  <2>2. \A a, b \in 1 .. Len(s) : a < b => <<s[a], s[b]>> \in R
        BY <1>1 DEF Follows
  <2>3. {j, j + 1, k, k + 1} \subseteq 1 .. Len(s) /\ i \in Nat
        BY <1>1
  <2>4. PICK a \in {j, j + 1} : RemoveAt(s, i)[j] = s[a] /\ (a = j + 1 => ~(j < i))
        BY <2>1
  <2>5. PICK b \in {k, k + 1} : RemoveAt(s, i)[k] = s[b] /\ (b = k => k < i)
        BY <2>1
  <2>6. a < b /\ a \in 1 .. Len(s) /\ b \in 1 .. Len(s)
        BY <1>1, <2>3, <2>4, <2>5
  <2>. QED BY <2>2, <2>4, <2>5, <2>6
<1>4. ASSUME NEW P PROVE Follows(Keep(s, P), R)
  <2>. DEFINE K == {i \in DOMAIN s : s[i] \in P}
  <2>1. K \in SUBSET DOMAIN s /\ K \in SUBSET (1 .. Len(s))
        BY <1>1
  <2>2. /\ DOMAIN Select(s, K) = 1 .. Cardinality(K)
        /\ \A j \in 1 .. Cardinality(K) : Nth(K, j) \in K /\ Select(s, K)[j] = s[Nth(K, j)]
        BY <2>1, SelectIs
  <2>3. \A i, j \in 1 .. Cardinality(K) : i < j => Nth(K, i) < Nth(K, j)
        BY <1>1, <2>1, NthIs
  <2>. HIDE DEF K
  <2>4. Follows(Select(s, K), R)
        BY <2>1, <2>2, <2>3 DEF Follows
  <2>. QED BY <2>4 DEF Keep, K
<1>. QED BY <1>2, <1>3, <1>4

\* One more at the end.
LEMMA FollowsMore ==
  ASSUME NEW S, NEW s \in Seq(S), NEW R, Follows(s, R), NEW x \in S,
         \A y \in Range(s) : <<y, x>> \in R
  PROVE  Follows(Append(s, x), R)
<1>1. /\ Len(s) \in Nat /\ DOMAIN s = 1 .. Len(s) /\ Append(s, x) \in Seq(S)
      /\ Len(Append(s, x)) = Len(s) + 1
      /\ \A i \in 1 .. Len(s) + 1 : Append(s, x)[i] = IF i <= Len(s) THEN s[i] ELSE x
      BY AppendIs, LenProperties
<1>2. DOMAIN Append(s, x) = 1 .. Len(s) + 1
      BY <1>1, LenProperties
<1>3. SUFFICES ASSUME NEW i \in 1 .. Len(s) + 1, NEW j \in 1 .. Len(s) + 1, i < j
               PROVE  <<Append(s, x)[i], Append(s, x)[j]>> \in R
      BY <1>2 DEF Follows
<1>4. i \in DOMAIN s /\ Append(s, x)[i] = s[i] /\ s[i] \in Range(s)
      BY <1>1, <1>3 DEF Range
<1>5. CASE j <= Len(s)
      BY <1>1, <1>3, <1>4, <1>5 DEF Follows
<1>6. CASE ~(j <= Len(s))
      BY <1>1, <1>4, <1>6
<1>. QED BY <1>5, <1>6

\* The relation matters only between those in the list.
LEMMA FollowsIn ==
  ASSUME NEW s, NEW R, NEW Q, Follows(s, R),
         \A x, y \in Range(s) : <<x, y>> \in R => <<x, y>> \in Q
  PROVE  Follows(s, Q)
BY DEF Follows, Range

\* The responses of a socket are those of its two lists.
LEMMA QueueHas ==
  ASSUME NEW f \in Seq(Response), NEW l \in Seq(Response)
  PROVE  Range(f \o Reverse(l)) = Range(f) \cup Range(l)
<1>1. Reverse(l) \in Seq(Response) /\ Range(Reverse(l)) = Range(l)
      BY ReverseIs
<1>. QED BY <1>1, ConcatIs

\* No operation but eb_device_flush's adds a response or changes more of one than
\* what it waits for, and none changes the order.
LEMMA QueueKeeps ==
  ASSUME Shapes, [Next]_vars, ~FlushRead
  PROVE  /\ claims' = claims /\ rba' = rba
         /\ \A s \in Range(Queue') : \E r \in Range(Queue) : Lowered(r, s)
         /\ \A R : Follows(Line, R) => Follows(Line', R)
<1>. DEFINE Goal == /\ \A s \in Range(Queue') : \E r \in Range(Queue) : Lowered(r, s)
                    /\ \A R : Follows(Line, R) => Follows(Line', R)
<1>1. /\ SocketType /\ first \in Seq(Response) /\ last \in Seq(Response) /\ Line \in Seq(Cycles)
      BY QueueIs DEF Shapes, SocketType
<1>2. /\ SocketType' /\ first' \in Seq(Response) /\ last' \in Seq(Response)
      BY ShapesNext DEF Shapes, SocketType
<1>3. /\ Range(Queue) = Range(first) \cup Range(last)
      /\ Range(Queue') = Range(first') \cup Range(last')
  <2>1. \A f, l \in Seq(Response) : Range(f \o Reverse(l)) = Range(f) \cup Range(l)
        BY QueueHas
  <2>2. Queue = first \o Reverse(last) /\ Queue' = first' \o Reverse(last')
        BY DEF Queue
  <2>. QED BY <1>1, <1>2, <2>1, <2>2
<1>4. Range(first) \subseteq Response /\ Range(last) \subseteq Response
      BY <1>1, RangeIs
<1>5. \A r \in Response : Lowered(r, r)
      BY DEF Lowered
<1>6. ASSUME Range(Queue') \subseteq Range(Queue), \A R : Follows(Line, R) => Follows(Line', R)
      PROVE  Goal
      BY <1>3, <1>4, <1>5, <1>6
<1>7. ASSUME first' = first, last' = last PROVE Goal
  <2>1. Queue' = Queue /\ Line' = Line
        BY <1>7 DEF Queue, Line
  <2>. QED BY <1>6, <2>1
<1>8. CASE KillExpired
  <2>1. Line # <<>> /\ Line' = Tail(Line)
        BY <1>1, <1>8, KillsHead
  <2>2. \A R : Follows(Line, R) => Follows(Line', R)
        BY <1>1, <2>1, FollowsLess
  <2>3. first # <<>> /\ first' = Tail(first) /\ last' = last /\ claims' = claims /\ rba' = rba
        BY <1>8 DEF KillExpired, socket
  <2>4. Range(Tail(first)) \subseteq Range(first)
        BY <1>1, <2>3, HeadTailIs
  <2>5. Range(Queue') \subseteq Range(Queue)
        BY <1>3, <2>3, <2>4
  <2>. QED BY <1>6, <2>2, <2>3, <2>5
<1>9. CASE Word
  <2>1. \A R : Follows(Line, R) => Follows(Line', R)
    <3>1. \A i \in DOMAIN Line : \A R : Follows(Line, R) => Follows(RemoveAt(Line, i), R)
          BY <1>1, FollowsLess
    <3>2. Line' = Line \/ \E i \in DOMAIN Line : Line' = RemoveAt(Line, i)
          BY <1>1, <1>9, WordTakes
    <3>. QED BY <3>1, <3>2
  <2>2. PICK q, l : Searched(q, l) /\
          \/ first' = q
          \/ \E i \in DOMAIN q, s \in Response : first' = [q EXCEPT ![i] = s] /\ Lowered(q[i], s)
          \/ \E i \in DOMAIN q : first' = RemoveAt(q, i)
        BY <1>1, <1>9, WordIs DEF WordDoes
  <2>3. q \in Seq(Response) /\ l \in Seq(Response) /\ last' = l
        BY <2>2 DEF Searched
  <2>4. Range(Queue) = Range(q) \cup Range(l)
    <3>1. CASE q = first /\ l = last
          BY <1>3, <3>1
    <3>2. CASE q = first \o Reverse(last) /\ l = <<>>
          BY <3>2, EmptyIs DEF Queue
    <3>. QED BY <2>2, <3>1, <3>2 DEF Searched
  <2>8. claims' = claims /\ rba' = rba
        BY <1>9 DEF Word
  <2>5. CASE first' = q
    <3>1. Range(Queue') \subseteq Range(Queue)
          BY <1>3, <2>3, <2>4, <2>5
    <3>. QED BY <1>6, <2>1, <2>8, <3>1
  <2>6. ASSUME NEW i \in DOMAIN q, NEW s \in Response, first' = [q EXCEPT ![i] = s], Lowered(q[i], s)
        PROVE  Goal
    <3>1. Range([q EXCEPT ![i] = s]) \subseteq Range(q) \cup {s} /\ q[i] \in Range(q)
          BY DEF Range
    <3>. QED BY <1>3, <1>4, <1>5, <2>1, <2>3, <2>4, <2>6, <3>1
  <2>7. ASSUME NEW i \in DOMAIN q, first' = RemoveAt(q, i) PROVE Goal
    <3>1. Range(RemoveAt(q, i)) \subseteq Range(q)
          BY <2>3, RemoveAtRange
    <3>. QED BY <1>3, <1>4, <1>5, <2>1, <2>3, <2>4, <2>7, <3>1
  <2>. QED BY <2>2, <2>5, <2>6, <2>7, <2>8
<1>10. CASE CheckDone
  <2>1. Queue' = Queue /\ Line' = Line /\ claims' = claims /\ rba' = rba
        BY <1>1, <1>10, FlipKeepsQueue DEF Line, CheckDone, hist
  <2>. QED BY <1>6, <2>1
<1>11. ASSUME NEW d \in Devices, CloseDevice(d) PROVE Goal /\ claims' = claims /\ rba' = rba
  <2>1. Line' = Keep(Line, Cycles \ Of(d))
        BY <1>1, <1>11, CloseParts
  <2>2. \A R : Follows(Line, R) => Follows(Line', R)
        BY <1>1, <2>1, FollowsLess
  <2>3. first' = Kept(d) /\ last' = <<>> /\ claims' = claims /\ rba' = rba
        BY <1>11 DEF CloseDevice, hist
  <2>4. ASSUME NEW q \in Seq(Response) PROVE Others(d, q) \in Seq(Response) /\ Range(Others(d, q)) \subseteq Range(q)
    <3>. DEFINE K == {i \in DOMAIN q : DeviceOf[q[i].cycle] # d}
    <3>1. K \in SUBSET DOMAIN q
          OBVIOUS
    <3>2. Select(q, K) \in Seq(Response) /\ Range(Select(q, K)) = {q[i] : i \in K}
      <4>. HIDE DEF K
      <4>. QED BY <3>1, SelectIs
    <3>3. {q[i] : i \in K} \subseteq Range(q)
          BY DEF Range
    <3>. QED BY <3>2, <3>3 DEF Others
  <2>5. Range(Kept(d)) = Range(Others(d, first)) \cup Range(Others(d, last))
        BY <1>1, <2>4, QueueHas DEF Kept
  <2>6. Range(Queue') \subseteq Range(Queue)
        BY <1>1, <1>3, <2>3, <2>4, <2>5, EmptyIs
  <2>. QED BY <1>6, <2>2, <2>3, <2>6
<1>12. CASE Return \/ Check \/ KillDone \/ WordsDone \/ FlushNot \/ Flush \/ Send \/ FlushWrite \/ FlushDone
            \/ (\E fault \in {"OOM", "OVERFLOW", "WIDTH", "EMPTY"} : FlushRefuse(fault))
            \/ CloseCycle \/ CloseDone \/ LinkDown \/ Tick \/ UNCHANGED vars
  <2>1. first' = first /\ last' = last /\ claims' = claims /\ rba' = rba
        BY <1>12 DEF Return, Check, KillDone, WordsDone, FlushNot, Flush, Send, FlushWrite, FlushDone,
             FlushRefuse, CloseCycle, CloseDone, LinkDown, Tick, vars, socket, locals, hist
  <2>. QED BY <1>7, <2>1
<1>13. ASSUME NEW c \in Cycles, Open(c) \/ Close(c) \/ Abort(c) PROVE Goal /\ claims' = claims /\ rba' = rba
  <2>1. first' = first /\ last' = last /\ claims' = claims /\ rba' = rba
        BY <1>13 DEF Open, Close, Abort, socket, hist
  <2>. QED BY <1>7, <2>1
<1>14. ASSUME NEW p, Receive(p) PROVE Goal /\ claims' = claims /\ rba' = rba
  <2>1. first' = first /\ last' = last /\ claims' = claims /\ rba' = rba
        BY <1>14 DEF Receive, socket, hist
  <2>. QED BY <1>7, <2>1
<1>15. ASSUME NEW r, NEW s, ReceiveBad(r, s) PROVE Goal /\ claims' = claims /\ rba' = rba
  <2>1. first' = first /\ last' = last /\ claims' = claims /\ rba' = rba
        BY <1>15 DEF ReceiveBad, socket, hist
  <2>. QED BY <1>7, <2>1
<1>. QED BY <1>8, <1>9, <1>10, <1>11, <1>12, <1>13, <1>14, <1>15 DEF Next, Lib, App, Net

\* What eb_device_flush does for a cycle that reads: it has claimed no address
\* before, and now claims the next one.
LEMMA ReadIs ==
  ASSUME Shapes, HeldInv, ClaimInv, FlushRead
  PROVE  \E c \in Cycles, r \in Response :
           /\ state[c] = "closed" /\ c \notin Claimed /\ c \notin Range(Line) /\ Words(c) > 0
           /\ r.cycle = c /\ r.address = rba /\ r.deadline = (timeCache + Patience) % TimeMod
           /\ Range(Queue') = Range(Queue) \cup {r} /\ last' = <<r>> \o last
           /\ Line' = Append(Line, c) /\ Range(Line') = Range(Line) \cup {c}
           /\ Claimed' = Claimed \cup {c}
           /\ Len(claims) \in Nat /\ DOMAIN claims = 1 .. Len(claims)
           /\ Len(claims') = Len(claims) + 1 /\ DOMAIN claims' = 1 .. Len(claims) + 1
           /\ \A i \in 1 .. Len(claims) : claims'[i] = claims[i] /\ claims[i].cycle # c
           /\ claims'[Len(claims) + 1].cycle = c /\ claims'[Len(claims) + 1].at = timeCache
           /\ packet' = Append(packet, [address |-> rba, cycle |-> c, k |-> Len(claims)])
<1>. DEFINE c == Head(todo)
            x == [cycle |-> c, at |-> timeCache]
<1>1. /\ SocketType /\ todo \in Seq(Cycles) /\ todo # <<>> /\ Line \in Seq(Cycles)
      /\ claims \in Seq([cycle : Cycles, at : Nat]) /\ timeCache \in Nat /\ Queue \in Seq(Response)
      BY QueueIs DEF Shapes, SocketType, LocalType, FlushRead
<1>2. c \in Cycles /\ c \in Range(todo)
      BY <1>1, HeadTailIs
<1>3. PICK r \in Response :
        /\ r = [address |-> rba, deadline |-> (timeCache + Patience) % TimeMod, cycle |-> c,
                reads |-> Shape[c].reads, stats |-> Shape[c].stats]
        /\ Queue' = Append(Queue, r) /\ Line' = Append(Line, c)
      BY <1>1, <1>2, ReadJoins
<1>4. /\ claims' = Append(claims, x) /\ last' = <<r>> \o last /\ Words(c) > 0 /\ ~Closing
      /\ packet' = Append(packet, [address |-> rba, cycle |-> c, k |-> Len(claims)])
      BY <1>3 DEF FlushRead, Closing
<1>5. state[c] = "closed" /\ c \notin Range(Line)
      BY <1>2 DEF HeldInv, HeldAreClosed, Apart
<1>6. c \notin Claimed
      BY <1>2, <1>4, UnclaimedIs
<1>7. Claimed' = Claimed \cup {c}
      BY <1>1, <1>2, <1>4, ClaimAppends
<1>. HIDE DEF c
<1>8. Range(Queue') = Range(Queue) \cup {r} /\ Range(Line') = Range(Line) \cup {c}
      BY <1>1, <1>2, <1>3, AppendIs
<1>9. x \in [cycle : Cycles, at : Nat] /\ x.cycle = c /\ x.at = timeCache
      BY <1>1, <1>2
<1>. HIDE DEF x
<1>10. /\ Len(claims) \in Nat /\ DOMAIN claims = 1 .. Len(claims)
       /\ Append(claims, x) \in Seq([cycle : Cycles, at : Nat]) /\ Len(Append(claims, x)) = Len(claims) + 1
       /\ \A i \in 1 .. Len(claims) + 1 : Append(claims, x)[i] = IF i <= Len(claims) THEN claims[i] ELSE x
       BY <1>1, <1>9, AppendIs, LenProperties
<1>11. DOMAIN claims' = 1 .. Len(claims) + 1 /\ Len(claims') = Len(claims) + 1
       BY <1>4, <1>10, LenProperties
<1>12. \A i \in 1 .. Len(claims) : claims'[i] = claims[i]
       BY <1>4, <1>10
<1>13. \A i \in 1 .. Len(claims) : claims[i].cycle # c
       BY <1>6, <1>10 DEF Claimed
<1>14. claims'[Len(claims) + 1] = x
  <2>1. Len(claims) + 1 \in 1 .. Len(claims) + 1 /\ ~(Len(claims) + 1 <= Len(claims))
        BY <1>10
  <2>. QED BY <1>4, <1>10, <2>1
<1>15. r.cycle = c /\ r.address = rba /\ r.deadline = (timeCache + Patience) % TimeMod
       BY <1>3
<1>. QED BY <1>2, <1>3, <1>4, <1>5, <1>6, <1>7, <1>8, <1>9, <1>10, <1>11, <1>12, <1>13, <1>14, <1>15

\* A response keeps the address and the deadline it was given, and the addresses
\* count the claims.
StampInv ==
  /\ rba = Len(claims) % RbaMod
  /\ \A i \in DOMAIN claims : \A r \in Range(Queue) : r.cycle = claims[i].cycle =>
       /\ r.address = (i - 1) % RbaMod
       /\ r.deadline = (claims[i].at + Patience) % TimeMod

\* At first no address was claimed.
LEMMA StampInit == Init => StampInv
<1> SUFFICES ASSUME Init PROVE StampInv
    OBVIOUS
<1>1. rba = 0 /\ Len(claims) = 0 /\ DOMAIN claims = {}
      BY EmptyIs DEF Init
<1>2. 0 % RbaMod = 0
      BY EbAssumption DEF EbAssumption
<1>. QED BY <1>1, <1>2 DEF StampInv

\* Each step keeps StampInv.
LEMMA StampNext == Shapes /\ HeldInv /\ ClaimInv /\ StampInv /\ [Next]_vars => StampInv'
<1> SUFFICES ASSUME Shapes, HeldInv, ClaimInv, StampInv, [Next]_vars PROVE StampInv'
    OBVIOUS
<1>1. CASE ~FlushRead
  <2>1. /\ claims' = claims /\ rba' = rba
        /\ \A s \in Range(Queue') : \E r \in Range(Queue) : Lowered(r, s)
        BY <1>1, QueueKeeps
  <2>. QED BY <2>1 DEF StampInv, Lowered
<1>2. CASE FlushRead
  <2>1. PICK c \in Cycles, r \in Response :
          /\ c \notin Range(Line)
          /\ r.cycle = c /\ r.address = rba /\ r.deadline = (timeCache + Patience) % TimeMod
          /\ Range(Queue') = Range(Queue) \cup {r}
          /\ Len(claims) \in Nat /\ DOMAIN claims = 1 .. Len(claims)
          /\ Len(claims') = Len(claims) + 1 /\ DOMAIN claims' = 1 .. Len(claims) + 1
          /\ \A i \in 1 .. Len(claims) : claims'[i] = claims[i] /\ claims[i].cycle # c
          /\ claims'[Len(claims) + 1].cycle = c /\ claims'[Len(claims) + 1].at = timeCache
        BY <1>2, ReadIs
  <2>2. rba' = Len(claims') % RbaMod
    <3>1. rba' = (rba + 1) % RbaMod
          BY <1>2 DEF FlushRead, NextRba
    <3>2. ((Len(claims) % RbaMod) + 1) % RbaMod = (Len(claims) + 1) % RbaMod
      <4>1. RbaMod \in Nat \ {0} /\ Len(claims) \in Int
            BY <2>1, ConstantsAre
      <4>. QED BY <4>1, NextRest
    <3>. QED BY <2>1, <3>1, <3>2 DEF StampInv
  <2>3. \A s \in Range(Queue) : s.cycle # c
    <3>1. Outstanding = Range(Line)
          BY QueueIs DEF Shapes
    <3>. QED BY <2>1, <3>1 DEF Outstanding
  <2>4. ASSUME NEW i \in DOMAIN claims', NEW s \in Range(Queue'), s.cycle = claims'[i].cycle
        PROVE  s.address = (i - 1) % RbaMod /\ s.deadline = (claims'[i].at + Patience) % TimeMod
    <3>1. CASE i \in 1 .. Len(claims)
      <4>1. claims'[i] = claims[i] /\ s \in Range(Queue)
            BY <2>1, <2>4, <3>1
      <4>. QED BY <2>1, <2>4, <3>1, <4>1 DEF StampInv
    <3>2. CASE i = Len(claims) + 1
      <4>1. s = r /\ i - 1 = Len(claims)
            BY <2>1, <2>3, <2>4, <3>2
      <4>. QED BY <2>1, <3>2, <4>1 DEF StampInv
    <3>. QED BY <2>1, <3>1, <3>2
  <2>. QED BY <2>2, <2>4 DEF StampInv
<1>. QED BY <1>1, <1>2

-----------------------------------------------------------------------------
(* Deadlines.                                                              *)

\* Time goes by only between two calls of eb_socket_check, and no more than
\* MaxGap; nothing is claimed in the future.
ClockInv ==
  /\ timeCache <= clock /\ clock <= timeCache + MaxGap
  /\ InLoop("kill") => now = clock
  /\ \A i \in DOMAIN claims : claims[i].at <= timeCache

\* The cycle c has time until t or longer.
Due(c, t) == \A i \in DOMAIN claims : claims[i].cycle = c => t <= claims[i].at + Patience

\* The first of the two claimed its address no later than the second.
Older == {p \in Cycles \X Cycles : \A i, j \in DOMAIN claims :
            claims[i].cycle = p[1] /\ claims[j].cycle = p[2] => claims[i].at <= claims[j].at}

\* Between step 1 of eb_socket_check and eb_socket_timeout.
Polling == pc \in {"poll", "words", "flush"} \/ (pc = "callback" /\ ret \in {"words", "flush"})

\* The queue is in the order of the deadlines, and none is past by more than the
\* time between two checks: those of the younger list are not past at all, unless
\* the older list has just become empty.
DateInv ==
  /\ Follows(Line, Older)
  /\ \A c \in Range(Line) : Due(c, timeCache - MaxGap)
  /\ (\A c \in Range(LineOf(last)) : Due(c, timeCache)) \/ (first = <<>> /\ Polling)

\* The socket starts with its clock right.
LEMMA ClockInit == Init => ClockInv /\ DateInv
<1> SUFFICES ASSUME Init PROVE ClockInv /\ DateInv
    OBVIOUS
<1>1. DOMAIN claims = {} /\ Line = <<>> /\ DOMAIN Line = {} /\ Range(Line) = {}
      BY EmptyIs, ClaimInit DEF Init
<1>2. timeCache = Epoch /\ clock = Epoch /\ Epoch \in Nat /\ MaxGap \in Nat /\ now = Epoch
      BY EbAssumption DEF EbAssumption, Init
<1>. QED BY <1>1, <1>2 DEF ClockInv, DateInv, Follows, Due

\* Each step keeps the clock right.
LEMMA ClockNext == Shapes /\ HeldInv /\ ClaimInv /\ ClockInv /\ [Next]_vars => ClockInv'
<1> SUFFICES ASSUME Shapes, HeldInv, ClaimInv, ClockInv, [Next]_vars PROVE ClockInv'
    OBVIOUS
<1>1. /\ timeCache \in Nat /\ clock \in Nat /\ now \in Nat /\ MaxGap \in Nat
      /\ ret \in {"app", "kill", "words", "flush", "close"}
      /\ \A i \in DOMAIN claims : claims[i].at \in Nat
  <2>1. claims \in Seq([cycle : Cycles, at : Nat])
        BY DEF Shapes, SocketType
  <2>2. \A i \in DOMAIN claims : claims[i] \in [cycle : Cycles, at : Nat]
        BY <2>1, ElementOfSeq, LenProperties
  <2>. QED BY <2>2, EbAssumption DEF EbAssumption, Shapes, SocketType, LocalType
<1>2. ASSUME UNCHANGED <<timeCache, clock, now, claims>>, InLoop("kill")' => InLoop("kill")
      PROVE  ClockInv'
      BY <1>2 DEF ClockInv
<1>3. CASE FlushRead
  <2>1. UNCHANGED <<timeCache, clock, now, pc, ret>>
        BY <1>3 DEF FlushRead, env
  <2>2. PICK c \in Cycles :
          /\ DOMAIN claims = 1 .. Len(claims) /\ Len(claims) \in Nat /\ DOMAIN claims' = 1 .. Len(claims) + 1
          /\ \A i \in 1 .. Len(claims) : claims'[i] = claims[i]
          /\ claims'[Len(claims) + 1].at = timeCache
        BY <1>3, ReadIs
  <2>3. \A i \in 1 .. Len(claims) + 1 : i \in 1 .. Len(claims) \/ i = Len(claims) + 1
        BY <2>2
  <2>4. \A i \in DOMAIN claims' : claims'[i].at <= timeCache
        BY <1>1, <2>2, <2>3 DEF ClockInv
  <2>. QED BY <2>1, <2>4 DEF ClockInv, InLoop
<1>4. CASE Tick
  <2>1. UNCHANGED <<timeCache, now, claims>> /\ clock' = clock + 1 /\ clock - timeCache < MaxGap /\ ~InLoop("kill")'
        BY <1>4 DEF Tick, InLoop, socket, locals, hist
  <2>. QED BY <1>1, <2>1 DEF ClockInv
<1>5. CASE Check
  <2>1. UNCHANGED <<timeCache, clock, claims>> /\ now' = clock
        BY <1>5 DEF Check, socket, env, hist
  <2>. QED BY <2>1 DEF ClockInv
<1>6. CASE KillDone
  <2>1. now = clock /\ timeCache' = now /\ UNCHANGED <<clock, claims>> /\ ~InLoop("kill")'
        BY <1>6 DEF KillDone, ClockInv, InLoop, env, hist
  <2>2. \A i \in DOMAIN claims : claims[i].at <= clock
        BY <1>1 DEF ClockInv
  <2>. QED BY <1>1, <2>1, <2>2 DEF ClockInv
<1>7. CASE Return
  <2>1. UNCHANGED <<timeCache, clock, now, claims>> /\ (InLoop("kill")' => InLoop("kill"))
        BY <1>1, <1>7 DEF Return, InLoop, socket, locals, env, hist
  <2>. QED BY <1>2, <2>1
<1>8. CASE KillExpired \/ Word \/ WordsDone \/ CheckDone \/ FlushNot \/ Flush \/ Send \/ FlushWrite \/ FlushDone
            \/ (\E fault \in {"OOM", "OVERFLOW", "WIDTH", "EMPTY"} : FlushRefuse(fault))
            \/ CloseCycle \/ CloseDone \/ LinkDown \/ UNCHANGED vars
  <2>1. UNCHANGED <<timeCache, clock, now, claims>>
        BY <1>8 DEF KillExpired, Word, WordsDone, CheckDone, FlushNot, Flush, Send, FlushWrite, FlushDone,
             FlushRefuse, CloseCycle, CloseDone, LinkDown, vars, socket, locals, env, hist
  <2>2. InLoop("kill")' => InLoop("kill")
        BY <1>8 DEF KillExpired, Word, WordsDone, CheckDone, FlushNot, Flush, Send, FlushWrite, FlushDone,
             FlushRefuse, CloseCycle, CloseDone, LinkDown, vars, Call, InLoop
  <2>. QED BY <1>2, <2>1, <2>2
<1>9. ASSUME NEW c \in Cycles, Open(c) \/ Close(c) \/ Abort(c) PROVE ClockInv'
  <2>1. UNCHANGED <<timeCache, clock, now, claims, pc, ret>>
        BY <1>9 DEF Open, Close, Abort, socket, locals, env, hist
  <2>. QED BY <1>2, <2>1 DEF InLoop
<1>10. ASSUME NEW d \in Devices, CloseDevice(d) PROVE ClockInv'
  <2>1. UNCHANGED <<timeCache, clock, now, claims>> /\ ~InLoop("kill")'
        BY <1>10 DEF CloseDevice, env, hist, InLoop
  <2>. QED BY <1>2, <2>1
<1>11. ASSUME NEW p, Receive(p) PROVE ClockInv'
  <2>1. UNCHANGED <<timeCache, clock, now, claims>> /\ ~InLoop("kill")'
        BY <1>11 DEF Receive, socket, hist, InLoop
  <2>. QED BY <1>2, <2>1
<1>12. ASSUME NEW r, NEW s, ReceiveBad(r, s) PROVE ClockInv'
  <2>1. UNCHANGED <<timeCache, clock, now, claims>> /\ ~InLoop("kill")'
        BY <1>12 DEF ReceiveBad, socket, env, hist, InLoop
  <2>. QED BY <1>2, <2>1
<1>. QED BY <1>3, <1>4, <1>5, <1>6, <1>7, <1>8, <1>9, <1>10, <1>11, <1>12 DEF Next, Lib, App, Net

\* A deadline is read back as it was meant (eb_socket_timeout), as long as it is
\* not past by more than the time between two checks.
LEMMA DeadlineIs ==
  ASSUME Shapes, StampInv, ClockInv, DateInv
  PROVE  DeadlineSurvives
<1> SUFFICES ASSUME NEW i \in DOMAIN claims, NEW r \in Range(Queue), r.cycle = claims[i].cycle
             PROVE  Deadline(r) = claims[i].at + Patience
    BY DEF DeadlineSurvives
<1>1. claims[i].at \in Nat
  <2>1. claims \in Seq([cycle : Cycles, at : Nat])
        BY DEF Shapes, SocketType
  <2>2. claims[i] \in [cycle : Cycles, at : Nat]
        BY <2>1, ElementOfSeq, LenProperties
  <2>. QED BY <2>2
<1>2. r.cycle \in Range(Line)
      BY QueueIs DEF Shapes, Outstanding
<1>3. timeCache - MaxGap <= claims[i].at + Patience /\ claims[i].at <= timeCache
      BY <1>2 DEF DateInv, Due, ClockInv
<1>4. r.deadline = (claims[i].at + Patience) % TimeMod
      BY DEF StampInv
<1>5. /\ timeCache \in Nat /\ Patience \in Nat /\ MaxGap \in Nat /\ TimeMod \in Nat
      /\ 2 * Patience < TimeMod /\ 2 * MaxGap < TimeMod
      BY EbAssumption DEF EbAssumption, Shapes, SocketType
<1>. DEFINE a == claims[i].at + Patience
<1>6. a \in Int /\ timeCache \in Int /\ -TimeMod <= 2 * (a - timeCache) /\ 2 * (a - timeCache) < TimeMod
      BY <1>1, <1>3, <1>5
<1>7. Deadline(r) = timeCache + Signed(((a % TimeMod) - timeCache) % TimeMod)
      BY <1>4 DEF Deadline
<1>. HIDE DEF a
<1>8. Signed(((a % TimeMod) - timeCache) % TimeMod) = a - timeCache
      BY <1>6, SignedIs
<1>9. Deadline(r) = a
      BY <1>6, <1>7, <1>8
<1>. QED BY <1>9 DEF a

\* The older list leads the queue.
LEMMA FirstLeads ==
  ASSUME SocketType
  PROVE  /\ first # <<>> => Line # <<>> /\ Head(Line) = Head(first).cycle /\ Head(first) \in Range(Queue)
         /\ first = <<>> => Range(Line) = Range(LineOf(last))
         /\ Range(LineOf(last)) \subseteq Range(Line) /\ LineOf(last) \in Seq(Cycles)
<1>1. first \in Seq(Response) /\ last \in Seq(Response)
      BY DEF SocketType
<1>2. /\ LineOf(first) \in Seq(Cycles) /\ Reverse(LineOf(last)) \in Seq(Cycles) /\ LineOf(last) \in Seq(Cycles)
      /\ Line = LineOf(first) \o Reverse(LineOf(last))
      BY <1>1, QueueIs, LineIs
<1>3. Range(Line) = Range(LineOf(first)) \cup Range(LineOf(last))
  <2>1. Range(Reverse(LineOf(last))) = Range(LineOf(last))
        BY <1>2, ReverseIs
  <2>. QED BY <1>2, <2>1, ConcatIs
<1>4. ASSUME first = <<>> PROVE Range(LineOf(first)) = {}
  <2>1. LineOf(first) = <<>>
        BY <1>1, <1>4, LineIs
  <2>. QED BY <2>1, EmptyIs
<1>5. ASSUME first # <<>>
      PROVE  Line # <<>> /\ Head(Line) = Head(first).cycle /\ Head(first) \in Range(Queue)
  <2>1. LineOf(first) # <<>> /\ Head(LineOf(first)) = Head(first).cycle
        BY <1>1, <1>5, LineOfTail
  <2>2. Line # <<>> /\ Head(Line) = Head(LineOf(first))
        BY <1>2, <2>1, TailConcat
  <2>3. Head(first) \in Range(first)
        BY <1>1, <1>5, HeadTailIs
  <2>4. Range(Queue) = Range(first) \cup Range(last)
        BY <1>1, QueueHas DEF Queue
  <2>. QED BY <2>1, <2>2, <2>3, <2>4
<1>. QED BY <1>2, <1>3, <1>4, <1>5

\* When step 1 of eb_socket_check is done, nothing is past if the older list has
\* not become empty.
LEMMA NoneIsPast ==
  ASSUME Shapes, ClaimInv, StampInv, ClockInv, DateInv, KillDone, first # <<>>
  PROVE  \A c \in Range(Line) : Due(c, now)
<1>. DEFINE h == Head(first).cycle
<1>1. SocketType /\ Line \in Seq(Cycles) /\ now \in Nat /\ Patience \in Nat
      BY QueueIs, ConstantsAre DEF Shapes, SocketType
<1>2. Line # <<>> /\ Head(Line) = h /\ Head(first) \in Range(Queue)
      BY <1>1, FirstLeads
<1>3. /\ h \in Cycles /\ h = Line[1] /\ 1 \in DOMAIN Line /\ Len(Line) \in Nat /\ DOMAIN Line = 1 .. Len(Line)
      /\ h \in Range(Line)
  <2>. HIDE DEF h
  <2>. QED BY <1>1, <1>2, HeadTailIs, LenProperties
<1>4. \A i \in DOMAIN claims : claims[i].cycle = h => claims[i].at + Patience > now
  <2>1. DeadlineSurvives
        BY DeadlineIs
  <2>2. Deadline(Head(first)) > now
        BY DEF KillDone
  <2>. QED BY <1>2, <2>1, <2>2 DEF DeadlineSurvives
<1>5. PICK k \in DOMAIN claims : claims[k].cycle = h
      BY <1>3 DEF ClaimInv, Claimed
<1>6. \A i \in DOMAIN claims : claims[i].at \in Nat
  <2>1. claims \in Seq([cycle : Cycles, at : Nat])
        BY DEF Shapes, SocketType
  <2>2. \A i \in DOMAIN claims : claims[i] \in [cycle : Cycles, at : Nat]
        BY <2>1, ElementOfSeq, LenProperties
  <2>. QED BY <2>2
<1>. HIDE DEF h
<1>7. ASSUME NEW c \in Range(Line), NEW i \in DOMAIN claims, claims[i].cycle = c
      PROVE  now <= claims[i].at + Patience
  <2>1. PICK b \in 1 .. Len(Line) : Line[b] = c
        BY <1>3, <1>7 DEF Range
  <2>2. CASE b = 1
        BY <1>1, <1>3, <1>4, <1>6, <1>7, <2>1, <2>2
  <2>3. CASE b # 1
    <3>1. <<h, c>> \in Older
      <4>1. 1 < b /\ b \in DOMAIN Line
            BY <1>3, <2>3
      <4>. QED BY <1>3, <2>1, <4>1 DEF DateInv, Follows
    <3>2. claims[k].at <= claims[i].at
          BY <1>5, <1>7, <3>1 DEF Older
    <3>3. claims[k].at + Patience > now
          BY <1>4, <1>5
    <3>. QED BY <1>1, <1>6, <3>2, <3>3
  <2>. QED BY <2>2, <2>3
<1>. QED BY <1>7 DEF Due

\* Each step keeps the queue in the order of the deadlines ...
LEMMA OrderNext ==
  ASSUME Shapes, HeldInv, ClaimInv, ClockInv, DateInv, [Next]_vars
  PROVE  Follows(Line, Older)'
<1>1. CASE ~FlushRead
  <2>1. claims' = claims /\ \A R : Follows(Line, R) => Follows(Line', R)
        BY <1>1, QueueKeeps
  <2>2. Older' = Older
        BY <2>1 DEF Older
  <2>3. Follows(Line', Older)
        BY <2>1 DEF DateInv
  <2>. QED BY <2>2, <2>3 DEF Follows
<1>2. CASE FlushRead
  <2>1. PICK c \in Cycles :
          /\ c \notin Range(Line) /\ Line' = Append(Line, c)
          /\ Len(claims) \in Nat /\ DOMAIN claims = 1 .. Len(claims) /\ DOMAIN claims' = 1 .. Len(claims) + 1
          /\ \A i \in 1 .. Len(claims) : claims'[i] = claims[i] /\ claims[i].cycle # c
          /\ claims'[Len(claims) + 1].cycle = c /\ claims'[Len(claims) + 1].at = timeCache
        BY <1>2, ReadIs
  <2>2. Line \in Seq(Cycles) /\ Range(Line) \subseteq Cycles
        BY QueueIs, RangeIs DEF Shapes
  <2>3. ASSUME NEW y \in Range(Line), NEW i \in DOMAIN claims', claims'[i].cycle = y
        PROVE  i \in DOMAIN claims /\ claims'[i] = claims[i]
    <3>1. i # Len(claims) + 1
          BY <2>1, <2>3
    <3>. QED BY <2>1, <3>1
  <2>4. \A i \in DOMAIN claims' : claims'[i].cycle = c => claims'[i].at = timeCache
    <3>1. \A i \in 1 .. Len(claims) + 1 : i \in 1 .. Len(claims) \/ i = Len(claims) + 1
          BY <2>1
    <3>. QED BY <2>1, <3>1
  <2>5. \A x, y \in Range(Line) : <<x, y>> \in Older => <<x, y>> \in Older'
        BY <2>2, <2>3 DEF Older
  <2>6. \A y \in Range(Line) : <<y, c>> \in Older'
        BY <2>1, <2>2, <2>3, <2>4 DEF Older, ClockInv
  <2>7. Follows(Line, Older')
        BY <2>5, FollowsIn DEF DateInv
  <2>8. Follows(Append(Line, c), Older')
        BY <2>2, <2>6, <2>7, FollowsMore
  <2>. QED BY <2>1, <2>8 DEF Follows
<1>. QED BY <1>1, <1>2

\* The cycles of the responses are those on Line.
LEMMA OutstandingIs == SocketType => Outstanding = Range(Line)
BY QueueIs

\* ... and none past by more than the time between two checks ...
LEMMA LateNext ==
  ASSUME Shapes, HeldInv, ClaimInv, StampInv, ClockInv, DateInv, [Next]_vars
  PROVE  \A c \in Range(Line') : Due(c, timeCache - MaxGap)'
<1>1. SocketType /\ timeCache \in Nat /\ Patience \in Nat /\ MaxGap \in Nat /\ now \in Nat
      BY EbAssumption DEF EbAssumption, Shapes, SocketType
<1>2. CASE FlushRead
  <2>1. PICK c \in Cycles :
          /\ Range(Line') = Range(Line) \cup {c} /\ c \notin Range(Line)
          /\ Len(claims) \in Nat /\ DOMAIN claims = 1 .. Len(claims) /\ DOMAIN claims' = 1 .. Len(claims) + 1
          /\ \A i \in 1 .. Len(claims) : claims'[i] = claims[i] /\ claims[i].cycle # c
          /\ claims'[Len(claims) + 1].cycle = c /\ claims'[Len(claims) + 1].at = timeCache
        BY <1>2, ReadIs
  <2>2. timeCache' = timeCache
        BY <1>2 DEF FlushRead
  <2>3. ASSUME NEW b \in Range(Line'), NEW i \in DOMAIN claims', claims'[i].cycle = b
        PROVE  timeCache - MaxGap <= claims'[i].at + Patience
    <3>1. CASE i \in 1 .. Len(claims)
          BY <2>1, <2>3, <3>1 DEF DateInv, Due
    <3>2. CASE i = Len(claims) + 1
          BY <1>1, <2>1, <3>2
    <3>. QED BY <2>1, <3>1, <3>2
  <2>. QED BY <2>2, <2>3 DEF Due
<1>3. ASSUME ~FlushRead PROVE Range(Line') \subseteq Range(Line) /\ claims' = claims
  <2>1. claims' = claims /\ \A s \in Range(Queue') : \E r \in Range(Queue) : Lowered(r, s)
        BY <1>3, QueueKeeps
  <2>2. Outstanding = Range(Line) /\ Outstanding' = Range(Line')
    <3>1. SocketType' => (Outstanding = Range(Line))'
          BY OutstandingIs, PTL
    <3>2. SocketType'
          BY ShapesNext DEF Shapes
    <3>. QED BY <1>1, <3>1, <3>2, OutstandingIs
  <2>. QED BY <2>1, <2>2 DEF Outstanding, Lowered
<1>4. CASE KillDone
  <2>1. now = clock /\ timeCache' = now /\ Line' = Line /\ claims' = claims
        BY <1>4 DEF KillDone, ClockInv, InLoop, hist, Line, Queue
  <2>2. CASE first # <<>>
    <3>1. \A c \in Range(Line) : Due(c, now)
          BY <1>4, <2>2, NoneIsPast
    <3>2. \A c \in Range(Line) : \A i \in DOMAIN claims : claims[i].cycle = c => now - MaxGap <= claims[i].at + Patience
      <4>1. \A i \in DOMAIN claims : claims[i].at \in Nat
        <5>1. claims \in Seq([cycle : Cycles, at : Nat])
              BY DEF Shapes, SocketType
        <5>2. \A i \in DOMAIN claims : claims[i] \in [cycle : Cycles, at : Nat]
              BY <5>1, ElementOfSeq, LenProperties
        <5>. QED BY <5>2
      <4>. QED BY <1>1, <3>1, <4>1 DEF Due
    <3>. QED BY <2>1, <3>2 DEF Due
  <2>3. CASE first = <<>>
    <3>1. \A c \in Range(Line) : Due(c, timeCache)
          BY <1>1, <1>4, <2>3, FirstLeads DEF KillDone, DateInv, Polling
    <3>2. now - MaxGap <= timeCache
          BY <1>1, <2>1 DEF ClockInv
    <3>3. \A c \in Range(Line) : \A i \in DOMAIN claims : claims[i].cycle = c => now - MaxGap <= claims[i].at + Patience
      <4>1. \A i \in DOMAIN claims : claims[i].at \in Nat
        <5>1. claims \in Seq([cycle : Cycles, at : Nat])
              BY DEF Shapes, SocketType
        <5>2. \A i \in DOMAIN claims : claims[i] \in [cycle : Cycles, at : Nat]
              BY <5>1, ElementOfSeq, LenProperties
        <5>. QED BY <5>2
      <4>. QED BY <1>1, <3>1, <3>2, <4>1 DEF Due
    <3>. QED BY <2>1, <3>3 DEF Due
  <2>. QED BY <2>2, <2>3
<1>5. ASSUME ~KillDone PROVE timeCache' = timeCache
      BY <1>5 DEF Next, Lib, App, Net, Open, Close, Abort, Return, Check, KillExpired, Receive, ReceiveBad,
         LinkDown, Word, WordsDone, CheckDone, FlushNot, Flush, Send, FlushRefuse, FlushWrite, FlushRead,
         FlushDone, CloseDevice, CloseCycle, CloseDone, Tick, vars, socket
<1>6. CASE ~FlushRead /\ ~KillDone
      BY <1>3, <1>5, <1>6 DEF DateInv, Due
<1>. QED BY <1>2, <1>4, <1>6

\* ... and the younger list up to date, unless the older one has just become empty.
LEMMA YoungerNext ==
  ASSUME Shapes, HeldInv, ClaimInv, StampInv, ClockInv, DateInv, [Next]_vars
  PROVE  ((\A c \in Range(LineOf(last)) : Due(c, timeCache)) \/ (first = <<>> /\ Polling))'
<1>. DEFINE Fresh == \A c \in Range(LineOf(last)) : Due(c, timeCache)
<1>1. /\ SocketType /\ first \in Seq(Response) /\ last \in Seq(Response)
      /\ timeCache \in Nat /\ Patience \in Nat
      /\ ret \in {"app", "kill", "words", "flush", "close"}
      BY ConstantsAre DEF Shapes, SocketType, LocalType
<1>2. Fresh \/ (first = <<>> /\ Polling)
      BY DEF DateInv
<1>3. ASSUME last' = <<>> PROVE Fresh'
  <2>1. LineOf(<<>>) = <<>> /\ Range(<<>>) = {}
        BY EmptyIs DEF LineOf
  <2>. QED BY <1>3, <2>1
<1>4. ASSUME UNCHANGED <<last, timeCache, claims>>, Fresh PROVE Fresh'
      BY <1>4 DEF Due
<1>5. ASSUME UNCHANGED <<first, last, timeCache, claims>>, Polling => Polling'
      PROVE  Fresh' \/ (first = <<>> /\ Polling)'
      BY <1>2, <1>4, <1>5
<1>6. CASE KillExpired
  <2>1. UNCHANGED <<last, timeCache, claims>> /\ ~Polling
        BY <1>6 DEF KillExpired, Polling
  <2>. QED BY <1>2, <1>4, <2>1
<1>7. CASE KillDone
  <2>1. now = clock /\ timeCache' = now /\ UNCHANGED <<first, last, claims>> /\ Polling'
        BY <1>7 DEF KillDone, ClockInv, InLoop, hist, Polling
  <2>2. CASE first # <<>>
    <3>1. \A c \in Range(LineOf(last)) : Due(c, now)
          BY <1>1, <1>7, <2>2, NoneIsPast, FirstLeads
    <3>. QED BY <2>1, <3>1 DEF Due
  <2>3. CASE first = <<>>
        BY <2>1, <2>3
  <2>. QED BY <2>2, <2>3
<1>8. CASE Word
  <2>1. UNCHANGED <<timeCache, claims>> /\ last' = IF Hits(first) = {} THEN <<>> ELSE last
        BY <1>8 DEF Word
  <2>2. CASE Hits(first) = {}
        BY <1>3, <2>1, <2>2
  <2>3. CASE Hits(first) # {}
    <3>1. first # <<>>
          BY <2>3, EmptyIs DEF Hits
    <3>. QED BY <1>2, <1>4, <2>1, <2>3, <3>1
  <2>. QED BY <2>2, <2>3
<1>9. CASE CheckDone
  <2>1. UNCHANGED <<timeCache, claims>> /\ (first = <<>> => last' = <<>>) /\ (first # <<>> => last' = last)
        BY <1>9 DEF CheckDone, hist
  <2>. QED BY <1>2, <1>3, <1>4, <2>1
<1>10. ASSUME NEW d \in Devices, CloseDevice(d) PROVE Fresh'
       BY <1>3, <1>10 DEF CloseDevice
<1>11. CASE FlushRead
  <2>1. UNCHANGED <<first, timeCache, pc, ret>>
        BY <1>11 DEF FlushRead
  <2>2. CASE first = <<>> /\ Polling
        BY <2>1, <2>2 DEF Polling
  <2>3. CASE Fresh
    <3>1. PICK c \in Cycles, r \in Response :
            /\ r.cycle = c /\ last' = <<r>> \o last
            /\ Len(claims) \in Nat /\ DOMAIN claims = 1 .. Len(claims) /\ DOMAIN claims' = 1 .. Len(claims) + 1
            /\ \A i \in 1 .. Len(claims) : claims'[i] = claims[i] /\ claims[i].cycle # c
            /\ claims'[Len(claims) + 1].cycle = c /\ claims'[Len(claims) + 1].at = timeCache
            /\ c \notin Range(Line)
          BY <1>11, ReadIs
    <3>2. Range(LineOf(last')) = Range(LineOf(last)) \cup {c}
      <4>1. /\ <<r>> \in Seq(Response) /\ Range(<<r>>) = {r} /\ <<r>> \o last \in Seq(Response)
            /\ Range(<<r>> \o last) = {r} \cup Range(last)
        <5>1. \A x \in Response : <<x>> \in Seq(Response) /\ Range(<<x>>) = {x}
              BY OneIs
        <5>2. \A s, t \in Seq(Response) : s \o t \in Seq(Response) /\ Range(s \o t) = Range(s) \cup Range(t)
              BY ConcatIs
        <5>3. r \in Response /\ <<r>> \in Seq(Response) /\ Range(<<r>>) = {r} /\ last \in Seq(Response)
              BY <1>1, <5>1
        <5>. QED BY <5>2, <5>3
      <4>2. \A q \in Seq(Response) : Range(LineOf(q)) = {s.cycle : s \in Range(q)}
        <5>. SUFFICES ASSUME NEW q \in Seq(Response) PROVE Range(LineOf(q)) = {s.cycle : s \in Range(q)}
             OBVIOUS
        <5>1. DOMAIN LineOf(q) = DOMAIN q /\ \A i \in DOMAIN q : LineOf(q)[i] = q[i].cycle
              BY LineIs
        <5>. QED BY <5>1 DEF Range
      <4>3. {s.cycle : s \in {r} \cup Range(last)} = {s.cycle : s \in Range(last)} \cup {c}
            BY <3>1
      <4>. QED BY <1>1, <3>1, <4>1, <4>2, <4>3
    <3>3. c \notin Range(LineOf(last))
          BY <1>1, <3>1, FirstLeads
    <3>4. ASSUME NEW b \in Range(LineOf(last')), NEW i \in DOMAIN claims', claims'[i].cycle = b
          PROVE  timeCache <= claims'[i].at + Patience
      <4>1. CASE i \in 1 .. Len(claims)
        <5>1. claims'[i] = claims[i] /\ b # c /\ b \in Range(LineOf(last))
              BY <3>1, <3>2, <3>4, <4>1
        <5>. QED BY <2>3, <3>1, <3>4, <4>1, <5>1 DEF Due
      <4>2. CASE i = Len(claims) + 1
            BY <1>1, <3>1, <4>2
      <4>. QED BY <3>1, <4>1, <4>2
    <3>. QED BY <2>1, <3>4 DEF Due
  <2>. QED BY <1>2, <2>2, <2>3
<1>12. CASE Return \/ Check \/ WordsDone \/ FlushNot \/ Flush \/ Send \/ FlushWrite \/ FlushDone
            \/ (\E fault \in {"OOM", "OVERFLOW", "WIDTH", "EMPTY"} : FlushRefuse(fault))
            \/ CloseCycle \/ CloseDone \/ LinkDown \/ Tick \/ UNCHANGED vars
  <2>1. UNCHANGED <<first, last, timeCache, claims>>
        BY <1>12 DEF Return, Check, WordsDone, FlushNot, Flush, Send, FlushWrite, FlushDone,
             FlushRefuse, CloseCycle, CloseDone, LinkDown, Tick, vars, socket, locals, env, hist
  <2>2. Polling => Polling'
        BY <1>12 DEF Return, Check, WordsDone, FlushNot, Flush, Send, FlushWrite, FlushDone,
             FlushRefuse, CloseCycle, CloseDone, LinkDown, Tick, vars, Call, Polling
  <2>. QED BY <1>5, <2>1, <2>2
<1>13. ASSUME NEW c \in Cycles, Open(c) \/ Close(c) \/ Abort(c) PROVE Fresh' \/ (first = <<>> /\ Polling)'
  <2>1. UNCHANGED <<first, last, timeCache, claims, pc, ret>>
        BY <1>13 DEF Open, Close, Abort, socket, hist
  <2>. QED BY <1>5, <2>1 DEF Polling
<1>14. ASSUME NEW p, Receive(p) PROVE Fresh' \/ (first = <<>> /\ Polling)'
  <2>1. UNCHANGED <<first, last, timeCache, claims>> /\ Polling'
        BY <1>14 DEF Receive, socket, hist, Polling
  <2>. QED BY <1>5, <2>1
<1>15. ASSUME NEW r, NEW s, ReceiveBad(r, s) PROVE Fresh' \/ (first = <<>> /\ Polling)'
  <2>1. UNCHANGED <<first, last, timeCache, claims>> /\ Polling'
        BY <1>15 DEF ReceiveBad, socket, hist, Polling
  <2>. QED BY <1>5, <2>1
<1>. QED BY <1>6, <1>7, <1>8, <1>9, <1>10, <1>11, <1>12, <1>13, <1>14, <1>15 DEF Next, Lib, App, Net

\* The deadlines of the responses are what was asked for, although only their low
\* bits are kept and the clock jumps between two checks (master.c:516,
\* eb_socket_timeout): no cycle is given up early, or kept for half a turn.
THEOREM DeadlinesAreMeant == Spec => []DeadlineSurvives
<1>1. Init => ClaimInv /\ StampInv /\ ClockInv /\ DateInv
      BY ClaimInit, StampInit, ClockInit
<1>2. SafeInv /\ ClaimInv /\ StampInv /\ ClockInv /\ DateInv /\ [Next]_vars
        => ClaimInv' /\ StampInv' /\ ClockInv' /\ DateInv'
      BY ClaimNext, StampNext, ClockNext, OrderNext, LateNext, YoungerNext DEF SafeInv, DateInv
<1>3. SafeInv /\ StampInv /\ ClockInv /\ DateInv => DeadlineSurvives
      BY DeadlineIs DEF SafeInv
<1>. QED BY <1>1, <1>2, <1>3, SafeInvariant, PTL DEF Spec

-----------------------------------------------------------------------------
(* Read-back addresses.                                                    *)

\* The cycles that may still claim an address.
Live == {c \in Cycles : state[c] \in {"open", "closed"}}
Coming == Live \ Claimed

\* Between the claim of a cycle that waits and the last that may still come there
\* is less than a turn of the addresses.
WindowInv ==
  /\ IsFiniteSet(Live) /\ Cardinality(Coming) <= RbaMod
  /\ \A i \in DOMAIN claims : claims[i].cycle \in Range(Line) =>
       Len(claims) - i + 1 + Cardinality(Coming) <= RbaMod

\* Only eb_cycle_open brings a cycle that may claim an address.
LEMMA LiveNext ==
  ASSUME Shapes, [Next]_vars, \A c \in Cycles : ~Open(c)
  PROVE  Live' \subseteq Live
<1>1. state \in [Cycles -> {"new", "open", "closed", "aborted", "gone"}]
      BY DEF Shapes, AppType
<1>2. state' = state => Live' \subseteq Live
      BY DEF Live
<1>3. ASSUME NEW c, NEW with, NEW where, Call(c, with, where) PROVE Live' \subseteq Live
      BY <1>1, <1>3 DEF Call, Live
<1>4. ASSUME NEW c \in Cycles, Close(c) \/ Abort(c) PROVE Live' \subseteq Live
      BY <1>1, <1>4 DEF Close, Abort, Live
<1>5. CASE KillExpired \/ FlushWrite \/ CloseCycle
           \/ \E fault \in {"OOM", "OVERFLOW", "WIDTH", "EMPTY"} : FlushRefuse(fault)
      BY <1>3, <1>5 DEF KillExpired, FlushWrite, CloseCycle, FlushRefuse
<1>6. CASE Word
  <2>1. SocketType
        BY DEF Shapes
  <2>. QED BY <1>2, <1>3, <1>6, <2>1, WordTakes
<1>7. CASE Return \/ Check \/ KillDone \/ WordsDone \/ CheckDone \/ FlushNot \/ Flush \/ Send
           \/ FlushRead \/ FlushDone \/ CloseDone \/ LinkDown \/ Tick \/ UNCHANGED vars
      BY <1>2, <1>7 DEF Return, Check, KillDone, WordsDone, CheckDone, FlushNot, Flush, Send,
         FlushRead, FlushDone, CloseDone, LinkDown, Tick, vars
<1>8. ASSUME NEW d \in Devices, CloseDevice(d) PROVE Live' \subseteq Live
      BY <1>2, <1>8 DEF CloseDevice
<1>9. ASSUME NEW p, Receive(p) PROVE Live' \subseteq Live
      BY <1>2, <1>9 DEF Receive
<1>10. ASSUME NEW r, NEW s, ReceiveBad(r, s) PROVE Live' \subseteq Live
      BY <1>2, <1>10 DEF ReceiveBad
<1>. QED BY <1>4, <1>5, <1>6, <1>7, <1>8, <1>9, <1>10 DEF Next, Lib, App, Net

\* At first no cycle is open.
LEMMA WindowInit == Init => WindowInv
<1> SUFFICES ASSUME Init PROVE WindowInv
    OBVIOUS
<1>1. Live = {} /\ Coming = {} /\ DOMAIN claims = {}
      BY EmptyIs DEF Init, Live, Coming
<1>2. IsFiniteSet({}) /\ Cardinality({}) = 0
      BY FS_EmptySet
<1>. QED BY <1>1, <1>2, ConstantsAre DEF WindowInv

\* Each step keeps WindowInv: where a cycle is opened Room keeps the distance, and
\* a claim takes one of those that were to come.
LEMMA WindowNext == Shapes /\ HeldInv /\ ClaimInv /\ WindowInv /\ [Next]_vars => WindowInv'
<1> SUFFICES ASSUME Shapes, HeldInv, ClaimInv, WindowInv, [Next]_vars PROVE WindowInv'
    OBVIOUS
<1>1. /\ SocketType /\ SocketType' /\ Outstanding = Range(Line) /\ Outstanding' = Range(Line')
      /\ Len(claims) \in Nat /\ DOMAIN claims = 1 .. Len(claims) /\ RbaMod \in Nat
  <2>1. SocketType /\ SocketType'
        BY ShapesNext DEF Shapes
  <2>2. Outstanding = Range(Line)
        BY <2>1, QueueIs
  <2>3. (SocketType => Outstanding = Range(Line))'
        BY QueueIs, PTL
  <2>. QED BY <2>1, <2>2, <2>3, ConstantsAre, LenProperties DEF SocketType
<1>2. IsFiniteSet(Live) /\ IsFiniteSet(Coming) /\ Cardinality(Coming) \in Nat
  <2>1. IsFiniteSet(Live) /\ Coming \subseteq Live
        BY DEF WindowInv, Coming
  <2>. QED BY <2>1, FS_Subset, FS_CardinalityType
<1>3. CASE ~FlushRead /\ \A c \in Cycles : ~Open(c)
  <2>1. Live' \subseteq Live
        BY <1>3, LiveNext
  <2>2. claims' = claims /\ \A s \in Range(Queue') : \E r \in Range(Queue) : Lowered(r, s)
        BY <1>3, QueueKeeps
  <2>3. Range(Line') \subseteq Range(Line)
        BY <1>1, <2>2 DEF Outstanding, Lowered
  <2>4. Coming' \subseteq Coming
        BY <2>1, <2>2 DEF Coming, Claimed
  <2>5. IsFiniteSet(Live') /\ Cardinality(Coming') \in Nat /\ Cardinality(Coming') <= Cardinality(Coming)
        BY <1>2, <2>1, <2>4, FS_Subset, FS_CardinalityType
  <2>. QED BY <1>1, <1>2, <2>2, <2>3, <2>5 DEF WindowInv
<1>4. ASSUME NEW c \in Cycles, Open(c) PROVE WindowInv'
  <2>1. Live' \subseteq Live \cup {c} /\ claims' = claims /\ Line' = Line
        BY <1>4 DEF Open, Live, Shapes, AppType, socket, hist, Line, Queue
  <2>. DEFINE coming == Live \ Outstanding
  <2>2. \A i \in {i \in DOMAIN claims : claims[i].cycle \in Outstanding} \cup {Len(claims) + 1} :
          Len(claims) - i + 1 + Cardinality(coming) < RbaMod
        BY <1>4 DEF Open, Room, Live
  <2>3. Coming \subseteq coming
        BY <1>1 DEF ClaimInv, Coming
  <2>4. Cardinality(coming) \in Nat /\ Cardinality(Coming) <= Cardinality(coming)
        BY <1>2, <2>3, FS_Subset, FS_CardinalityType
  <2>5. IsFiniteSet(Live') /\ Coming' \subseteq Coming \cup {c}
    <3>1. IsFiniteSet(Live \cup {c})
          BY <1>2, FS_AddElement
    <3>2. IsFiniteSet(Live')
          BY <2>1, <3>1, FS_Subset
    <3>3. Claimed' = Claimed
          BY <2>1 DEF Claimed
    <3>. QED BY <2>1, <3>2, <3>3 DEF Coming
  <2>6. Cardinality(Coming') \in Nat /\ Cardinality(Coming') <= Cardinality(Coming) + 1
    <3>1. /\ IsFiniteSet(Coming \cup {c})
          /\ Cardinality(Coming \cup {c}) = Cardinality(Coming) \/ Cardinality(Coming \cup {c}) = Cardinality(Coming) + 1
          BY <1>2, FS_AddElement
    <3>. QED BY <1>2, <2>5, <3>1, FS_Subset, FS_CardinalityType
  <2>. HIDE DEF coming
  <2>7. Cardinality(coming) < RbaMod
    <3>1. Len(claims) - (Len(claims) + 1) + 1 + Cardinality(coming) < RbaMod
          BY <2>2
    <3>. QED BY <1>1, <2>4, <3>1
  <2>8. \A i \in DOMAIN claims : claims[i].cycle \in Range(Line) =>
          Len(claims) - i + 1 + Cardinality(coming) < RbaMod
        BY <1>1, <2>2
  <2>. QED BY <1>1, <1>2, <2>1, <2>4, <2>5, <2>6, <2>7, <2>8 DEF WindowInv
<1>5. CASE FlushRead
  <2>1. PICK c \in Cycles :
          /\ state[c] = "closed" /\ c \notin Claimed
          /\ Range(Line') = Range(Line) \cup {c} /\ Claimed' = Claimed \cup {c}
          /\ Len(claims') = Len(claims) + 1 /\ DOMAIN claims' = 1 .. Len(claims) + 1
          /\ \A i \in 1 .. Len(claims) : claims'[i] = claims[i] /\ claims[i].cycle # c
        BY <1>5, ReadIs
  <2>2. Live' = Live /\ Coming' = Coming \ {c} /\ c \in Coming
        BY <1>5, <2>1 DEF FlushRead, Live, Coming
  <2>3. Cardinality(Coming') = Cardinality(Coming) - 1
        BY <1>2, <2>2, FS_RemoveElement
  <2>4. ASSUME NEW i \in DOMAIN claims', claims'[i].cycle \in Range(Line')
        PROVE  Len(claims') - i + 1 + Cardinality(Coming') <= RbaMod
    <3>1. CASE i \in 1 .. Len(claims)
      <4>1. claims[i].cycle \in Range(Line)
            BY <2>1, <2>4, <3>1
      <4>2. Len(claims) - i + 1 + Cardinality(Coming) <= RbaMod
            BY <1>1, <3>1, <4>1 DEF WindowInv
      <4>. QED BY <1>1, <1>2, <2>1, <2>3, <3>1, <4>2
    <3>2. CASE i = Len(claims) + 1
          BY <1>1, <1>2, <2>1, <2>3, <3>2 DEF WindowInv
    <3>. QED BY <2>1, <3>1, <3>2
  <2>5. IsFiniteSet(Live') /\ Cardinality(Coming') <= RbaMod
        BY <1>1, <1>2, <2>2, <2>3 DEF WindowInv
  <2>. QED BY <2>4, <2>5 DEF WindowInv
<1>. QED BY <1>3, <1>4, <1>5

\* What a packet says of the cycles that read: their place among the claims, and
\* with it their address.
EntriesClaimed(p) == \A i \in DOMAIN p : Words(p[i].cycle) > 0 =>
  /\ p[i].k + 1 \in DOMAIN claims /\ claims[p[i].k + 1].cycle = p[i].cycle
  /\ p[i].address = p[i].k % RbaMod
EntriesInv == EntriesClaimed(packet) /\ \A p \in sent : EntriesClaimed(p)

\* At first there is no packet.
LEMMA EntriesInit == Init => EntriesInv
BY EmptyIs DEF Init, EntriesInv, EntriesClaimed

\* Each step keeps EntriesInv: eb_device_flush writes the address it claims.
LEMMA EntriesNext == Shapes /\ HeldInv /\ ClaimInv /\ StampInv /\ EntriesInv /\ [Next]_vars => EntriesInv'
<1> SUFFICES ASSUME Shapes, HeldInv, ClaimInv, StampInv, EntriesInv, [Next]_vars PROVE EntriesInv'
    OBVIOUS
<1>1. /\ packet \in Seq(Entry) /\ todo \in Seq(Cycles) /\ rba \in 0 .. RbaMod - 1
      /\ Len(claims) \in Nat /\ DOMAIN claims = 1 .. Len(claims)
      BY LenProperties DEF Shapes, LocalType, SocketType
<1>2. \A j \in DOMAIN claims : j \in DOMAIN claims' /\ claims'[j] = claims[j]
  <2>1. CASE ~FlushRead
    <3>1. claims' = claims
          BY <2>1, QueueKeeps
    <3>. QED BY <3>1
  <2>2. CASE FlushRead
    <3>1. /\ DOMAIN claims' = 1 .. Len(claims) + 1
          /\ \A i \in 1 .. Len(claims) : claims'[i] = claims[i]
          BY <2>2, ReadIs
    <3>. QED BY <1>1, <3>1
  <2>. QED BY <2>1, <2>2
<1>3. ASSUME UNCHANGED <<packet, sent>> PROVE EntriesInv'
      BY <1>2, <1>3 DEF EntriesInv, EntriesClaimed
<1>4. CASE Send
  <2>1. packet' = <<>> /\ sent' = sent \cup {packet}
        BY <1>4 DEF Send
  <2>2. DOMAIN packet' = {}
        BY <2>1, EmptyIs
  <2>. QED BY <1>2, <2>1, <2>2 DEF EntriesInv, EntriesClaimed
\* One more cycle is written.
<1>5. ASSUME NEW e \in Entry, packet' = Append(packet, e), sent' = sent,
             Words(e.cycle) > 0 =>
               /\ e.k + 1 \in DOMAIN claims' /\ claims'[e.k + 1].cycle = e.cycle
               /\ e.address = e.k % RbaMod
      PROVE  EntriesInv'
  <2>1. /\ Len(packet) \in Nat /\ DOMAIN packet = 1 .. Len(packet)
        /\ Append(packet, e) \in Seq(Entry) /\ Len(Append(packet, e)) = Len(packet) + 1
        /\ \A i \in 1 .. Len(packet) + 1 : Append(packet, e)[i] = IF i <= Len(packet) THEN packet[i] ELSE e
        BY <1>1, AppendIs, LenProperties
  <2>2. DOMAIN packet' = 1 .. Len(packet) + 1
        BY <1>5, <2>1, LenProperties
  <2>3. \A i \in DOMAIN packet' : packet'[i] = e \/ (i \in DOMAIN packet /\ packet'[i] = packet[i])
        BY <1>5, <2>1, <2>2
  <2>4. EntriesClaimed(packet)'
        BY <1>2, <1>5, <2>3 DEF EntriesInv, EntriesClaimed
  <2>5. \A p \in sent' : EntriesClaimed(p)'
        BY <1>2, <1>5 DEF EntriesInv, EntriesClaimed
  <2>. QED BY <2>4, <2>5 DEF EntriesInv
<1>6. CASE FlushWrite
  <2>. DEFINE c == Head(todo)  e == [address |-> rba, cycle |-> c, k |-> Len(claims)]
  <2>1. packet' = Append(packet, e) /\ sent' = sent /\ Words(c) = 0 /\ c \in Cycles
        BY <1>1, <1>6, HeadTailIs DEF FlushWrite, env
  <2>2. e \in Entry /\ e.cycle = c
        BY <1>1, <2>1 DEF Entry
  <2>. HIDE DEF c, e
  <2>. QED BY <1>5, <2>1, <2>2
<1>7. CASE FlushRead
  <2>1. PICK c \in Cycles :
          /\ packet' = Append(packet, [address |-> rba, cycle |-> c, k |-> Len(claims)])
          /\ DOMAIN claims' = 1 .. Len(claims) + 1 /\ claims'[Len(claims) + 1].cycle = c
        BY <1>7, ReadIs
  <2>. DEFINE e == [address |-> rba, cycle |-> c, k |-> Len(claims)]
  <2>2. e \in Entry /\ e.cycle = c /\ e.k = Len(claims) /\ e.address = rba
        BY <1>1, <2>1 DEF Entry
  <2>3. packet' = Append(packet, e) /\ sent' = sent
        BY <1>7, <2>1 DEF FlushRead, env
  <2>. HIDE DEF e
  <2>4. /\ e.k + 1 \in DOMAIN claims' /\ claims'[e.k + 1].cycle = e.cycle
        /\ e.address = e.k % RbaMod
        BY <1>1, <2>1, <2>2 DEF StampInv
  <2>. QED BY <1>5, <2>2, <2>3, <2>4
<1>8. CASE Return \/ Check \/ KillExpired \/ KillDone \/ Word \/ WordsDone \/ CheckDone \/ FlushNot \/ Flush
           \/ (\E fault \in {"OOM", "OVERFLOW", "WIDTH", "EMPTY"} : FlushRefuse(fault))
           \/ FlushDone \/ CloseCycle \/ CloseDone \/ LinkDown \/ Tick \/ UNCHANGED vars
      BY <1>3, <1>8 DEF Return, Check, KillExpired, KillDone, Word, WordsDone, CheckDone, FlushNot, Flush,
         FlushRefuse, FlushDone, CloseCycle, CloseDone, LinkDown, Tick, vars, locals, env
<1>9. ASSUME NEW c \in Cycles, Open(c) \/ Close(c) \/ Abort(c) PROVE EntriesInv'
      BY <1>3, <1>9 DEF Open, Close, Abort, locals, env
<1>10. ASSUME NEW d \in Devices, CloseDevice(d) PROVE EntriesInv'
      BY <1>3, <1>10 DEF CloseDevice, env
<1>11. ASSUME NEW p, Receive(p) PROVE EntriesInv'
      BY <1>3, <1>11 DEF Receive
<1>12. ASSUME NEW r, NEW s, ReceiveBad(r, s) PROVE EntriesInv'
      BY <1>3, <1>12 DEF ReceiveBad, env
<1>. QED BY <1>4, <1>6, <1>7, <1>8, <1>9, <1>10, <1>11, <1>12 DEF Next, Lib, App, Net

\* A word that was received is of an answer that is no older than a turn of the
\* addresses, or it is one the response has no use for.
Answers(x) == \E p \in answered : \E i \in DOMAIN p :
  x.address = p[i].address /\ Words(p[i].cycle) > 0 /\ p[i].k + RbaMod > Len(claims)
Useless(x) == \E r \in Range(Queue) :
  r.address = x.address /\ (IF x.stat THEN r.stats ELSE r.reads) = 0
InboxInv ==
  /\ inbox # <<>> => InLoop("words")
  /\ \/ \A x \in Range(inbox) : Answers(x)
     \/ pc = "words" /\ Len(inbox) = 1 /\ Useless(Head(inbox))

\* At first nothing was received.
LEMMA InboxInit == Init => InboxInv
BY EmptyIs DEF Init, InboxInv

\* Each step keeps InboxInv: while words are read no address is claimed.
LEMMA InboxNext == Shapes /\ HeldInv /\ InboxInv /\ [Next]_vars => InboxInv'
<1> SUFFICES ASSUME Shapes, HeldInv, InboxInv, [Next]_vars PROVE InboxInv'
    OBVIOUS
<1>1. /\ inbox \in Seq([address : 0 .. RbaMod - 1, stat : BOOLEAN]) /\ SocketType
      /\ \A p \in sent : p \in Seq(Entry)
      BY DEF Shapes, LocalType
<1>2. ASSUME answered' = answered, claims' = claims PROVE \A x : Answers(x) => Answers(x)'
      BY <1>2 DEF Answers
<1>3. ASSUME inbox' = <<>> PROVE InboxInv'
      BY <1>3, EmptyIs DEF InboxInv
<1>4. ASSUME inbox' = inbox, ~InLoop("words") PROVE InboxInv'
      BY <1>3, <1>4 DEF InboxInv
<1>5. CASE Word
  <2>1. /\ inbox # <<>> /\ inbox' = Tail(inbox) /\ UNCHANGED <<answered, claims>> /\ InLoop("words")'
    <3>1. inbox # <<>> /\ inbox' = Tail(inbox) /\ UNCHANGED <<answered, claims>> /\ pc = "words"
          BY <1>5 DEF Word, env
    <3>2. UNCHANGED <<state, pc, ret, calls, status>> \/ \E c, with : Call(c, with, "words")
          BY <1>1, <1>5, WordTakes
    <3>. QED BY <3>1, <3>2 DEF InLoop, Call
  <2>2. Range(Tail(inbox)) \subseteq Range(inbox) /\ (Len(inbox) = 1 => Tail(inbox) = <<>>)
        BY <1>1, <2>1, HeadTailIs, RangeIs
  <2>. QED BY <1>2, <1>3, <2>1, <2>2 DEF InboxInv
<1>6. ASSUME NEW p \in sent, Receive(p) PROVE InboxInv'
  <2>. DEFINE words == FlattenSeq([i \in DOMAIN p |->
                [w \in 1 .. Words(p[i].cycle) |->
                   [address |-> p[i].address, stat |-> w > Shape[p[i].cycle].reads]]])
  <2>1. /\ inbox' = words /\ pc' = "words" /\ claims' = claims /\ p \in answered'
        /\ \A i \in DOMAIN p : p[i].k + RbaMod > Len(claims)
        BY <1>6 DEF Receive, hist
  <2>2. \A x \in Range(words) : \E i \in DOMAIN p : Words(p[i].cycle) > 0 /\ x.address = p[i].address
        BY <1>1, InboxIs
  <2>. HIDE DEF words
  <2>. QED BY <2>1, <2>2 DEF InboxInv, InLoop, Answers
<1>7. ASSUME NEW r \in Range(Queue), NEW s \in BOOLEAN, ReceiveBad(r, s) PROVE InboxInv'
  <2>. DEFINE x == [address |-> r.address, stat |-> s]
  <2>1. inbox' = <<x>> /\ pc' = "words" /\ Queue' = Queue /\ (IF s THEN r.stats ELSE r.reads) = 0
        BY <1>7 DEF ReceiveBad, socket, Queue
  <2>2. x.address = r.address /\ x.stat = s
        OBVIOUS
  <2>. HIDE DEF x
  <2>3. Len(inbox') = 1 /\ Head(inbox') = x
        BY <2>1
  <2>4. Useless(x)'
        BY <2>1, <2>2 DEF Useless
  <2>. QED BY <2>1, <2>3, <2>4 DEF InboxInv, InLoop
<1>8. CASE WordsDone
      BY <1>3, <1>8 DEF WordsDone, locals
<1>9. CASE Check \/ KillExpired \/ KillDone \/ CheckDone \/ FlushNot \/ Flush \/ Send \/ FlushWrite
           \/ (\E fault \in {"OOM", "OVERFLOW", "WIDTH", "EMPTY"} : FlushRefuse(fault))
           \/ FlushRead \/ FlushDone \/ CloseCycle \/ CloseDone \/ LinkDown \/ Tick
      BY <1>4, <1>9 DEF Check, KillExpired, KillDone, CheckDone, FlushNot, Flush, Send, FlushWrite,
         FlushRefuse, FlushRead, FlushDone, CloseCycle, CloseDone, LinkDown, Tick, locals, InLoop
<1>10. ASSUME NEW d \in Devices, CloseDevice(d) PROVE InboxInv'
      BY <1>4, <1>10 DEF CloseDevice, InLoop
\* A callback opens, closes or aborts a cycle, or returns.
<1>11. ASSUME UNCHANGED <<inbox, answered, claims>>, pc # "words", InLoop("words") => InLoop("words")'
       PROVE  InboxInv'
  <2>1. inbox # <<>> => InLoop("words")'
        BY <1>11 DEF InboxInv
  <2>2. \A x \in Range(inbox) : Answers(x)'
        BY <1>2, <1>11 DEF InboxInv
  <2>. QED BY <1>11, <2>1, <2>2 DEF InboxInv
<1>12. ASSUME NEW c \in Cycles, Open(c) \/ Close(c) \/ Abort(c) PROVE InboxInv'
  <2>1. UNCHANGED <<inbox, answered, claims, pc, ret>> /\ pc # "words"
        BY <1>12 DEF Open, Close, Abort, locals, env, hist
  <2>. QED BY <1>11, <2>1 DEF InLoop
<1>13. CASE Return
  <2>1. UNCHANGED <<inbox, answered, claims>> /\ pc = "callback" /\ pc' = ret
        BY <1>13 DEF Return, locals, env, hist
  <2>. QED BY <1>11, <2>1 DEF InLoop
<1>14. CASE UNCHANGED vars
  <2>1. UNCHANGED <<inbox, answered, claims, pc, ret>> /\ Queue' = Queue
        BY <1>14 DEF vars, locals, env, hist, socket, Queue
  <2>. QED BY <2>1 DEF InboxInv, Answers, Useless, InLoop
<1>. QED BY <1>5, <1>6, <1>7, <1>8, <1>9, <1>10, <1>12, <1>13, <1>14 DEF Next, Lib, App, Net

\* Two claims of cycles that may both be asked for have different addresses.
LEMMA SameAddress ==
  ASSUME Shapes, WindowInv, NEW i \in DOMAIN claims, NEW j \in DOMAIN claims,
         claims[i].cycle \in Range(Line), Len(claims) <= j - 1 + RbaMod,
         (i - 1) % RbaMod = (j - 1) % RbaMod
  PROVE  i = j
<1>1. RbaMod \in Nat \ {0} /\ Len(claims) \in Nat /\ DOMAIN claims = 1 .. Len(claims)
      BY ConstantsAre, LenProperties DEF Shapes, SocketType
<1>2. Cardinality(Coming) \in Nat
  <2>1. IsFiniteSet(Live) /\ Coming \subseteq Live
        BY DEF WindowInv, Coming
  <2>. QED BY <2>1, FS_Subset, FS_CardinalityType
<1>3. Len(claims) - i + 1 + Cardinality(Coming) <= RbaMod
      BY DEF WindowInv
<1>4. i - 1 \in Int /\ j - 1 \in Int /\ -RbaMod < (i - 1) - (j - 1) /\ (i - 1) - (j - 1) < RbaMod
  <2>. DEFINE n == Len(claims)  k == Cardinality(Coming)
  <2>1. n \in Nat /\ k \in Nat /\ i \in 1 .. n /\ j \in 1 .. n /\ n - i + 1 + k <= RbaMod
        /\ n <= j - 1 + RbaMod
        BY <1>1, <1>2, <1>3
  <2>. HIDE DEF n, k
  <2>2. i \in Int /\ j \in Int /\ n \in Int /\ RbaMod \in Int /\ 1 <= i /\ i <= n /\ 1 <= j /\ j <= n
        /\ n - i + 1 <= RbaMod
        BY <1>1, <2>1
  <2>3. n <= j - 1 + RbaMod
        BY <2>1
  <2>4. (i - 1) - (j - 1) < RbaMod
        BY <2>2, <2>3
  <2>5. -RbaMod < (i - 1) - (j - 1)
        BY <2>2
  <2>6. i - 1 \in Int /\ j - 1 \in Int
        BY <2>2
  <2>. QED BY <2>4, <2>5, <2>6, Zenon
<1>5. i - 1 = j - 1
      BY <1>1, <1>4, SameRest
<1>. QED BY <1>1, <1>5

\* A response that a word completes is of the cycle the word answers.
LEMMA WordIsOurs ==
  ASSUME Shapes, HeldInv, ClaimInv, StampInv, WindowInv, EntriesInv, InboxInv,
         inbox # <<>>, NEW r \in Range(Queue), r.address = Head(inbox).address,
         (IF Head(inbox).stat THEN r.stats ELSE r.reads) > 0
  PROVE  \E p \in answered : \E i \in DOMAIN p : p[i].cycle = r.cycle
<1>. DEFINE x == Head(inbox)
<1>1. /\ SocketType /\ Outstanding = Range(Line) /\ answered \subseteq sent /\ x \in Range(inbox)
      /\ Len(claims) \in Nat /\ DOMAIN claims = 1 .. Len(claims) /\ RbaMod \in Nat \ {0}
      BY QueueIs, HeadTailIs, ConstantsAre, LenProperties DEF Shapes, LocalType, SocketType
<1>2. ASSUME NEW s \in Range(Queue)
      PROVE  /\ s.cycle \in Range(Line)
             /\ \E i \in DOMAIN claims : claims[i].cycle = s.cycle /\ s.address = (i - 1) % RbaMod
  <2>1. s.cycle \in Range(Line) /\ s.cycle \in Claimed
        BY <1>1 DEF Outstanding, ClaimInv
  <2>. QED BY <2>1 DEF Claimed, StampInv
<1>3. PICK i \in DOMAIN claims : claims[i].cycle = r.cycle /\ r.address = (i - 1) % RbaMod
      BY <1>2
<1>4. CASE Answers(x)
  <2>. HIDE DEF x
  <2>0. PICK p \in answered : \E n \in DOMAIN p :
          x.address = p[n].address /\ Words(p[n].cycle) > 0 /\ p[n].k + RbaMod > Len(claims)
        BY <1>4 DEF Answers
  <2>1. PICK n \in DOMAIN p :
          x.address = p[n].address /\ Words(p[n].cycle) > 0 /\ p[n].k + RbaMod > Len(claims)
        BY <2>0
  <2>. DEFINE j == p[n].k + 1
  <2>2. j \in DOMAIN claims /\ claims[j].cycle = p[n].cycle /\ p[n].address = p[n].k % RbaMod
        BY <1>1, <2>1 DEF EntriesInv, EntriesClaimed
  <2>3. p[n].k \in Int
    <3>1. p \in Seq(Entry)
          BY <1>1 DEF Shapes, LocalType
    <3>2. p[n] \in Entry
          BY <3>1, LenProperties, ElementOfSeq
    <3>. QED BY <3>2 DEF Entry
  <2>4. j - 1 = p[n].k
        BY <2>3
  <2>5. i = j
    <3>1. claims[i].cycle \in Range(Line) /\ (i - 1) % RbaMod = (j - 1) % RbaMod
          BY <1>2, <1>3, <2>1, <2>2, <2>4 DEF x
    <3>2. Len(claims) <= j - 1 + RbaMod
          BY <1>1, <2>1, <2>3, <2>4
    <3>. HIDE DEF j
    <3>. QED BY <2>2, <3>1, <3>2, SameAddress
  <2>. QED BY <1>3, <2>1, <2>2, <2>5
<1>5. CASE Useless(x)
  <2>1. PICK s \in Range(Queue) : s.address = x.address /\ (IF x.stat THEN s.stats ELSE s.reads) = 0
        BY <1>5 DEF Useless
  <2>2. PICK j \in DOMAIN claims : claims[j].cycle = s.cycle /\ s.address = (j - 1) % RbaMod
        BY <1>2
  <2>3. /\ claims[i].cycle \in Range(Line) /\ claims[j].cycle \in Range(Line)
        /\ (i - 1) % RbaMod = (j - 1) % RbaMod
        BY <1>2, <1>3, <2>1, <2>2
  <2>4. Cardinality(Coming) \in Nat
    <3>1. IsFiniteSet(Live) /\ Coming \subseteq Live
          BY DEF WindowInv, Coming
    <3>. QED BY <3>1, FS_Subset, FS_CardinalityType
  <2>5. Len(claims) <= j - 1 + RbaMod
    <3>1. Len(claims) - j + 1 + Cardinality(Coming) <= RbaMod
          BY <2>3 DEF WindowInv
    <3>. QED BY <1>1, <2>4, <3>1
  <2>6. i = j
        BY <2>3, <2>5, SameAddress
  <2>7. r = s
    <3>1. PICK a \in DOMAIN Queue : Queue[a] = r
          BY DEF Range
    <3>2. PICK b \in DOMAIN Queue : Queue[b] = s
          BY DEF Range
    <3>3. Line[a] = r.cycle /\ Line[b] = s.cycle /\ a \in DOMAIN Line /\ b \in DOMAIN Line
          BY <3>1, <3>2 DEF Line, LineOf
    <3>4. IsInjective(Line)
          BY DEF HeldInv, NoneTwice
    <3>5. a = b
          BY <1>3, <2>2, <2>6, <3>3, <3>4 DEF IsInjective
    <3>. QED BY <3>1, <3>2, <3>5
  <2>. QED BY <2>1, <2>7
<1>6. Answers(x) \/ Useless(x)
      BY <1>1 DEF InboxInv
<1>. QED BY <1>4, <1>5, <1>6

\* Each step keeps OkMeansAnswered: OK comes from a word of an answer, or without
\* one for a cycle that reads nothing.
LEMMA OkNext ==
  ASSUME Shapes, HeldInv, ClaimInv, StampInv, WindowInv, EntriesInv, InboxInv,
         OkMeansAnswered, [Next]_vars
  PROVE  OkMeansAnswered'
<1>1. /\ status \in [Cycles -> Status] /\ SocketType /\ todo \in Seq(Cycles)
      /\ first \in Seq(Response) /\ last \in Seq(Response)
      BY DEF Shapes, AppType, LocalType, SocketType
<1>2. answered \subseteq answered'
      BY DEF Next, Lib, App, Net, Return, KillExpired, KillDone, Word, WordsDone, CheckDone, FlushNot, Flush,
         Send, FlushWrite, FlushRead, FlushDone, CloseCycle, CloseDone, FlushRefuse, Receive, ReceiveBad,
         LinkDown, Tick, Open, Close, Abort, Check, CloseDevice, vars, env
<1>3. ASSUME status' = status PROVE OkMeansAnswered'
      BY <1>2, <1>3 DEF OkMeansAnswered
<1>4. ASSUME NEW c \in Cycles, NEW with, NEW where, Call(c, with, where),
             with = "OK" => Words(c) = 0 \/ \E p \in answered : \E i \in DOMAIN p : p[i].cycle = c
      PROVE  OkMeansAnswered'
  <2>1. \A k \in Cycles : status'[k] = IF k = c THEN with ELSE status[k]
        BY <1>1, <1>4 DEF Call
  <2>2. Words(c) = 0 => ~(Words(c) > 0)
        OBVIOUS
  <2>. QED BY <1>2, <1>4, <2>1, <2>2 DEF OkMeansAnswered
<1>5. CASE KillExpired
  <2>1. first # <<>> /\ Call(Head(first).cycle, "TIMEOUT", "kill")
        BY <1>5 DEF KillExpired
  <2>2. Head(first) \in Response
        BY <1>1, <2>1, HeadTailIs
  <2>3. Head(first).cycle \in Cycles
        BY <2>2 DEF Response
  <2>. QED BY <1>4, <2>1, <2>3
<1>6. todo # <<>> => Head(todo) \in Cycles
      BY <1>1, HeadTailIs
<1>7. CASE CloseCycle
      BY <1>4, <1>6, <1>7 DEF CloseCycle
<1>8. CASE FlushWrite
      BY <1>4, <1>6, <1>8 DEF FlushWrite
<1>9. ASSUME NEW fault \in {"OOM", "OVERFLOW", "WIDTH", "EMPTY"}, FlushRefuse(fault) PROVE OkMeansAnswered'
  <2>1. /\ Head(todo) \in Cycles /\ fault \in Fault[Head(todo)]
        /\ Call(Head(todo), IF fault = "EMPTY" THEN "OK" ELSE fault, "flush")
        BY <1>6, <1>9 DEF FlushRefuse
  <2>2. fault = "EMPTY" => Words(Head(todo)) = 0
        BY <2>1, EbAssumption DEF EbAssumption
  <2>3. CASE fault = "EMPTY"
        BY <1>4, <2>1, <2>2, <2>3
  <2>4. CASE fault # "EMPTY"
        BY <1>4, <2>1, <2>4
  <2>. QED BY <2>3, <2>4
<1>10. CASE Word
  <2>1. PICK q, l : Searched(q, l) /\
          \/ UNCHANGED <<state, pc, ret, calls, status>>
          \/ \E i \in DOMAIN q : \E with \in {"OK", "FAIL"} :
               /\ Call(q[i].cycle, with, "words") /\ q[i].address = Head(inbox).address
               /\ with = "OK" => (IF Head(inbox).stat THEN q[i].stats ELSE q[i].reads) > 0
        BY <1>1, <1>10, WordIs DEF WordDoes
  <2>2. CASE UNCHANGED <<state, pc, ret, calls, status>>
        BY <1>3, <2>2
  <2>3. ASSUME NEW i \in DOMAIN q, NEW with \in {"OK", "FAIL"}, Call(q[i].cycle, with, "words"),
               q[i].address = Head(inbox).address,
               with = "OK" => (IF Head(inbox).stat THEN q[i].stats ELSE q[i].reads) > 0
        PROVE  OkMeansAnswered'
    <3>1. q[i] \in Range(Queue)
      <4>1. q[i] \in Range(q)
            BY DEF Range
      <4>2. Range(first \o Reverse(last)) = Range(first) \cup Range(last)
            BY <1>1, QueueHas
      <4>3. Range(q) \subseteq Range(Queue)
            BY <2>1, <4>2 DEF Searched, Queue
      <4>. QED BY <4>1, <4>3
    <3>2. q[i].cycle \in Cycles
      <4>1. q \in Seq(Response)
            BY <2>1 DEF Searched
      <4>2. q[i] \in Response
            BY <4>1, LineIs
      <4>. QED BY <4>2 DEF Response
    <3>3. inbox # <<>>
          BY <1>10 DEF Word
    <3>4. with = "OK" => \E p \in answered : \E k \in DOMAIN p : p[k].cycle = q[i].cycle
          BY <2>3, <3>1, <3>3, WordIsOurs
    <3>. QED BY <1>4, <2>3, <3>2, <3>4
  <2>. QED BY <2>1, <2>2, <2>3
<1>11. CASE Return \/ Check \/ KillDone \/ WordsDone \/ CheckDone \/ FlushNot \/ Flush \/ Send
            \/ FlushRead \/ FlushDone \/ CloseDone \/ LinkDown \/ Tick \/ UNCHANGED vars
      BY <1>3, <1>11 DEF Return, Check, KillDone, WordsDone, CheckDone, FlushNot, Flush, Send,
         FlushRead, FlushDone, CloseDone, LinkDown, Tick, vars, hist
<1>12. ASSUME NEW c \in Cycles, Open(c) \/ Close(c) \/ Abort(c) PROVE OkMeansAnswered'
      BY <1>3, <1>12 DEF Open, Close, Abort, hist
<1>13. ASSUME NEW d \in Devices, CloseDevice(d) PROVE OkMeansAnswered'
      BY <1>3, <1>13 DEF CloseDevice, hist
<1>14. ASSUME NEW p, Receive(p) PROVE OkMeansAnswered'
      BY <1>3, <1>14 DEF Receive, hist
<1>15. ASSUME NEW r, NEW s, ReceiveBad(r, s) PROVE OkMeansAnswered'
      BY <1>3, <1>15 DEF ReceiveBad, hist
<1>. QED BY <1>5, <1>7, <1>8, <1>9, <1>10, <1>11, <1>12, <1>13, <1>14, <1>15 DEF Next, Lib, App, Net

\* A cycle that reads is OK only if an answer to it arrived, however packets are
\* lost, repeated, late and reordered, and although read-back addresses are used
\* again (master.c:521-523, eb_socket_write_config): no answer is credited to
\* another cycle.
THEOREM OkIsAnAnswer == Spec => []OkMeansAnswered
<1>. DEFINE I == /\ Shapes /\ HeldInv /\ ClaimInv /\ StampInv /\ WindowInv /\ EntriesInv
                 /\ InboxInv /\ OkMeansAnswered
<1>1. Init => I
  <2>1. Init => OkMeansAnswered
        BY DEF Init, OkMeansAnswered
  <2>. QED BY <2>1, ShapesInit, HeldInit, ClaimInit, StampInit, WindowInit, EntriesInit, InboxInit
<1>2. I /\ [Next]_vars => I'
  <2>1. I /\ [Next]_vars => Shapes' /\ HeldInv' /\ ClaimInv'
        BY ShapesNext, HeldNext, ClaimNext
  <2>2. I /\ [Next]_vars => StampInv' /\ WindowInv' /\ EntriesInv' /\ InboxInv'
        BY StampNext, WindowNext, EntriesNext, InboxNext
  <2>3. I /\ [Next]_vars => OkMeansAnswered'
        BY OkNext
  <2>. QED BY <2>1, <2>2, <2>3
<1>3. I => OkMeansAnswered
      OBVIOUS
<1>. QED BY <1>1, <1>2, <1>3, PTL DEF Spec
=============================================================================
