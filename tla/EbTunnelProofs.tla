--------------------------- MODULE EbTunnelProofs ---------------------------
(***************************************************************************)
(* The tunnel is transparent, for any callers, addresses, messages and     *)
(* failures: a connection is a stream whose units can be numbered, and the *)
(* number of the one to be read next follows from where the reader is.     *)
(***************************************************************************)
EXTENDS EbTunnel, QueueLemmas

(* What is received and what is sent.                                      *)

Unit == {"address", "ask", "answer"} \X Nat \X Nat

\* What recv finds are the first units on the way; the others are left.
LEMMA FoundIs ==
  ASSUME NEW S, NEW s \in Seq(S), NEW n \in Nat, NEW part \in Found(s, n)
  PROVE  /\ part \in Seq(S) /\ Len(part) \in 1 .. n /\ Len(part) <= Len(s)
         /\ \A i \in 1 .. Len(part) : part[i] = s[i]
         /\ Left(s, part) \in Seq(S) /\ Len(Left(s, part)) = Len(s) - Len(part)
         /\ \A i \in 1 .. Len(s) - Len(part) : Left(s, part)[i] = s[i + Len(part)]
<1>1. Len(s) \in Nat /\ \A i \in 1 .. Len(s) : s[i] \in S
      BY LenProperties
<1>2. PICK k \in 1 .. n : k <= Len(s) /\ part = SubSeq(s, 1, k)
      BY DEF Found
<1>3. part \in Seq(S) /\ Len(part) = k /\ \A i \in 1 .. k : part[i] = s[i]
      BY <1>1, <1>2
<1>. DEFINE rest == SubSeq(s, k + 1, Len(s))
<1>4. rest \in Seq(S) /\ Len(rest) = Len(s) - k /\ \A i \in 1 .. Len(s) - k : rest[i] = s[i + k]
      BY <1>1, <1>2
<1>. QED BY <1>1, <1>2, <1>3, <1>4 DEF Left

\* A message is four units.
LEMMA UnitsIs ==
  ASSUME NEW what \in {"ask", "answer"}, NEW m \in Nat
  PROVE  /\ Units(what, m) \in Seq(Unit) /\ Len(Units(what, m)) = 4
         /\ \A i \in 1 .. 4 : Units(what, m)[i] = <<what, m, i>>
<1>1. \A i \in 1 .. 4 : <<what, m, i>> \in Unit
      BY DEF Unit
<1>. QED BY <1>1 DEF Units

\* The contents are the last two of them, ...
LEMMA LastTwo ==
  ASSUME NEW S, NEW s \in Seq(S), Len(s) = 4
  PROVE  /\ SubSeq(s, 3, 4) \in Seq(S) /\ Len(SubSeq(s, 3, 4)) = 2
         /\ SubSeq(s, 3, 4)[1] = s[3] /\ SubSeq(s, 3, 4)[2] = s[4]
<1>1. \A i \in 3 .. 4 : s[i] \in S
  <2>1. \A i \in 1 .. Len(s) : s[i] \in S
        BY LenProperties
  <2>. QED BY <2>1
<1>2. /\ SubSeq(s, 3, 4) \in Seq(S) /\ Len(SubSeq(s, 3, 4)) = 4 - 3 + 1
      /\ \A i \in 1 .. 4 - 3 + 1 : SubSeq(s, 3, 4)[i] = s[3 + i - 1]
      BY <1>1, SubSeqProperties
<1>. QED BY <1>2

\* ... there are no others with the same units, ...
LEMMA PairsEqual ==
  ASSUME NEW S, NEW s \in Seq(S), NEW t \in Seq(S), Len(s) = 2, Len(t) = 2, s[1] = t[1], s[2] = t[2]
  PROVE  s = t
<1>1. \A i \in 1 .. Len(s) : s[i] = t[i]
      OBVIOUS
<1>. QED BY <1>1, SeqEqual

\* ... and they tell the message's number.
LEMMA WholeIs ==
  ASSUME NEW what \in {"ask", "answer"}, NEW m \in Nat
  PROVE  /\ WholeOf(what, m) \in Seq(Unit) /\ Len(WholeOf(what, m)) = 2
         /\ WholeOf(what, m)[1] = <<what, m, 3>> /\ WholeOf(what, m)[2] = <<what, m, 4>>
         /\ \A part \in Seq(Unit) :
              Len(part) = 2 /\ part[1] = <<what, m, 3>> /\ part[2] = <<what, m, 4>> => part = WholeOf(what, m)
<1>1. /\ Units(what, m) \in Seq(Unit) /\ Len(Units(what, m)) = 4
      /\ Units(what, m)[3] = <<what, m, 3>> /\ Units(what, m)[4] = <<what, m, 4>>
      BY UnitsIs
<1>2. /\ WholeOf(what, m) \in Seq(Unit) /\ Len(WholeOf(what, m)) = 2
      /\ WholeOf(what, m)[1] = <<what, m, 3>> /\ WholeOf(what, m)[2] = <<what, m, 4>>
      BY <1>1, LastTwo DEF WholeOf
<1>. QED BY <1>2, PairsEqual

\* The address is the units before, and only its last one is zero.
LEMMA AddressIs ==
  ASSUME NEW c \in Callers
  PROVE  /\ AddrLen(c) \in Nat \ {0} /\ Address(c) \in Seq(Unit) /\ Len(Address(c)) = AddrLen(c)
         /\ \A i \in 1 .. AddrLen(c) : Address(c)[i] = <<"address", 1, IF i = AddrLen(c) THEN 0 ELSE i>>
<1>1. AddrLen(c) \in Nat \ {0}
      BY TunnelAssumption
<1>2. \A i \in 1 .. AddrLen(c) : <<"address", 1, IF i = AddrLen(c) THEN 0 ELSE i>> \in Unit
      BY <1>1 DEF Unit
<1>. QED BY <1>1, <1>2 DEF Address

-----------------------------------------------------------------------------
(* The types, and where the proxy has each caller.                         *)

Told == {<<"listen">>} \cup ({"tcp", "udp"} \X Callers)
Messages == Seq(Seq(Unit))

CallTypes ==
  /\ call \in [Callers -> {"no", "up", "len", "body", "gone"}]
  /\ asked \in [Callers -> Nat] /\ heard \in [Callers -> Messages]
StreamTypes == up \in [Callers -> Seq(Unit)] /\ down \in [Callers -> Seq(Unit)]
ServerTypes ==
  /\ server \in [Callers -> Messages] /\ answers \in [Callers -> Seq(Nat)] /\ served \in [Callers -> Messages]
ProxyTypes ==
  /\ backlog \in Seq(Callers)
  /\ proxy \in [pc : {"select", "accept", "address", "udp", "tcp", "len", "body", "dead"}, ready : SUBSET Told,
                links : Seq(Callers), at : Nat \ {0}, from : Seq(Callers), got : Seq(Unit), fail : BOOLEAN]

\* A caller is in one place of the proxy, which looks at one it has.
Waiting == Range(backlog)
Coming == Range(proxy.from)
Joined == Range(proxy.links)
LooksAt ==
  /\ proxy.from # <<>> <=> proxy.pc = "address"
  /\ proxy.pc \in {"tcp", "len", "body"} => proxy.at \in DOMAIN proxy.links
  /\ proxy.pc = "len" => Len(proxy.got) = 1
  /\ proxy.pc = "body" => Len(proxy.got) = 2
PlacesInv ==
  /\ IsInjective(backlog) /\ IsInjective(proxy.links) /\ Len(proxy.from) <= 1
  /\ Waiting \cap Coming = {} /\ Waiting \cap Joined = {} /\ Coming \cap Joined = {}
  /\ \A c \in Callers : call[c] = "no" => c \notin Waiting \cup Coming \cup Joined /\ asked[c] = 0 /\ served[c] = <<>>
  /\ \A c \in Waiting \cup Coming : served[c] = <<>>

\* A message on the way to a server is the contents of one.
ServerWhole ==
  \A c \in Callers : \A i \in DOMAIN server[c] : \E k \in Nat \ {0} : server[c][i] = WholeOf("ask", k)

Types == CallTypes /\ StreamTypes /\ ServerTypes /\ ProxyTypes

\* Every behaviour begins with the types.
LEMMA TypesInit == TunnelInit => Types /\ LooksAt /\ PlacesInv /\ ServerWhole
<1>1. <<>> \in Seq(Unit) /\ <<>> \in Messages /\ <<>> \in Seq(Nat) /\ <<>> \in Seq(Callers)
      BY DEF Messages
<1>. SUFFICES ASSUME TunnelInit PROVE Types /\ LooksAt /\ PlacesInv /\ ServerWhole
      OBVIOUS
<1>2. Types
      BY <1>1 DEF TunnelInit, Types, CallTypes, StreamTypes, ServerTypes, ProxyTypes
<1>3. Waiting = {} /\ Coming = {} /\ Joined = {} /\ IsInjective(backlog) /\ IsInjective(proxy.links)
      BY EmptyIs DEF TunnelInit, Waiting, Coming, Joined
<1>4. LooksAt
      BY DEF TunnelInit, LooksAt
<1>5. PlacesInv
      BY <1>3 DEF TunnelInit, PlacesInv
<1>6. ServerWhole
      BY EmptyIs DEF TunnelInit, ServerWhole
<1>. QED BY <1>2, <1>4, <1>5, <1>6

\* The next-state relation, by who acts.
LEMMA NextIs ==
  [TunnelNext]_tunnelVars <=>
    \/ UNCHANGED tunnelVars
    \/ SelectReturns \/ Accept \/ AcceptDone \/ ReadAddress \/ FromServer \/ FromServerDone
    \/ FromCaller \/ FromCallerNot \/ SecondUnit \/ Contents \/ RoundDone \/ AcceptFails \/ ServerFails
    \/ \E c \in Callers : Serve(c) \/ Connect(c) \/ Ask(c) \/ HangUp(c) \/ Listen(c)
BY DEF TunnelNext, Proxy

\* The proxy and the servers leave the callers alone.
LEMMA CallsKept ==
  ASSUME NEW c \in Callers,
         \/ UNCHANGED tunnelVars
         \/ SelectReturns \/ Accept \/ AcceptDone \/ ReadAddress \/ FromServer \/ FromServerDone
         \/ FromCaller \/ FromCallerNot \/ SecondUnit \/ Contents \/ RoundDone \/ AcceptFails \/ ServerFails
         \/ Serve(c)
  PROVE  UNCHANGED <<call, asked, heard>>
BY DEF tunnelVars, callVars, SelectReturns, Accept, AcceptDone, ReadAddress, FromServer, FromServerDone, FromCaller,
       FromCallerNot, SecondUnit, Contents, RoundDone, AcceptFails, ServerFails, Serve

\* The caller that the proxy looks at.
LEMMA LinkIs ==
  /\ Types /\ proxy.at <= Len(proxy.links) => proxy.at \in DOMAIN proxy.links
  /\ Types /\ proxy.at \in DOMAIN proxy.links => Link \in Callers /\ Link \in Joined
<1>. SUFFICES ASSUME Types
              PROVE  /\ proxy.at <= Len(proxy.links) => proxy.at \in DOMAIN proxy.links
                     /\ proxy.at \in DOMAIN proxy.links => Link \in Callers /\ Link \in Joined
     OBVIOUS
<1>1. proxy.links \in Seq(Callers) /\ proxy.at \in Nat \ {0}
      BY DEF Types, ProxyTypes
<1>2. DOMAIN proxy.links = 1 .. Len(proxy.links) /\ \A i \in 1 .. Len(proxy.links) : proxy.links[i] \in Callers
      BY <1>1, LenProperties
<1>. QED BY <1>1, <1>2 DEF Link, Joined, Range

\* A caller keeps its types.
LEMMA CallTypesNext == Types /\ [TunnelNext]_tunnelVars => CallTypes'
<1>. SUFFICES ASSUME Types, [TunnelNext]_tunnelVars PROVE CallTypes'
     OBVIOUS
<1>1. ASSUME NEW c \in Callers, Connect(c) \/ Ask(c) \/ HangUp(c) PROVE CallTypes'
  <2>1. CASE Connect(c)
        BY <2>1 DEF Types, CallTypes, Connect
  <2>2. CASE Ask(c)
    <3>1. call' \in [Callers -> {"no", "up", "len", "body", "gone"}]
          BY <2>2 DEF Types, CallTypes, Ask
    <3>2. asked' \in [Callers -> Nat] /\ heard' = heard
          BY <2>2 DEF Types, CallTypes, Ask
    <3>. QED BY <3>1, <3>2 DEF Types, CallTypes
  <2>3. CASE HangUp(c)
        BY <2>3 DEF Types, CallTypes, HangUp
  <2>. QED BY <1>1, <2>1, <2>2, <2>3
<1>2. ASSUME NEW c \in Callers, Listen(c) PROVE CallTypes'
  <2>1. call' \in [Callers -> {"no", "up", "len", "body", "gone"}] /\ asked' = asked
        BY <1>2 DEF Types, CallTypes, Listen, AfterLength
  <2>2. heard' \in [Callers -> Messages]
    <3>1. CASE heard' = heard
          BY <3>1 DEF Types, CallTypes
    <3>2. CASE heard' # heard
      <4>1. PICK part \in Found(down[c], 2) : heard' = [heard EXCEPT ![c] = IF Len(part) = 2 THEN Append(@, part) ELSE @]
            BY <1>2, <3>2 DEF Listen
      <4>2. part \in Seq(Unit)
            BY <4>1, FoundIs DEF Types, StreamTypes
      <4>. QED BY <4>1, <4>2 DEF Types, CallTypes, Messages
    <3>. QED BY <3>1, <3>2
  <2>. QED BY <2>1, <2>2 DEF Types, CallTypes
<1>3. ASSUME UNCHANGED <<call, asked, heard>> PROVE CallTypes'
      BY <1>3 DEF Types, CallTypes
<1>4. CASE \E c \in Callers : Connect(c) \/ Ask(c) \/ HangUp(c) \/ Listen(c)
      BY <1>1, <1>2, <1>4
<1>5. CASE Callers = {} \/ ~(\E c \in Callers : Connect(c) \/ Ask(c) \/ HangUp(c) \/ Listen(c))
  <2>1. UNCHANGED <<call, asked, heard>>
    <3>1. CASE \E c \in Callers : Serve(c)
          BY <3>1, CallsKept
    <3>2. CASE ~(\E c \in Callers : Serve(c))
          BY <1>5, <3>2, NextIs DEF tunnelVars, callVars, SelectReturns, Accept, AcceptDone, ReadAddress, FromServer,
             FromServerDone, FromCaller, FromCallerNot, SecondUnit, Contents, RoundDone, AcceptFails, ServerFails
    <3>. QED BY <3>1, <3>2
  <2>. QED BY <1>3, <2>1
<1>. QED BY <1>4, <1>5

\* What is taken from a stream is its beginning.
LEMMA StreamTypesNext == Types /\ LooksAt /\ [TunnelNext]_tunnelVars => StreamTypes'
<1>. SUFFICES ASSUME Types, LooksAt, [TunnelNext]_tunnelVars PROVE StreamTypes'
     OBVIOUS
<1>1. ASSUME NEW c \in Callers, Connect(c) PROVE StreamTypes'
      BY <1>1, AddressIs DEF Types, StreamTypes, Connect
<1>2. ASSUME NEW c \in Callers, Ask(c) PROVE StreamTypes'
  <2>1. asked'[c] \in Nat /\ up[c] \in Seq(Unit)
        BY <1>2 DEF Types, StreamTypes, CallTypes, Ask
  <2>2. Units("ask", asked'[c]) \in Seq(Unit) /\ Len(Units("ask", asked'[c])) = 4
        BY <2>1, UnitsIs
  <2>3. \A n \in 1 .. 3 : SubSeq(Units("ask", asked'[c]), 1, n) \in Seq(Unit)
        BY <2>2
  <2>4. \A s \in Seq(Unit) : up[c] \o s \in Seq(Unit)
        BY <2>1
  <2>5. \/ up' = [up EXCEPT ![c] = @ \o Units("ask", asked'[c])]
        \/ \E n \in 1 .. 3 : up' = [up EXCEPT ![c] = @ \o SubSeq(Units("ask", asked'[c]), 1, n)]
        BY <1>2 DEF Ask
  <2>6. \E s \in Seq(Unit) : up' = [up EXCEPT ![c] = s]
        BY <2>2, <2>3, <2>4, <2>5
  <2>. QED BY <1>2, <2>6 DEF Types, StreamTypes, Ask
<1>3. ASSUME NEW c \in Callers, Listen(c) PROVE StreamTypes'
  <2>1. \/ UNCHANGED down
        \/ \E part \in Found(down[c], 2) : down' = [down EXCEPT ![c] = Left(@, part)]
        \/ down[c] # <<>> /\ down' = [down EXCEPT ![c] = Tail(@)]
        BY <1>3 DEF Listen
  <2>2. \A part \in Found(down[c], 2) : Left(down[c], part) \in Seq(Unit)
        BY FoundIs DEF Types, StreamTypes
  <2>3. down[c] # <<>> => Tail(down[c]) \in Seq(Unit)
        BY HeadTailIs DEF Types, StreamTypes
  <2>. QED BY <1>3, <2>1, <2>2, <2>3 DEF Types, StreamTypes, Listen
<1>4. CASE ReadAddress
  <2>1. up' = up \/ (up[New] # <<>> /\ up' = [up EXCEPT ![New] = Tail(@)])
        BY <1>4 DEF ReadAddress
  <2>2. New \in Callers
        BY <1>4, HeadTailIs DEF ReadAddress, New, LooksAt, Types, ProxyTypes
  <2>3. up[New] # <<>> => Tail(up[New]) \in Seq(Unit)
        BY <2>2, HeadTailIs DEF Types, StreamTypes
  <2>. QED BY <1>4, <2>1, <2>2, <2>3 DEF Types, StreamTypes, ReadAddress
<1>5. CASE FromServer
  <2>1. Link \in Callers
        BY <1>5, LinkIs DEF FromServer
  <2>2. answers[Link] # <<>> => Head(answers[Link]) \in Nat
        BY <2>1, HeadTailIs DEF Types, ServerTypes
  <2>3. answers[Link] # <<>> => down[Link] \o Units("answer", Head(answers[Link])) \in Seq(Unit)
        BY <2>1, <2>2, UnitsIs DEF Types, StreamTypes
  <2>. QED BY <1>5, <2>1, <2>3 DEF Types, StreamTypes, FromServer
<1>6. CASE FromCaller \/ SecondUnit \/ Contents
  <2>1. Link \in Callers /\ up[Link] \in Seq(Unit)
        BY <1>6, LinkIs DEF FromCaller, SecondUnit, Contents, LooksAt, Types, StreamTypes
  <2>2. LengthOf(proxy.got) \in Nat /\ 2 \in Nat
        BY DEF LengthOf
  <2>3. \/ up' = up
        \/ \E n \in Nat : \E part \in Found(up[Link], n) : up' = [up EXCEPT ![Link] = Left(@, part)]
        \/ up[Link] # <<>> /\ up' = [up EXCEPT ![Link] = Tail(@)]
        BY <1>6, <2>2 DEF FromCaller, SecondUnit, Contents
  <2>4. \A n \in Nat : \A part \in Found(up[Link], n) : Left(up[Link], part) \in Seq(Unit)
        BY <2>1, FoundIs
  <2>5. up[Link] # <<>> => Tail(up[Link]) \in Seq(Unit)
        BY <2>1, HeadTailIs
  <2>6. down' = down
        BY <1>6 DEF FromCaller, SecondUnit, Contents
  <2>. QED BY <2>1, <2>3, <2>4, <2>5, <2>6 DEF Types, StreamTypes
<1>7. CASE UNCHANGED <<up, down>>
      BY <1>7 DEF Types, StreamTypes
<1>8. CASE \/ UNCHANGED tunnelVars \/ SelectReturns \/ Accept \/ AcceptDone \/ FromServerDone \/ FromCallerNot \/ RoundDone
           \/ AcceptFails \/ ServerFails \/ (\E c \in Callers : Serve(c) \/ HangUp(c))
      BY <1>7, <1>8 DEF tunnelVars, netVars, SelectReturns, Accept, AcceptDone, FromServerDone, FromCallerNot, RoundDone,
         AcceptFails, ServerFails, Serve, HangUp
<1>. QED BY <1>1, <1>2, <1>3, <1>4, <1>5, <1>6, <1>8, NextIs

\* Messages and answers are units and numbers.
LEMMA ServerTypesNext == Types /\ LooksAt /\ ServerWhole /\ [TunnelNext]_tunnelVars => ServerTypes'
<1>. SUFFICES ASSUME Types, LooksAt, ServerWhole, [TunnelNext]_tunnelVars PROVE ServerTypes'
     OBVIOUS
<1>1. ASSUME NEW c \in Callers, Serve(c) PROVE ServerTypes'
  <2>1. server[c] \in Messages /\ server[c] # <<>>
        BY <1>1 DEF Serve, Types, ServerTypes
  <2>2. Tail(server[c]) \in Messages /\ 1 \in DOMAIN server[c] /\ Head(server[c]) = server[c][1]
        BY <2>1, HeadTailIs DEF Messages
  <2>3. PICK k \in Nat \ {0} : Head(server[c]) = WholeOf("ask", k)
        BY <2>2 DEF ServerWhole
  <2>4. Head(server[c])[1][2] \in Nat
        BY <2>3, WholeIs
  <2>5. server' \in [Callers -> Messages] /\ served' = served
        BY <1>1, <2>2 DEF Serve, Types, ServerTypes
  <2>6. \A s \in Seq(Nat) : Append(s, Head(server[c])[1][2]) \in Seq(Nat)
        BY <2>4
  <2>7. answers' \in [Callers -> Seq(Nat)]
        BY <1>1, <2>6 DEF Serve, Types, ServerTypes
  <2>. QED BY <2>5, <2>7 DEF Types, ServerTypes
<1>2. CASE FromServer
  <2>1. Link \in Callers
        BY <1>2, LinkIs DEF FromServer
  <2>2. answers[Link] # <<>> => Tail(answers[Link]) \in Seq(Nat)
        BY <2>1, HeadTailIs DEF Types, ServerTypes
  <2>. QED BY <1>2, <2>1, <2>2 DEF FromServer, Types, ServerTypes
<1>3. ASSUME answers' = answers \/ answers' = [answers EXCEPT ![Link] = <<>>] PROVE answers' \in [Callers -> Seq(Nat)]
  <2>1. <<>> \in Seq(Nat) /\ answers \in [Callers -> Seq(Nat)]
        BY DEF Types, ServerTypes
  <2>2. CASE answers' = answers
        BY <2>1, <2>2
  <2>3. CASE answers' = [answers EXCEPT ![Link] = <<>>]
        BY <2>1, <2>3
  <2>. QED BY <1>3, <2>2, <2>3
<1>4. CASE FromCaller \/ FromCallerNot \/ SecondUnit
  <2>1. (answers' = answers \/ answers' = [answers EXCEPT ![Link] = <<>>]) /\ server' = server /\ served' = served
        BY <1>4 DEF FromCaller, FromCallerNot, SecondUnit, Leave, Drop
  <2>. QED BY <1>3, <2>1 DEF Types, ServerTypes
<1>5. CASE Contents
  <2>1. Link \in Callers /\ up[Link] \in Seq(Unit)
        BY <1>5, LinkIs DEF Contents, LooksAt, Types, StreamTypes
  <2>2. LengthOf(proxy.got) \in Nat
        BY DEF LengthOf
  <2>3. answers' = answers \/ answers' = [answers EXCEPT ![Link] = <<>>]
        BY <1>5 DEF Contents, PassOn, Leave, Drop
  <2>4. \A m \in Found(up[Link], LengthOf(proxy.got)) : m \in Seq(Unit)
        BY <2>1, <2>2, FoundIs
  <2>5. \A m \in Seq(Unit) : \A s \in Messages : Append(s, m) \in Messages
        BY DEF Messages
  <2>6. \/ UNCHANGED <<server, served>>
        \/ \E m \in Seq(Unit) :
             /\ served' = [served EXCEPT ![Link] = Append(@, m)]
             /\ server' = [server EXCEPT ![Link] = Append(@, m)] \/ server' = server
        BY <1>5, <2>4 DEF Contents, PassOn
  <2>7. server' \in [Callers -> Messages] /\ served' \in [Callers -> Messages]
    <3>1. CASE UNCHANGED <<server, served>>
          BY <3>1 DEF Types, ServerTypes
    <3>2. ASSUME NEW m \in Seq(Unit), served' = [served EXCEPT ![Link] = Append(@, m)],
                 server' = [server EXCEPT ![Link] = Append(@, m)] \/ server' = server
          PROVE  server' \in [Callers -> Messages] /\ served' \in [Callers -> Messages]
          BY <2>1, <2>5, <3>2 DEF Types, ServerTypes
    <3>. QED BY <2>6, <3>1, <3>2
  <2>. QED BY <1>3, <2>3, <2>7 DEF ServerTypes
<1>6. CASE UNCHANGED <<server, answers, served>>
      BY <1>6 DEF Types, ServerTypes
<1>7. CASE \/ UNCHANGED tunnelVars \/ SelectReturns \/ Accept \/ AcceptDone \/ ReadAddress \/ FromServerDone
           \/ RoundDone \/ AcceptFails \/ ServerFails
  <2>1. UNCHANGED <<server, answers, served>>
        BY <1>7 DEF tunnelVars, netVars, SelectReturns, Accept, AcceptDone, ReadAddress, FromServerDone, RoundDone,
           AcceptFails, ServerFails
  <2>. QED BY <1>6, <2>1
<1>8. CASE \E c \in Callers : Connect(c) \/ Ask(c) \/ HangUp(c) \/ Listen(c)
  <2>1. UNCHANGED <<server, answers, served>>
        BY <1>8 DEF netVars, Connect, Ask, HangUp, Listen
  <2>. QED BY <1>6, <2>1
<1>. QED BY <1>1, <1>2, <1>4, <1>5, <1>7, <1>8, NextIs

\* Closing a client takes it, and no other, out of the list.
LEMMA DropIs ==
  ASSUME Types, PlacesInv, proxy.at \in DOMAIN proxy.links, Drop
  PROVE  /\ proxy'.links \in Seq(Callers) /\ IsInjective(proxy'.links) /\ Joined' = Joined \ {Link}
         /\ proxy' = [proxy EXCEPT !.pc = "udp", !.links = proxy'.links, !.got = <<>>, !.fail = FALSE]
         /\ answers' = [answers EXCEPT ![Link] = <<>>]
<1>1. proxy.links \in Seq(Callers) /\ IsInjective(proxy.links) /\ Link = proxy.links[proxy.at]
      BY DEF Types, ProxyTypes, PlacesInv, Link
<1>2. proxy' = [proxy EXCEPT !.pc = "udp", !.links = RemoveAt(proxy.links, proxy.at), !.got = <<>>, !.fail = FALSE]
      BY DEF Drop, At, WithoutOne, Types, ProxyTypes
<1>3. proxy'.links = RemoveAt(proxy.links, proxy.at)
      BY <1>2 DEF Types, ProxyTypes
<1>4. /\ RemoveAt(proxy.links, proxy.at) \in Seq(Callers) /\ IsInjective(RemoveAt(proxy.links, proxy.at))
      /\ Range(RemoveAt(proxy.links, proxy.at)) = Joined \ {Link}
      BY <1>1, RemoveAtIs, RemoveAtRange DEF Joined
<1>. QED BY <1>2, <1>3, <1>4 DEF Drop, Joined

\* What select tells of is the listening socket and sockets of callers.
LEMMA ReadableIs == Types => Readable \subseteq Told
<1>. SUFFICES ASSUME Types PROVE Readable \subseteq Told
     OBVIOUS
<1>1. Range(proxy.links) \subseteq Callers
      BY RangeIs DEF Types, ProxyTypes
<1>. QED BY <1>1 DEF Readable, Told

\* The proxy's own variables; it looks at a caller when it reads from one.
LEMMA ProxyNext == Types /\ LooksAt /\ PlacesInv /\ [TunnelNext]_tunnelVars => ProxyTypes' /\ LooksAt'
<1>. SUFFICES ASSUME Types, LooksAt, PlacesInv, [TunnelNext]_tunnelVars PROVE ProxyTypes' /\ LooksAt'
     OBVIOUS
<1>. USE DEF At
<1>1. CASE SelectReturns
  <2>1. PICK ready \in SUBSET Readable : proxy' = [At("accept") EXCEPT !.ready = ready]
        BY <1>1 DEF SelectReturns
  <2>2. ready \in SUBSET Told
        BY ReadableIs
  <2>. QED BY <1>1, <2>1, <2>2 DEF SelectReturns, Types, ProxyTypes, LooksAt, netVars
<1>2. CASE Accept
  <2>1. backlog # <<>> /\ proxy.pc = "accept"
        BY <1>2 DEF Accept
  <2>2. Head(backlog) \in Callers /\ Tail(backlog) \in Seq(Callers)
        BY <2>1, HeadTailIs DEF Types, ProxyTypes
  <2>3. <<Head(backlog)>> \in Seq(Callers) /\ <<Head(backlog)>> # <<>> /\ <<>> \in Seq(Unit)
        BY <2>2
  <2>4. \/ proxy' = proxy
        \/ proxy' = [At("address") EXCEPT !.from = <<Head(backlog)>>, !.got = <<>>]
        BY <1>2 DEF Accept
  <2>5. backlog' \in Seq(Callers)
        BY <1>2, <2>2 DEF Accept
  <2>6. CASE proxy' = proxy
        BY <2>5, <2>6 DEF Types, ProxyTypes, LooksAt
  <2>7. CASE proxy' = [At("address") EXCEPT !.from = <<Head(backlog)>>, !.got = <<>>]
    <3>1. ProxyTypes'
          BY <2>3, <2>5, <2>7 DEF Types, ProxyTypes
    <3>2. proxy'.pc = "address" /\ proxy'.from = <<Head(backlog)>>
          BY <2>7 DEF Types, ProxyTypes
    <3>. QED BY <2>3, <3>1, <3>2 DEF LooksAt
  <2>. QED BY <2>4, <2>6, <2>7
<1>3. CASE AcceptDone \/ AcceptFails
  <2>1. proxy.pc = "accept" /\ backlog' = backlog
        BY <1>3 DEF AcceptDone, AcceptFails, netVars
  <2>2. proxy' = [At("udp") EXCEPT !.at = 1] \/ proxy' = At("dead")
        BY <1>3 DEF AcceptDone, AcceptFails
  <2>3. CASE proxy' = [At("udp") EXCEPT !.at = 1]
    <3>1. proxy' = [proxy EXCEPT !.pc = "udp", !.at = 1] /\ 1 \in Nat \ {0}
          BY <2>3 DEF Types, ProxyTypes
    <3>2. ProxyTypes'
          BY <2>1, <3>1 DEF Types, ProxyTypes
    <3>3. LooksAt'
          BY <2>1, <3>1 DEF Types, ProxyTypes, LooksAt
    <3>. QED BY <3>2, <3>3
  <2>4. CASE proxy' = At("dead")
        BY <2>1, <2>4 DEF Types, ProxyTypes, LooksAt
  <2>. QED BY <2>2, <2>3, <2>4
<1>4. CASE ReadAddress
  <2>1. proxy.pc = "address" /\ proxy.from # <<>> /\ backlog' = backlog /\ New \in Callers
        BY <1>4, HeadTailIs DEF ReadAddress, LooksAt, New, Types, ProxyTypes
  <2>2. up[New] # <<>> => Head(up[New]) \in Unit
        BY <2>1, HeadTailIs DEF Types, StreamTypes
  <2>3. \/ proxy' = [At("accept") EXCEPT !.links = <<New>> \o @, !.from = <<>>]
        \/ proxy' = [At("accept") EXCEPT !.from = <<>>]
        \/ up[New] # <<>> /\ proxy' = [proxy EXCEPT !.got = Append(@, Head(up[New]))]
        BY <1>4 DEF ReadAddress, Join, Refuse
  <2>4. <<New>> \o proxy.links \in Seq(Callers) /\ <<>> \in Seq(Callers)
        BY <2>1, OneIs, ConcatIs DEF Types, ProxyTypes
  <2>5. up[New] # <<>> => Append(proxy.got, Head(up[New])) \in Seq(Unit)
        BY <2>2 DEF Types, ProxyTypes
  <2>6. CASE proxy' = [At("accept") EXCEPT !.links = <<New>> \o @, !.from = <<>>]
        BY <2>1, <2>4, <2>6 DEF Types, ProxyTypes, LooksAt
  <2>7. CASE proxy' = [At("accept") EXCEPT !.from = <<>>]
        BY <2>1, <2>4, <2>7 DEF Types, ProxyTypes, LooksAt
  <2>8. CASE up[New] # <<>> /\ proxy' = [proxy EXCEPT !.got = Append(@, Head(up[New]))]
        BY <2>1, <2>5, <2>8 DEF Types, ProxyTypes, LooksAt
  <2>. QED BY <2>3, <2>6, <2>7, <2>8
<1>5. CASE FromServer
  <2>1. proxy.pc = "udp" /\ backlog' = backlog /\ (proxy' = proxy \/ proxy' = At("dead"))
        BY <1>5 DEF FromServer
  <2>. QED BY <2>1 DEF Types, ProxyTypes, LooksAt
<1>6. CASE FromServerDone \/ ServerFails
  <2>1. /\ proxy.pc = "udp" /\ backlog' = backlog /\ proxy.at \in DOMAIN proxy.links
        /\ proxy' = At("tcp") \/ proxy' = [At("tcp") EXCEPT !.fail = TRUE]
        BY <1>6, LinkIs DEF FromServerDone, ServerFails, netVars
  <2>. QED BY <2>1 DEF Types, ProxyTypes, LooksAt
<1>7. CASE RoundDone
  <2>1. proxy.pc = "udp" /\ backlog' = backlog /\ proxy' = [At("select") EXCEPT !.ready = {}]
        BY <1>7 DEF RoundDone, netVars
  <2>. QED BY <2>1 DEF Types, ProxyTypes, LooksAt
<1>8. ASSUME Drop, proxy.at \in DOMAIN proxy.links, proxy.pc \in {"tcp", "len", "body"}, backlog' = backlog
      PROVE  ProxyTypes' /\ LooksAt'
  <2>1. /\ proxy'.links \in Seq(Callers)
        /\ proxy' = [proxy EXCEPT !.pc = "udp", !.links = proxy'.links, !.got = <<>>, !.fail = FALSE]
        BY <1>8, DropIs
  <2>2. <<>> \in Seq(Unit)
        OBVIOUS
  <2>3. \A l \in Seq(Callers) : proxy' = [proxy EXCEPT !.pc = "udp", !.links = l, !.got = <<>>, !.fail = FALSE]
                                  => ProxyTypes' /\ LooksAt'
        BY <1>8, <2>2 DEF Types, ProxyTypes, LooksAt
  <2>. QED BY <2>1, <2>3
<1>9. ASSUME Leave, proxy.at \in DOMAIN proxy.links, proxy.pc \in {"tcp", "len", "body"}, backlog' = backlog
      PROVE  ProxyTypes' /\ LooksAt'
  <2>1. CASE proxy' = NextLink
    <3>1. <<>> \in Seq(Unit) /\ proxy.at + 1 \in Nat \ {0}
          BY DEF Types, ProxyTypes
    <3>2. proxy' = [proxy EXCEPT !.pc = "udp", !.at = proxy.at + 1, !.got = <<>>]
          BY <2>1 DEF NextLink, Types, ProxyTypes
    <3>. QED BY <1>9, <3>1, <3>2 DEF Types, ProxyTypes, LooksAt
  <2>. QED BY <1>8, <1>9, <2>1 DEF Leave
<1>10. CASE FromCallerNot
  <2>1. proxy.pc = "tcp" /\ backlog' = backlog /\ Leave /\ proxy.at \in DOMAIN proxy.links
        BY <1>10 DEF FromCallerNot, LooksAt
  <2>. QED BY <1>9, <2>1
<1>11. CASE FromCaller
  <2>1. proxy.pc = "tcp" /\ backlog' = backlog /\ proxy.at \in DOMAIN proxy.links
        BY <1>11 DEF FromCaller, LooksAt
  <2>2. CASE \E part \in Found(up[Link], 2) :
               proxy' = [At(IF NeedsMore(part) THEN "len" ELSE "body") EXCEPT !.got = part]
    <3>1. PICK part \in Found(up[Link], 2) :
                 proxy' = [At(IF NeedsMore(part) THEN "len" ELSE "body") EXCEPT !.got = part]
          BY <2>2
    <3>2. part \in Seq(Unit) /\ Len(part) \in 1 .. 2
          BY <2>1, LinkIs, FoundIs DEF Types, StreamTypes
    <3>3. Len(part) = IF NeedsMore(part) THEN 1 ELSE 2
          BY <3>2 DEF NeedsMore
    <3>. HIDE DEF NeedsMore
    <3>. QED BY <2>1, <3>1, <3>2, <3>3 DEF Types, ProxyTypes, LooksAt
  <2>. QED BY <1>8, <1>11, <2>1, <2>2 DEF FromCaller
<1>12. CASE SecondUnit
  <2>1. proxy.pc = "len" /\ backlog' = backlog /\ proxy.at \in DOMAIN proxy.links /\ Len(proxy.got) = 1
        BY <1>12 DEF SecondUnit, LooksAt
  <2>2. CASE up[Link] # <<>> /\ proxy' = [At("body") EXCEPT !.got = Append(@, Head(up[Link]))]
    <3>1. Head(up[Link]) \in Unit /\ proxy.got \in Seq(Unit)
          BY <2>1, <2>2, LinkIs, HeadTailIs DEF Types, StreamTypes, ProxyTypes
    <3>2. Append(proxy.got, Head(up[Link])) \in Seq(Unit) /\ Len(Append(proxy.got, Head(up[Link]))) = 2
      <4>1. \A s \in Seq(Unit) : \A x \in Unit : Append(s, x) \in Seq(Unit) /\ Len(Append(s, x)) = Len(s) + 1
            BY AppendIs
      <4>2. Len(Append(proxy.got, Head(up[Link]))) = Len(proxy.got) + 1
            BY <3>1, <4>1
      <4>3. Append(proxy.got, Head(up[Link])) \in Seq(Unit)
            BY <3>1, <4>1
      <4>. QED BY <2>1, <4>2, <4>3
    <3>. QED BY <2>1, <2>2, <3>2 DEF Types, ProxyTypes, LooksAt
  <2>. QED BY <1>8, <1>12, <2>1, <2>2 DEF SecondUnit
<1>13. CASE Contents
  <2>1. proxy.pc = "body" /\ backlog' = backlog /\ proxy.at \in DOMAIN proxy.links
        BY <1>13 DEF Contents, LooksAt
  <2>2. proxy' = [At("tcp") EXCEPT !.got = <<>>] \/ Leave \/ Drop
        BY <1>13 DEF Contents, PassOn
  <2>3. CASE proxy' = [At("tcp") EXCEPT !.got = <<>>]
    <3>1. <<>> \in Seq(Unit)
          OBVIOUS
    <3>. QED BY <2>1, <2>3, <3>1 DEF Types, ProxyTypes, LooksAt
  <2>. QED BY <1>8, <1>9, <2>1, <2>2, <2>3
<1>14. ASSUME NEW c \in Callers, Connect(c) PROVE ProxyTypes' /\ LooksAt'
  <2>1. proxy' = proxy /\ backlog' = Append(backlog, c)
        BY <1>14 DEF Connect
  <2>. QED BY <2>1 DEF Types, ProxyTypes, LooksAt
<1>15. CASE UNCHANGED tunnelVars \/ \E c \in Callers : Serve(c) \/ Ask(c) \/ HangUp(c) \/ Listen(c)
  <2>1. UNCHANGED <<proxy, backlog>>
        BY <1>15 DEF tunnelVars, netVars, Serve, Ask, HangUp, Listen
  <2>. QED BY <2>1 DEF Types, ProxyTypes, LooksAt
<1>. QED BY <1>1, <1>2, <1>3, <1>4, <1>5, <1>6, <1>7, <1>10, <1>11, <1>12, <1>13, <1>14, <1>15, NextIs

\* Together.
LEMMA TypesNext ==
  Types /\ LooksAt /\ PlacesInv /\ ServerWhole /\ [TunnelNext]_tunnelVars => Types' /\ LooksAt'
BY CallTypesNext, StreamTypesNext, ServerTypesNext, ProxyNext DEF Types

\* The first caller in a list may be taken out of it, and one be put before it.
LEMMA ListsAre ==
  ASSUME NEW s \in Seq(Callers), IsInjective(s)
  PROVE  /\ s # <<>> => /\ Head(s) \in Range(s) /\ Range(Tail(s)) = Range(s) \ {Head(s)}
                        /\ IsInjective(Tail(s))
         /\ \A c \in Callers \ Range(s) :
              /\ Range(<<c>> \o s) = Range(s) \cup {c} /\ IsInjective(<<c>> \o s)
              /\ Range(Append(s, c)) = Range(s) \cup {c} /\ IsInjective(Append(s, c))
<1>1. s # <<>> => Head(s) \in Range(s) /\ Range(Tail(s)) = Range(s) \ {Head(s)} /\ IsInjective(Tail(s))
      BY HeadTailIs
<1>2. ASSUME NEW c \in Callers \ Range(s)
      PROVE  /\ Range(<<c>> \o s) = Range(s) \cup {c} /\ IsInjective(<<c>> \o s)
             /\ Range(Append(s, c)) = Range(s) \cup {c} /\ IsInjective(Append(s, c))
  <2>1. <<c>> \in Seq(Callers) /\ Range(<<c>>) = {c} /\ IsInjective(<<c>>)
        BY OneIs
  <2>. DEFINE one == <<c>>
  <2>. HIDE DEF one
  <2>2. Range(one \o s) = Range(one) \cup Range(s) /\ IsInjective(one \o s)
    <3>1. one \in Seq(Callers) /\ Range(one) = {c} /\ IsInjective(one)
          BY <2>1 DEF one
    <3>2. Range(one) \cap Range(s) = {}
          BY <1>2, <3>1
    <3>. QED BY <3>1, <3>2, ConcatIs
  <2>3. Range(<<c>> \o s) = {c} \cup Range(s) /\ IsInjective(<<c>> \o s)
        BY <2>1, <2>2 DEF one
  <2>4. Range(Append(s, c)) = Range(s) \cup {c} /\ IsInjective(Append(s, c))
        BY <1>2, AppendIs
  <2>. QED BY <2>3, <2>4
<1>. QED BY <1>1, <1>2

\* A list of one.
LEMMA ComingIs ==
  Types /\ PlacesInv /\ LooksAt =>
    /\ proxy.pc = "address" => New \in Callers /\ Coming = {New}
    /\ proxy.pc # "address" => Coming = {}
<1>. SUFFICES ASSUME Types, PlacesInv, LooksAt
              PROVE  /\ proxy.pc = "address" => New \in Callers /\ Coming = {New}
                     /\ proxy.pc # "address" => Coming = {}
     OBVIOUS
<1>1. proxy.from \in Seq(Callers) /\ Len(proxy.from) <= 1 /\ (proxy.from # <<>> <=> proxy.pc = "address")
      BY DEF Types, ProxyTypes, PlacesInv, LooksAt
<1>2. ASSUME proxy.pc = "address" PROVE New \in Callers /\ Coming = {New}
  <2>1. proxy.from # <<>>
        BY <1>1, <1>2
  <2>2. New = proxy.from[1] /\ New \in Callers /\ Len(proxy.from) \in Nat \ {0}
        BY <1>1, <2>1, HeadTailIs DEF New
  <2>3. DOMAIN proxy.from = {1}
    <3>1. Len(proxy.from) = 1
      <4>1. Len(proxy.from) <= 1 /\ Len(proxy.from) \in Nat \ {0}
            BY <1>1, <2>2
      <4>2. \A n \in Nat \ {0} : n <= 1 => n = 1
            OBVIOUS
      <4>. QED BY <4>1, <4>2
    <3>2. DOMAIN proxy.from = 1 .. 1
          BY <1>1, <3>1, LenProperties
    <3>. QED BY <3>2
  <2>. QED BY <2>2, <2>3 DEF Coming, Range
<1>3. ASSUME proxy.pc # "address" PROVE Coming = {}
      BY <1>1, <1>3, EmptyIs DEF Coming
<1>. QED BY <1>2, <1>3

\* What a step does to the places: nothing, or one caller goes on.
Stays == UNCHANGED <<backlog, proxy.links, proxy.from>>
PlacesStep ==
  \/ Stays
  \/ \E c \in Callers : Connect(c) /\ backlog' = Append(backlog, c) /\ UNCHANGED <<proxy.links, proxy.from>>
  \/ /\ Accept /\ proxy.pc = "accept" /\ backlog # <<>> /\ backlog' = Tail(backlog)
     /\ proxy'.links = proxy.links /\ proxy'.from \in {proxy.from, <<Head(backlog)>>}
  \/ /\ ReadAddress /\ proxy.pc = "address" /\ backlog' = backlog
     /\ proxy'.links \in {proxy.links, <<New>> \o proxy.links} /\ proxy'.from = <<>>
  \/ /\ Drop /\ proxy.at \in DOMAIN proxy.links /\ proxy.pc \in {"tcp", "len", "body"}
     /\ backlog' = backlog /\ proxy'.from = proxy.from

\* No step does anything else to them.
LEMMA PlacesStepIs == Types /\ LooksAt /\ PlacesInv /\ [TunnelNext]_tunnelVars => PlacesStep
<1>. SUFFICES ASSUME Types, LooksAt, PlacesInv, [TunnelNext]_tunnelVars PROVE PlacesStep
     OBVIOUS
<1>1. CASE SelectReturns
  <2>1. backlog' = backlog /\ \E ready \in SUBSET Readable : proxy' = [At("accept") EXCEPT !.ready = ready]
        BY <1>1 DEF SelectReturns, netVars
  <2>. QED BY <2>1 DEF PlacesStep, Stays, At, Types, ProxyTypes
<1>2. CASE Accept
  <2>1. proxy.pc = "accept" /\ backlog # <<>> /\ backlog' = Tail(backlog)
        BY <1>2 DEF Accept
  <2>2. proxy' = proxy \/ proxy' = [At("address") EXCEPT !.from = <<Head(backlog)>>, !.got = <<>>]
        BY <1>2 DEF Accept
  <2>3. proxy'.links = proxy.links /\ proxy'.from \in {proxy.from, <<Head(backlog)>>}
        BY <2>2 DEF At, Types, ProxyTypes
  <2>. QED BY <1>2, <2>1, <2>3 DEF PlacesStep
<1>3. CASE AcceptDone \/ AcceptFails \/ FromServer \/ FromServerDone \/ ServerFails \/ RoundDone
  <2>1. /\ backlog' = backlog
        /\ \/ proxy' = proxy \/ proxy' = At("dead") \/ proxy' = At("tcp") \/ proxy' = [At("udp") EXCEPT !.at = 1]
           \/ proxy' = [At("tcp") EXCEPT !.fail = TRUE] \/ proxy' = [At("select") EXCEPT !.ready = {}]
    <3>1. CASE AcceptDone \/ AcceptFails
          BY <3>1 DEF AcceptDone, AcceptFails, netVars
    <3>2. CASE FromServer
          BY <3>2 DEF FromServer
    <3>3. CASE FromServerDone \/ ServerFails \/ RoundDone
          BY <3>3 DEF FromServerDone, ServerFails, RoundDone, netVars
    <3>. QED BY <1>3, <3>1, <3>2, <3>3
  <2>2. proxy'.links = proxy.links /\ proxy'.from = proxy.from
        BY <2>1 DEF At, Types, ProxyTypes
  <2>. QED BY <2>1, <2>2 DEF PlacesStep, Stays
<1>4. CASE ReadAddress
  <2>1. proxy.pc = "address" /\ backlog' = backlog
        BY <1>4 DEF ReadAddress
  <2>2. \/ proxy' = [At("accept") EXCEPT !.links = <<New>> \o @, !.from = <<>>]
        \/ proxy' = [At("accept") EXCEPT !.from = <<>>]
        \/ proxy' = [proxy EXCEPT !.got = Append(@, Head(up[New]))]
        BY <1>4 DEF ReadAddress, Join, Refuse
  <2>3. \/ proxy'.links = proxy.links /\ proxy'.from = proxy.from
        \/ proxy'.links \in {proxy.links, <<New>> \o proxy.links} /\ proxy'.from = <<>>
        BY <2>2 DEF At, Types, ProxyTypes
  <2>. QED BY <1>4, <2>1, <2>3 DEF PlacesStep, Stays
<1>5. ASSUME Drop, proxy.at \in DOMAIN proxy.links, proxy.pc \in {"tcp", "len", "body"}, backlog' = backlog
      PROVE  PlacesStep
  <2>1. proxy'.from = proxy.from
        BY <1>5 DEF Drop, At, Types, ProxyTypes
  <2>. QED BY <1>5, <2>1 DEF PlacesStep
<1>6. ASSUME Leave, proxy.at \in DOMAIN proxy.links, proxy.pc \in {"tcp", "len", "body"}, backlog' = backlog
      PROVE  PlacesStep
  <2>1. CASE proxy' = NextLink
        BY <1>6, <2>1 DEF PlacesStep, Stays, NextLink, At, Types, ProxyTypes
  <2>. QED BY <1>5, <1>6, <2>1 DEF Leave
<1>7. CASE FromCaller \/ FromCallerNot \/ SecondUnit \/ Contents
  <2>1. backlog' = backlog /\ proxy.at \in DOMAIN proxy.links /\ proxy.pc \in {"tcp", "len", "body"}
        BY <1>7 DEF FromCaller, FromCallerNot, SecondUnit, Contents, LooksAt
  <2>2. Drop \/ Leave \/ \E place \in {"len", "body", "tcp"} : \E g : proxy' = [At(place) EXCEPT !.got = g]
    <3>1. CASE FromCaller
          BY <3>1 DEF FromCaller
    <3>2. CASE FromCallerNot
          BY <3>2 DEF FromCallerNot
    <3>3. CASE SecondUnit
          BY <3>3 DEF SecondUnit, At
    <3>4. CASE Contents
          BY <3>4 DEF Contents, PassOn
    <3>. QED BY <1>7, <3>1, <3>2, <3>3, <3>4
  <2>3. ASSUME NEW place \in {"len", "body", "tcp"}, NEW g, proxy' = [At(place) EXCEPT !.got = g] PROVE PlacesStep
        BY <2>1, <2>3 DEF PlacesStep, Stays, At, Types, ProxyTypes
  <2>. QED BY <1>5, <1>6, <2>1, <2>2, <2>3
<1>8. ASSUME NEW c \in Callers, Connect(c) PROVE PlacesStep
      BY <1>8 DEF PlacesStep, Connect
<1>9. CASE UNCHANGED tunnelVars \/ \E c \in Callers : Serve(c) \/ Ask(c) \/ HangUp(c) \/ Listen(c)
  <2>1. UNCHANGED <<proxy, backlog>>
        BY <1>9 DEF tunnelVars, netVars, Serve, Ask, HangUp, Listen
  <2>. QED BY <2>1 DEF PlacesStep, Stays
<1>. QED BY <1>1, <1>2, <1>3, <1>4, <1>7, <1>8, <1>9, NextIs

\* A caller that has not come sends nothing, and only one that is read from is
\* served.
LEMMA CallsStep ==
  ASSUME Types, LooksAt, [TunnelNext]_tunnelVars, NEW c \in Callers
  PROVE  /\ call'[c] = "no" => call[c] = "no" /\ asked'[c] = asked[c]
         /\ served'[c] = served[c] \/ (c = Link /\ c \in Joined)
<1>1. call'[c] = "no" => call[c] = "no" /\ asked'[c] = asked[c]
  <2>1. ASSUME NEW b \in Callers, Connect(b) \/ Ask(b) \/ HangUp(b) \/ Listen(b)
        PROVE  call'[c] = "no" => call[c] = "no" /\ asked'[c] = asked[c]
    <3>1. CASE Connect(b)
          BY <3>1 DEF Connect, Types, CallTypes
    <3>2. CASE Ask(b)
      <4>1. call[b] = "up" /\ asked' = [asked EXCEPT ![b] = @ + 1] /\ call' \in {call, [call EXCEPT ![b] = "gone"]}
            BY <3>2 DEF Ask
      <4>. QED BY <4>1 DEF Types, CallTypes
    <3>3. CASE HangUp(b)
          BY <3>3 DEF HangUp, Types, CallTypes
    <3>4. CASE Listen(b)
          BY <3>4 DEF Listen, AfterLength, Types, CallTypes
    <3>. QED BY <2>1, <3>1, <3>2, <3>3, <3>4
  <2>2. CASE UNCHANGED <<call, asked>>
        BY <2>2
  <2>3. CASE ~(\E b \in Callers : Connect(b) \/ Ask(b) \/ HangUp(b) \/ Listen(b))
    <3>1. CASE \E b \in Callers : Serve(b)
          BY <2>2, <3>1, CallsKept
    <3>2. CASE ~(\E b \in Callers : Serve(b))
          BY <2>2, <2>3, <3>2, CallsKept, NextIs
    <3>. QED BY <3>1, <3>2
  <2>. QED BY <2>1, <2>3
<1>2. served'[c] = served[c] \/ (c = Link /\ c \in Joined)
  <2>1. CASE Contents
    <3>1. Link \in Joined
          BY <2>1, LinkIs DEF Contents, LooksAt
    <3>2. served' = served \/ \E m : served' = [served EXCEPT ![Link] = Append(@, m)]
          BY <2>1 DEF Contents, PassOn
    <3>. QED BY <3>1, <3>2 DEF Types, ServerTypes
  <2>2. CASE \/ UNCHANGED tunnelVars \/ SelectReturns \/ Accept \/ AcceptDone \/ ReadAddress \/ FromServer
             \/ FromServerDone \/ FromCaller \/ FromCallerNot \/ SecondUnit \/ RoundDone \/ AcceptFails \/ ServerFails
        BY <2>2 DEF tunnelVars, SelectReturns, Accept, AcceptDone, ReadAddress, FromServer, FromServerDone, FromCaller,
           FromCallerNot, SecondUnit, RoundDone, AcceptFails, ServerFails
  <2>3. CASE \E b \in Callers : Serve(b) \/ Connect(b) \/ Ask(b) \/ HangUp(b) \/ Listen(b)
        BY <2>3 DEF Serve, Connect, Ask, HangUp, Listen
  <2>. QED BY <2>1, <2>2, <2>3, NextIs
<1>. QED BY <1>1, <1>2

\* A caller goes from one place to the next, or is in none any more.
On == Waiting \cup Coming \cup Joined
\* So each caller stays in one place.
LEMMA PlacesNext == Types /\ LooksAt /\ PlacesInv /\ [TunnelNext]_tunnelVars => PlacesInv'
<1>. SUFFICES ASSUME Types, LooksAt, PlacesInv, [TunnelNext]_tunnelVars PROVE PlacesInv'
     OBVIOUS
<1>. DEFINE Lists ==
              /\ IsInjective(backlog) /\ IsInjective(proxy.links) /\ Len(proxy.from) <= 1
              /\ Waiting \cap Coming = {} /\ Waiting \cap Joined = {} /\ Coming \cap Joined = {}
            Calls(W, C, J) ==
              /\ \A c \in Callers : call'[c] = "no" => c \notin W \cup C \cup J /\ asked'[c] = 0 /\ served'[c] = <<>>
              /\ \A c \in W \cup C : served'[c] = <<>>
<1>1. ProxyTypes /\ Lists
      BY DEF Types, PlacesInv
<1>2. Waiting \subseteq Callers /\ Coming \subseteq Callers /\ Joined \subseteq Callers
      BY <1>1, RangeIs DEF ProxyTypes, Waiting, Coming, Joined
<1>3. Calls(Waiting, Coming, Joined)
  <2>1. \A c \in Callers : call'[c] = "no" => call[c] = "no" /\ asked'[c] = asked[c]
        BY CallsStep
  <2>2. \A c \in Callers : c \notin Joined => served'[c] = served[c]
        BY CallsStep
  <2>3. \A c \in Callers : call[c] = "no" => c \notin Waiting \cup Coming \cup Joined /\ asked[c] = 0 /\ served[c] = <<>>
        BY DEF PlacesInv
  <2>4. \A c \in Waiting \cup Coming : served[c] = <<>> /\ c \notin Joined
        BY DEF PlacesInv
  <2>. QED BY <1>2, <2>1, <2>2, <2>3, <2>4
<1>4. ASSUME Lists', Calls(Waiting', Coming', Joined') PROVE PlacesInv'
  <2>1. \A c \in Callers : call'[c] = "no" => c \notin Waiting' \cup Coming' \cup Joined' /\ asked'[c] = 0 /\ served'[c] = <<>>
        BY <1>4
  <2>2. \A c \in Waiting' \cup Coming' : served'[c] = <<>>
        BY <1>4
  <2>3. Lists'
        BY <1>4
  <2>. QED BY <2>1, <2>2, <2>3 DEF PlacesInv
<1>5. CASE Stays
  <2>1. Lists' /\ Waiting' = Waiting /\ Coming' = Coming /\ Joined' = Joined
        BY <1>1, <1>5 DEF Stays, Waiting, Coming, Joined
  <2>. QED BY <1>3, <1>4, <2>1
<1>6. ASSUME NEW c \in Callers, Connect(c), backlog' = Append(backlog, c), UNCHANGED <<proxy.links, proxy.from>>
      PROVE  PlacesInv'
  <2>1. call[c] = "no" /\ call'[c] # "no" /\ served' = served
        BY <1>6 DEF Connect, Types, CallTypes
  <2>2. c \notin Waiting /\ c \notin Coming /\ c \notin Joined /\ served[c] = <<>>
        BY <2>1 DEF PlacesInv
  <2>3. Waiting' = Waiting \cup {c} /\ Coming' = Coming /\ Joined' = Joined /\ IsInjective(backlog')
        BY <1>1, <1>6, <2>2, ListsAre DEF ProxyTypes, Waiting, Coming, Joined
  <2>4. Lists'
        BY <1>1, <1>6, <2>2, <2>3
  <2>5. Calls(Waiting', Coming', Joined')
        BY <1>3, <2>1, <2>2, <2>3
  <2>. QED BY <1>4, <2>4, <2>5
<1>7. CASE /\ Accept /\ proxy.pc = "accept" /\ backlog # <<>> /\ backlog' = Tail(backlog)
           /\ proxy'.links = proxy.links /\ proxy'.from \in {proxy.from, <<Head(backlog)>>}
  <2>. DEFINE h == Head(backlog)
  <2>1. h \in Waiting /\ Waiting' = Waiting \ {h} /\ IsInjective(backlog') /\ Joined' = Joined
        BY <1>1, <1>7, ListsAre DEF ProxyTypes, Waiting, Joined
  <2>2. Coming = {}
        BY <1>7, ComingIs
  <2>3. h \in Callers /\ Range(<<h>>) = {h} /\ Len(<<h>>) = 1
        BY <1>2, <2>1, OneIs
  <2>. HIDE DEF h
  <2>4. Len(proxy'.from) <= 1 /\ Coming' \subseteq {h}
    <3>1. CASE proxy'.from = proxy.from
          BY <1>1, <2>2, <3>1 DEF Coming
    <3>2. CASE proxy'.from = <<h>>
      <4>1. Len(proxy'.from) = 1 /\ Coming' = {h}
            BY <2>3, <3>2 DEF Coming
      <4>. QED BY <4>1
    <3>. QED BY <1>7, <3>1, <3>2 DEF h
  <2>5. Lists'
        BY <1>1, <1>7, <2>1, <2>4
  <2>6. Calls(Waiting', Coming', Joined')
        BY <1>3, <2>1, <2>4
  <2>. QED BY <1>4, <2>5, <2>6
<1>8. CASE /\ ReadAddress /\ proxy.pc = "address" /\ backlog' = backlog
           /\ proxy'.links \in {proxy.links, <<New>> \o proxy.links} /\ proxy'.from = <<>>
  <2>1. New \in Callers /\ Coming = {New}
        BY <1>8, ComingIs
  <2>2. Waiting' = Waiting /\ Coming' = {} /\ Len(proxy'.from) <= 1
        BY <1>8, EmptyIs DEF Waiting, Coming
  <2>3. New \in Callers \ Range(proxy.links) /\ proxy.links \in Seq(Callers) /\ IsInjective(proxy.links)
        BY <1>1, <2>1 DEF Joined, ProxyTypes
  <2>4. IsInjective(proxy'.links) /\ Joined' \subseteq Joined \cup {New}
    <3>1. CASE proxy'.links = proxy.links
          BY <1>1, <3>1 DEF Joined
    <3>2. CASE proxy'.links = <<New>> \o proxy.links
          BY <2>3, <3>2, ListsAre DEF Joined
    <3>. QED BY <1>8, <3>1, <3>2
  <2>5. New \notin Waiting
        BY <1>1, <2>1
  <2>6. Lists'
        BY <1>1, <1>8, <2>2, <2>4, <2>5
  <2>7. Calls(Waiting', Coming', Joined')
        BY <1>3, <2>1, <2>2, <2>4
  <2>. QED BY <1>4, <2>6, <2>7
<1>9. CASE /\ Drop /\ proxy.at \in DOMAIN proxy.links /\ proxy.pc \in {"tcp", "len", "body"}
           /\ backlog' = backlog /\ proxy'.from = proxy.from
  <2>1. IsInjective(proxy'.links) /\ Joined' \subseteq Joined
        BY <1>9, DropIs
  <2>2. Waiting' = Waiting /\ Coming' = Coming
        BY <1>9 DEF Waiting, Coming
  <2>3. Lists'
        BY <1>1, <1>9, <2>1, <2>2
  <2>4. Calls(Waiting', Coming', Joined')
        BY <1>3, <2>1, <2>2
  <2>. QED BY <1>4, <2>3, <2>4
<1>. QED BY <1>5, <1>6, <1>7, <1>8, <1>9, PlacesStepIs DEF PlacesStep

-----------------------------------------------------------------------------
(* What is on the way from a caller to the proxy.                          *)

\* The units of a caller's stream are numbered so that the first of its m-th
\* message has the number 4 * m + 1, and the zero of the address has 4.
Stands(c, u, n) ==
  \/ \E m \in Nat \ {0} : \E p \in 1 .. 4 : u = <<"ask", m, p>> /\ n = 4 * m + p
  \/ \E i \in 1 .. AddrLen(c) : u = Address(c)[i] /\ n = i + 4 - AddrLen(c)

\* The number of the last unit that the proxy has read.
InHand(c) == IF proxy.pc \in {"len", "body"} /\ c = Link THEN Len(proxy.got) ELSE 0
HasRead(c) ==
  IF c \in Joined THEN 4 * Len(served[c]) + 4 + InHand(c)
  ELSE 4 - AddrLen(c) + (IF c \in Coming THEN Len(proxy.got) ELSE 0)

\* The units on the way follow it, and reach to the last that was sent.
StreamOf(c, n) ==
  /\ \A i \in 1 .. Len(up[c]) : Stands(c, up[c][i], n + i)
  /\ call[c] # "gone" => n + Len(up[c]) = 4 * asked[c] + 4
StreamInv == \A c \in On : StreamOf(c, HasRead(c))

\* A caller that has not come has sent nothing.
UnsentInv == \A c \in Callers : call[c] = "no" => up[c] = <<>>

\* A server is sent whole messages, each once and in order.
ServedInv == \A c \in Callers : \A k \in DOMAIN served[c] : served[c][k] = WholeOf("ask", k)

\* A number tells the unit of a message, and the zero of an address its number.
LEMMA StandsIs ==
  ASSUME NEW c \in Callers, NEW u, NEW n \in Int, Stands(c, u, n)
  PROVE  /\ \A k \in Nat \ {0} : \A p \in 1 .. 4 : n = 4 * k + p => u = <<"ask", k, p>>
         /\ u[3] = 0 => n = 4
<1>1. AddrLen(c) \in Nat \ {0}
      BY AddressIs
<1>2. CASE \E m \in Nat \ {0} : \E p \in 1 .. 4 : u = <<"ask", m, p>> /\ n = 4 * m + p
  <2>1. PICK m \in Nat \ {0}, p \in 1 .. 4 : u = <<"ask", m, p>> /\ n = 4 * m + p
        BY <1>2
  <2>2. u[3] # 0
        BY <2>1
  <2>3. ASSUME NEW k \in Nat \ {0}, NEW q \in 1 .. 4, n = 4 * k + q PROVE u = <<"ask", k, q>>
    <3>1. k = m /\ q = p
          BY <2>1, <2>3
    <3>. QED BY <2>1, <3>1
  <2>. QED BY <2>2, <2>3
<1>3. CASE \E i \in 1 .. AddrLen(c) : u = Address(c)[i] /\ n = i + 4 - AddrLen(c)
  <2>1. PICK i \in 1 .. AddrLen(c) : u = Address(c)[i] /\ n = i + 4 - AddrLen(c)
        BY <1>3
  <2>2. u[3] = IF i = AddrLen(c) THEN 0 ELSE i
        BY <2>1, AddressIs
  <2>3. n <= 4 /\ (i = AddrLen(c) => n = 4)
        BY <1>1, <2>1
  <2>4. u[3] = 0 => n = 4
        BY <1>1, <2>1, <2>2, <2>3
  <2>5. \A k \in Nat \ {0} : \A p \in 1 .. 4 : n # 4 * k + p
        BY <2>3
  <2>. QED BY <2>4, <2>5
<1>. QED BY <1>2, <1>3 DEF Stands

\* What a reader takes raises the number, ...
LEMMA TakesUnits ==
  ASSUME Types, NEW c \in Callers, NEW n \in Int, NEW k \in Nat, k <= Len(up[c]), StreamOf(c, n),
         up'[c] \in Seq(Unit), Len(up'[c]) = Len(up[c]) - k,
         \A i \in 1 .. Len(up[c]) - k : up'[c][i] = up[c][i + k],
         UNCHANGED <<call, asked>>
  PROVE  StreamOf(c, n + k)'
<1>1. Len(up[c]) \in Nat /\ asked[c] \in Nat
      BY LenProperties DEF Types, StreamTypes, CallTypes
<1>2. ASSUME NEW i \in 1 .. Len(up'[c]) PROVE Stands(c, up'[c][i], n + k + i)
  <2>1. i + k \in 1 .. Len(up[c]) /\ i \in 1 .. Len(up[c]) - k /\ n + k + i = n + (i + k)
        BY <1>1, <1>2
  <2>2. Stands(c, up[c][i + k], n + (i + k))
        BY <2>1 DEF StreamOf
  <2>. QED BY <2>1, <2>2
<1>3. call'[c] # "gone" => n + k + Len(up'[c]) = 4 * asked'[c] + 4
      BY <1>1 DEF StreamOf
<1>. QED BY <1>2, <1>3 DEF StreamOf

\* ... and what no one touches stays.
LEMMA UnitsStay ==
  ASSUME NEW c \in Callers, NEW n \in Int, StreamOf(c, n), up'[c] = up[c],
         call'[c] = "gone" \/ (call[c] # "gone" /\ asked'[c] = asked[c])
  PROVE  StreamOf(c, n)'
BY DEF StreamOf

\* The number is one.
LEMMA HasReadType ==
  ASSUME Types, NEW c \in Callers
  PROVE  HasRead(c) \in Int
<1>1. Len(served[c]) \in Nat /\ Len(proxy.got) \in Nat /\ AddrLen(c) \in Nat
      BY LenProperties, AddressIs DEF Types, ServerTypes, ProxyTypes, Messages
<1>2. InHand(c) \in Nat
      BY <1>1 DEF InHand
<1>. QED BY <1>1, <1>2 DEF HasRead

\* A step after which the proxy has read as much of a caller as before.
LEMMA ReadsNothing ==
  ASSUME Types, NEW c \in Callers, served'[c] = served[c], c \in Joined' <=> c \in Joined,
         c \in Joined => InHand(c)' = InHand(c),
         c \notin Joined => (c \in Coming' <=> c \in Coming) /\ (c \in Coming => Len(proxy'.got) = Len(proxy.got))
  PROVE  HasRead(c)' = HasRead(c)
BY DEF HasRead

\* A stream that no one reads from or sends to stays as it is, ...
LEMMA StreamStays ==
  ASSUME Types, StreamInv, NEW c \in Callers, c \in On, HasRead(c)' = HasRead(c), up'[c] = up[c],
         call'[c] = "gone" \/ (call[c] # "gone" /\ asked'[c] = asked[c])
  PROVE  StreamOf(c, HasRead(c))'
<1>1. PICK n \in Int : n = HasRead(c)
      BY HasReadType
<1>2. StreamOf(c, n)
      BY <1>1 DEF StreamInv
<1>3. StreamOf(c, n)'
      BY <1>2, UnitsStay
<1>4. n = HasRead(c)'
      BY <1>1
<1>. QED BY <1>3, <1>4 DEF StreamOf

\* ... and one from which k units are read goes on by k.
LEMMA StreamIsRead ==
  ASSUME Types, StreamInv, NEW c \in Callers, c \in On, NEW k \in Nat, k <= Len(up[c]),
         up'[c] \in Seq(Unit), Len(up'[c]) = Len(up[c]) - k, \A i \in 1 .. Len(up[c]) - k : up'[c][i] = up[c][i + k],
         UNCHANGED <<call, asked>>, HasRead(c)' = HasRead(c) + k
  PROVE  StreamOf(c, HasRead(c))'
<1>1. PICK n \in Int : n = HasRead(c)
      BY HasReadType
<1>2. StreamOf(c, n)
      BY <1>1 DEF StreamInv
<1>3. StreamOf(c, n + k)'
      BY <1>2, TakesUnits
<1>4. n + k = HasRead(c)'
      BY <1>1
<1>. QED BY <1>3, <1>4 DEF StreamOf

\* What is left when units are taken, one by one or several.
LEMMA PartIs ==
  ASSUME Types, NEW c \in Callers, NEW n \in Nat, NEW part \in Found(up[c], n), up' = [up EXCEPT ![c] = Left(@, part)]
  PROVE  /\ Len(part) \in Nat /\ Len(part) <= n /\ Len(part) <= Len(up[c])
         /\ part \in Seq(Unit) /\ \A i \in 1 .. Len(part) : part[i] = up[c][i]
         /\ up'[c] \in Seq(Unit) /\ Len(up'[c]) = Len(up[c]) - Len(part)
         /\ \A i \in 1 .. Len(up[c]) - Len(part) : up'[c][i] = up[c][i + Len(part)]
         /\ \A b \in Callers \ {c} : up'[b] = up[b]
<1>1. up[c] \in Seq(Unit) /\ up'[c] = Left(up[c], part) /\ \A b \in Callers \ {c} : up'[b] = up[b]
      BY DEF Types, StreamTypes
<1>2. Len(part) \in 1 .. n
      BY <1>1, FoundIs
<1>3. /\ part \in Seq(Unit) /\ Len(part) <= Len(up[c]) /\ \A i \in 1 .. Len(part) : part[i] = up[c][i]
      /\ Left(up[c], part) \in Seq(Unit) /\ Len(Left(up[c], part)) = Len(up[c]) - Len(part)
      /\ \A i \in 1 .. Len(up[c]) - Len(part) : Left(up[c], part)[i] = up[c][i + Len(part)]
  <2>. DEFINE s == up[c]
  <2>1. s \in Seq(Unit) /\ part \in Found(s, n)
        BY <1>1
  <2>. HIDE DEF s
  <2>2. /\ part \in Seq(Unit) /\ Len(part) <= Len(s) /\ \A i \in 1 .. Len(part) : part[i] = s[i]
        /\ Left(s, part) \in Seq(Unit) /\ Len(Left(s, part)) = Len(s) - Len(part)
        /\ \A i \in 1 .. Len(s) - Len(part) : Left(s, part)[i] = s[i + Len(part)]
        BY <2>1, FoundIs
  <2>. QED BY <2>2 DEF s
<1>4. Len(part) \in Nat /\ Len(part) <= n
      BY <1>2
<1>. QED BY <1>1, <1>3, <1>4

\* The same for a unit.
LEMMA OneUnitIs ==
  ASSUME Types, NEW c \in Callers, up[c] # <<>>, up' = [up EXCEPT ![c] = Tail(@)]
  PROVE  /\ 1 <= Len(up[c]) /\ Head(up[c]) = up[c][1] /\ Head(up[c]) \in Unit
         /\ up'[c] \in Seq(Unit) /\ Len(up'[c]) = Len(up[c]) - 1
         /\ \A i \in 1 .. Len(up[c]) - 1 : up'[c][i] = up[c][i + 1]
         /\ \A b \in Callers \ {c} : up'[b] = up[b]
<1>1. up[c] \in Seq(Unit) /\ up'[c] = Tail(up[c]) /\ \A b \in Callers \ {c} : up'[b] = up[b]
      BY DEF Types, StreamTypes
<1>2. /\ Head(up[c]) \in Unit /\ Head(up[c]) = up[c][1] /\ Len(up[c]) \in Nat \ {0} /\ Tail(up[c]) \in Seq(Unit)
      /\ Len(Tail(up[c])) = Len(up[c]) - 1 /\ \A i \in 1 .. Len(up[c]) - 1 : Tail(up[c])[i] = up[c][i + 1]
      BY <1>1, HeadTailIs
<1>3. 1 <= Len(up[c])
      BY <1>2
<1>. QED BY <1>1, <1>2, <1>3

\* The callers' own steps.
LEMMA CallersStreams ==
  ASSUME Types, Types', PlacesInv, StreamInv, UnsentInv, NEW b \in Callers,
         Connect(b) \/ Ask(b) \/ HangUp(b) \/ Listen(b) \/ Serve(b)
  PROVE  StreamInv'
<1>. SUFFICES ASSUME NEW c \in Callers, c \in On' PROVE StreamOf(c, HasRead(c))'
  <2>1. On' \subseteq Callers
        BY RangeIs DEF Types, ProxyTypes, On, Waiting, Coming, Joined
  <2>. QED BY <2>1 DEF StreamInv
<1>1. proxy' = proxy /\ served' = served
      BY DEF Connect, Ask, HangUp, Listen, Serve
<1>2. Joined' = Joined /\ Coming' = Coming /\ HasRead(c)' = HasRead(c)
      BY <1>1 DEF Joined, Coming, HasRead, InHand, Link
<1>3. ASSUME c # b PROVE c \in On /\ up'[c] = up[c] /\ call'[c] = call[c] /\ asked'[c] = asked[c]
  <2>1. \A x \in Waiting' : x # b => x \in Waiting
    <3>1. CASE backlog' = backlog
          BY <3>1 DEF Waiting
    <3>2. CASE backlog' = Append(backlog, b)
      <4>1. Waiting' = Waiting \cup {b}
            BY <3>2, AppendIs DEF Waiting, Types, ProxyTypes
      <4>. QED BY <4>1
    <3>. QED BY <3>1, <3>2 DEF Connect, Ask, HangUp, Listen, Serve, netVars
  <2>2. c \in On
        BY <1>2, <1>3, <2>1 DEF On
  <2>3. up'[c] = up[c] /\ call'[c] = call[c] /\ asked'[c] = asked[c]
    <3>1. CASE Connect(b)
          BY <1>3, <3>1 DEF Connect, Types, CallTypes, StreamTypes
    <3>2. CASE Ask(b)
          BY <1>3, <3>2 DEF Ask, Types, CallTypes, StreamTypes
    <3>3. CASE HangUp(b) \/ Listen(b) \/ Serve(b)
          BY <1>3, <3>3 DEF HangUp, Listen, Serve, netVars, callVars, Types, CallTypes, StreamTypes
    <3>. QED BY <3>1, <3>2, <3>3
  <2>. QED BY <2>2, <2>3
<1>4. CASE c # b
      BY <1>2, <1>3, <1>4, HasReadType, StreamStays
<1>5. CASE c = b /\ Connect(b)
  <2>1. c \notin Joined /\ c \notin Coming /\ asked[c] = 0 /\ asked' = asked /\ AddrLen(c) \in Nat \ {0}
        BY <1>5, AddressIs DEF Connect, PlacesInv
  <2>2. HasRead(c)' = 4 - AddrLen(c)
        BY <1>2, <2>1 DEF HasRead
  <2>3. CASE up'[c] = Address(c)
    <3>1. /\ Len(Address(c)) = AddrLen(c)
          /\ \A i \in 1 .. AddrLen(c) : Stands(c, Address(c)[i], 4 - AddrLen(c) + i)
      <4>1. \A i \in 1 .. AddrLen(c) : 4 - AddrLen(c) + i = i + 4 - AddrLen(c)
            BY <2>1
      <4>. QED BY <4>1, AddressIs DEF Stands
    <3>2. 4 - AddrLen(c) + AddrLen(c) = 4 * asked'[c] + 4
          BY <2>1
    <3>. QED BY <2>2, <2>3, <3>1, <3>2 DEF StreamOf
  <2>4. CASE up' = up /\ call'[c] = "gone"
    <3>1. up[c] = <<>>
          BY <1>5 DEF Connect, UnsentInv
    <3>. QED BY <2>4, <3>1 DEF StreamOf
  <2>5. up'[c] = Address(c) \/ (up' = up /\ call'[c] = "gone")
        BY <1>5 DEF Connect, Types, StreamTypes, CallTypes
  <2>. QED BY <2>3, <2>4, <2>5
<1>6. ASSUME NEW s \in Seq(Unit), NEW k \in Nat \ {0}, k = asked[c] + 1, asked'[c] = k, call[c] = "up", c \in On,
             \A i \in 1 .. Len(s) : s[i] = <<"ask", k, i>>, Len(s) <= 4,
             up'[c] = up[c] \o s, call'[c] = "gone" \/ Len(s) = 4
      PROVE  StreamOf(c, HasRead(c))'
  <2>1. PICK n \in Int : n = HasRead(c)
        BY HasReadType
  <2>2. StreamOf(c, n) /\ up[c] \in Seq(Unit) /\ asked[c] \in Nat
        BY <1>6, <2>1 DEF StreamInv, Types, StreamTypes, CallTypes
  <2>3. /\ Len(up[c]) \in Nat /\ Len(s) \in Nat /\ Len(up'[c]) = Len(up[c]) + Len(s)
        /\ \A i \in 1 .. Len(up[c]) + Len(s) : up'[c][i] = IF i <= Len(up[c]) THEN up[c][i] ELSE s[i - Len(up[c])]
        BY <1>6, <2>2, ConcatProperties, LenProperties
  <2>4. n + Len(up[c]) = 4 * asked[c] + 4
        BY <1>6, <2>2 DEF StreamOf
  <2>5. ASSUME NEW i \in 1 .. Len(up'[c]) PROVE Stands(c, up'[c][i], n + i)
    <3>1. CASE i <= Len(up[c])
      <4>1. i \in 1 .. Len(up[c])
            BY <2>3, <3>1
      <4>2. up'[c][i] = up[c][i]
            BY <2>3, <3>1
      <4>. QED BY <2>2, <4>1, <4>2 DEF StreamOf
    <3>2. CASE ~(i <= Len(up[c]))
      <4>1. PICK p \in 1 .. Len(s) : p = i - Len(up[c])
            BY <2>3, <3>2
      <4>2. up'[c][i] = <<"ask", k, p>>
            BY <1>6, <2>3, <3>2, <4>1
      <4>3. n + i = 4 * k + p /\ p \in 1 .. 4
        <5>1. \A L \in Nat, a \in Nat : n + L = 4 * a + 4 /\ k = a + 1 /\ p = i - L => n + i = 4 * k + p
              OBVIOUS
        <5>2. n + i = 4 * k + p
              BY <1>6, <2>2, <2>3, <2>4, <4>1, <5>1
        <5>3. p \in 1 .. 4
              BY <1>6, <2>3
        <5>. QED BY <5>2, <5>3
      <4>. QED BY <4>2, <4>3 DEF Stands
    <3>. QED BY <3>1, <3>2
  <2>6. call'[c] # "gone" => n + Len(up'[c]) = 4 * asked'[c] + 4
    <3>1. \A L \in Nat, a \in Nat : n + L = 4 * a + 4 /\ k = a + 1 => n + (L + 4) = 4 * k + 4
          OBVIOUS
    <3>2. n + (Len(up[c]) + 4) = 4 * k + 4
          BY <1>6, <2>2, <2>3, <2>4, <3>1
    <3>. QED BY <1>6, <2>3, <3>2
  <2>7. n = HasRead(c)'
        BY <1>2, <2>1
  <2>. QED BY <2>5, <2>6, <2>7 DEF StreamOf
<1>7. CASE c = b /\ Ask(b)
  <2>1. /\ call[c] = "up" /\ asked' = [asked EXCEPT ![c] = @ + 1] /\ backlog' = backlog
        /\ \/ up' = [up EXCEPT ![c] = @ \o Units("ask", asked'[c])]
           \/ /\ \E n \in 1 .. 3 : up' = [up EXCEPT ![c] = @ \o SubSeq(Units("ask", asked'[c]), 1, n)]
              /\ call' = [call EXCEPT ![c] = "gone"]
        BY <1>7 DEF Ask
  <2>2. PICK k \in Nat \ {0} : k = asked[c] + 1 /\ asked'[c] = k
        BY <2>1 DEF Types, CallTypes
  <2>3. c \in On
        BY <1>2, <2>1 DEF On, Waiting
  <2>. DEFINE s == Units("ask", k)
  <2>. HIDE DEF s
  <2>4. s \in Seq(Unit) /\ Len(s) = 4 /\ \A i \in 1 .. 4 : s[i] = <<"ask", k, i>>
        BY UnitsIs DEF s
  <2>5. CASE up' = [up EXCEPT ![c] = @ \o s]
    <3>1. up'[c] = up[c] \o s
          BY <2>5 DEF Types, StreamTypes
    <3>2. Len(s) <= 4 /\ \A i \in 1 .. Len(s) : s[i] = <<"ask", k, i>>
          BY <2>4
    <3>. QED BY <1>6, <2>1, <2>2, <2>3, <2>4, <3>1, <3>2
  <2>6. ASSUME NEW n \in 1 .. 3, up' = [up EXCEPT ![c] = @ \o SubSeq(s, 1, n)], call' = [call EXCEPT ![c] = "gone"]
        PROVE  StreamOf(c, HasRead(c))'
    <3>. DEFINE t == SubSeq(s, 1, n)
    <3>1. t \in Seq(Unit) /\ Len(t) = n /\ \A i \in 1 .. n : t[i] = s[i]
          BY <2>4
    <3>. HIDE DEF t
    <3>2. Len(t) <= 4 /\ \A i \in 1 .. Len(t) : t[i] = <<"ask", k, i>>
          BY <2>4, <3>1
    <3>3. up'[c] = up[c] \o t /\ call'[c] = "gone"
          BY <2>6 DEF Types, StreamTypes, CallTypes, t
    <3>. QED BY <1>6, <2>1, <2>2, <2>3, <3>1, <3>2, <3>3
  <2>. QED BY <2>1, <2>2, <2>5, <2>6 DEF s
<1>8. CASE c = b /\ (HangUp(b) \/ Listen(b) \/ Serve(b))
  <2>1. up' = up /\ asked' = asked /\ backlog' = backlog
        BY <1>8 DEF HangUp, Listen, Serve, netVars, callVars
  <2>2. call'[c] = "gone" \/ call[c] # "gone"
    <3>1. CASE HangUp(b)
          BY <1>8, <3>1 DEF HangUp, Types, CallTypes
    <3>2. CASE Listen(b)
          BY <1>8, <3>2 DEF Listen, Types, CallTypes
    <3>3. CASE Serve(b)
          BY <1>8, <3>3 DEF Serve, callVars
    <3>. QED BY <1>8, <3>1, <3>2, <3>3
  <2>3. c \in On
        BY <1>2, <2>1 DEF On, Waiting
  <2>. QED BY <1>2, <2>1, <2>2, <2>3, StreamStays
<1>. QED BY <1>4, <1>5, <1>7, <1>8

\* The proxy takes units of the caller it looks at, ...
LEMMA LinkStreams ==
  ASSUME Types, Types', LooksAt, PlacesInv, StreamInv, NEW l \in Callers, l = Link, proxy.at \in DOMAIN proxy.links,
         Stays, UNCHANGED <<call, asked>>, proxy'.pc \in {"len", "body"} => Link' = l,
         NEW k \in Nat, k <= Len(up[l]),
         up'[l] \in Seq(Unit), Len(up'[l]) = Len(up[l]) - k, \A i \in 1 .. Len(up[l]) - k : up'[l][i] = up[l][i + k],
         \A b \in Callers \ {l} : up'[b] = up[b] /\ served'[b] = served[b],
         HasRead(l)' = HasRead(l) + k, proxy.pc # "address"
  PROVE  StreamInv'
<1>1. l \in Joined
      BY LinkIs
<1>2. Waiting' = Waiting /\ Coming' = Coming /\ Joined' = Joined
      BY DEF Stays, Waiting, Coming, Joined
<1>3. Coming = {}
      BY ComingIs
<1>. SUFFICES ASSUME NEW c \in Callers, c \in On PROVE StreamOf(c, HasRead(c))'
  <2>1. On' = On /\ On' \subseteq Callers
        BY <1>2, RangeIs DEF Types, ProxyTypes, On, Waiting, Coming, Joined
  <2>. QED BY <2>1 DEF StreamInv
<1>4. CASE c = l
      BY <1>4, StreamIsRead
<1>5. CASE c # l
  <2>1. InHand(c) = 0 /\ InHand(c)' = 0
        BY <1>5 DEF InHand
  <2>2. HasRead(c)' = HasRead(c)
        BY <1>2, <1>3, <1>5, <2>1, ReadsNothing
  <2>3. up'[c] = up[c]
        BY <1>5
  <2>. QED BY <1>5, <2>2, <2>3, StreamStays
<1>. QED BY <1>4, <1>5

\* ... or closes it, ...
LEMMA DropStreams ==
  ASSUME Types, Types', LooksAt, PlacesInv, StreamInv, proxy.at \in DOMAIN proxy.links, NEW l \in Callers, l = Link,
         Drop, backlog' = backlog, UNCHANGED <<call, asked>>, proxy.pc # "address",
         \A b \in Callers \ {l} : up'[b] = up[b] /\ served'[b] = served[b]
  PROVE  StreamInv'
<1>1. l \in Joined /\ Coming = {}
      BY LinkIs, ComingIs
<1>2. Joined' = Joined \ {l} /\ proxy' = [proxy EXCEPT !.pc = "udp", !.links = proxy'.links, !.got = <<>>, !.fail = FALSE]
      BY DropIs
<1>3. proxy'.pc = "udp" /\ proxy'.from = proxy.from
      BY <1>2 DEF Types, ProxyTypes
<1>4. Waiting' = Waiting /\ Coming' = Coming
      BY <1>3 DEF Waiting, Coming
<1>5. On' = On \ {l} /\ On' \subseteq Callers
  <2>1. l \notin Waiting
        BY <1>1 DEF PlacesInv
  <2>. QED BY <1>1, <1>2, <1>4, <2>1, RangeIs DEF Types, ProxyTypes, On, Waiting, Coming, Joined
<1>. SUFFICES ASSUME NEW c \in Callers, c \in On, c # l PROVE StreamOf(c, HasRead(c))'
     BY <1>5 DEF StreamInv
<1>6. InHand(c) = 0 /\ InHand(c)' = 0
      BY <1>3 DEF InHand
<1>7. HasRead(c)' = HasRead(c)
      BY <1>1, <1>2, <1>4, <1>6, ReadsNothing
<1>8. up'[c] = up[c]
      OBVIOUS
<1>. QED BY <1>7, <1>8, StreamStays

\* ... or does something else.
LEMMA IdleStreams ==
  ASSUME Types, Types', LooksAt, PlacesInv, StreamInv, Stays, UNCHANGED <<call, asked, up, served>>,
         proxy.pc \notin {"len", "body", "address"}, proxy'.pc \notin {"len", "body"}
  PROVE  StreamInv'
<1>1. Waiting' = Waiting /\ Coming' = Coming /\ Joined' = Joined /\ Coming = {}
      BY ComingIs DEF Stays, Waiting, Coming, Joined
<1>. SUFFICES ASSUME NEW c \in Callers, c \in On PROVE StreamOf(c, HasRead(c))'
  <2>1. On' = On /\ On' \subseteq Callers
        BY <1>1, RangeIs DEF Types, ProxyTypes, On, Waiting, Coming, Joined
  <2>. QED BY <2>1 DEF StreamInv
<1>2. InHand(c) = 0 /\ InHand(c)' = 0
      BY DEF InHand
<1>3. HasRead(c)' = HasRead(c)
      BY <1>1, <1>2, ReadsNothing
<1>. QED BY <1>3, StreamStays

\* The address is read from the beginning ...
LEMMA AcceptStreams ==
  ASSUME Types, Types', LooksAt, PlacesInv, StreamInv, Accept
  PROVE  StreamInv'
<1>. DEFINE h == Head(backlog)
<1>1. /\ proxy.pc = "accept" /\ backlog # <<>> /\ backlog' = Tail(backlog) /\ UNCHANGED <<call, asked, up, served>>
      /\ \/ proxy' = proxy
         \/ proxy' = [proxy EXCEPT !.pc = "address", !.from = <<h>>, !.got = <<>>]
      BY DEF Accept, callVars, At, Types, ProxyTypes
<1>2. h \in Waiting /\ Waiting' = Waiting \ {h} /\ h \in Callers
      BY <1>1, ListsAre, RangeIs DEF Types, ProxyTypes, PlacesInv, Waiting
<1>3. Coming = {} /\ Range(<<h>>) = {h}
      BY <1>1, <1>2, ComingIs, OneIs
<1>. HIDE DEF h
<1>4. /\ Joined' = Joined /\ proxy'.pc \notin {"len", "body"}
      /\ Coming' = {} \/ (Coming' = {h} /\ Len(proxy'.got) = 0)
  <2>1. CASE proxy' = proxy
        BY <1>1, <1>3, <2>1 DEF Joined, Coming
  <2>2. CASE proxy' = [proxy EXCEPT !.pc = "address", !.from = <<h>>, !.got = <<>>]
    <3>1. proxy'.links = proxy.links /\ proxy'.pc = "address" /\ proxy'.from = <<h>> /\ proxy'.got = <<>>
          BY <2>2 DEF Types, ProxyTypes
    <3>. QED BY <1>3, <3>1, EmptyIs DEF Joined, Coming
  <2>. QED BY <1>1, <2>1, <2>2
<1>. SUFFICES ASSUME NEW c \in Callers, c \in On, c \in On' PROVE StreamOf(c, HasRead(c))'
  <2>1. On' \subseteq On /\ On' \subseteq Callers
        BY <1>2, <1>3, <1>4, RangeIs DEF Types, ProxyTypes, On, Waiting, Coming, Joined
  <2>. QED BY <2>1 DEF StreamInv
<1>5. InHand(c) = 0 /\ InHand(c)' = 0
      BY <1>1, <1>4 DEF InHand
<1>6. HasRead(c)' = HasRead(c)
  <2>1. AddrLen(c) \in Nat
        BY AddressIs
  <2>2. CASE c \in Joined
        BY <1>1, <1>4, <1>5, <2>2 DEF HasRead
  <2>3. CASE c \notin Joined
        BY <1>1, <1>3, <1>4, <2>1, <2>3 DEF HasRead
  <2>. QED BY <2>2, <2>3
<1>. QED BY <1>1, <1>6, StreamStays

\* ... to its zero, which is the last unit before the messages.
LEMMA AddressStreams ==
  ASSUME Types, Types', LooksAt, PlacesInv, StreamInv, ReadAddress
  PROVE  StreamInv'
<1>1. PICK n \in Callers : n = New /\ Coming = {n}
      BY ComingIs DEF ReadAddress
<1>2. /\ proxy.pc = "address" /\ backlog' = backlog /\ UNCHANGED <<call, asked, served>>
      /\ \/ /\ proxy' = [proxy EXCEPT !.pc = "accept", !.links = <<n>> \o @, !.from = <<>>]
            /\ \/ up[n] # <<>> /\ up' = [up EXCEPT ![n] = Tail(@)] /\ Head(up[n])[3] = 0
               \/ call[n] = "gone" /\ up[n] = <<>> /\ up' = up
         \/ proxy' = [proxy EXCEPT !.pc = "accept", !.from = <<>>] /\ (up' = up \/ up' = [up EXCEPT ![n] = Tail(@)])
         \/ /\ proxy' = [proxy EXCEPT !.got = Append(@, Head(up[n]))]
            /\ up[n] # <<>> /\ up' = [up EXCEPT ![n] = Tail(@)]
  <2>1. proxy.pc = "address" /\ backlog' = backlog /\ UNCHANGED <<call, asked, served>>
        BY DEF ReadAddress, callVars
  <2>2. Join => proxy' = [proxy EXCEPT !.pc = "accept", !.links = <<n>> \o @, !.from = <<>>]
        BY <1>1 DEF Join, At, Types, ProxyTypes
  <2>3. Refuse => proxy' = [proxy EXCEPT !.pc = "accept", !.from = <<>>]
        BY DEF Refuse, At, Types, ProxyTypes
  <2>4. CASE /\ up[n] # <<>> /\ up' = [up EXCEPT ![n] = Tail(@)]
             /\ \/ Head(up[n])[3] = 0 /\ (Join \/ Refuse)
                \/ Refuse
                \/ proxy' = [proxy EXCEPT !.got = Append(@, Head(up[n]))]
        BY <2>1, <2>2, <2>3, <2>4
  <2>5. CASE Ended(n) /\ up' = up /\ (Join \/ Refuse)
        BY <2>1, <2>2, <2>3, <2>5 DEF Ended
  <2>6. \/ /\ up[n] # <<>> /\ up' = [up EXCEPT ![n] = Tail(@)]
           /\ \/ Head(up[n])[3] = 0 /\ (Join \/ Refuse)
              \/ Refuse
              \/ proxy' = [proxy EXCEPT !.got = Append(@, Head(up[n]))]
        \/ Ended(n) /\ up' = up /\ (Join \/ Refuse)
        BY <1>1 DEF ReadAddress
  <2>. QED BY <2>4, <2>5, <2>6
<1>3. /\ proxy'.pc \in {"accept", "address"} /\ Waiting' = Waiting
      /\ \/ Joined' = Joined \cup {n} /\ Coming' = {}
         \/ Joined' = Joined /\ Coming' = {}
         \/ Joined' = Joined /\ Coming' = {n}
  <2>1. n \notin Joined /\ n \in Callers
        BY <1>1 DEF PlacesInv
  <2>2. proxy.links \in Seq(Callers) /\ IsInjective(proxy.links)
        BY DEF Types, ProxyTypes, PlacesInv
  <2>3. Range(<<n>> \o proxy.links) = Joined \cup {n}
        BY <2>1, <2>2, ListsAre DEF Joined
  <2>4. CASE proxy' = [proxy EXCEPT !.pc = "accept", !.links = <<n>> \o @, !.from = <<>>]
    <3>1. proxy'.pc = "accept" /\ proxy'.links = <<n>> \o proxy.links /\ proxy'.from = <<>>
          BY <2>4 DEF Types, ProxyTypes
    <3>. QED BY <1>2, <2>3, <3>1, EmptyIs DEF Joined, Coming, Waiting
  <2>5. CASE proxy' = [proxy EXCEPT !.pc = "accept", !.from = <<>>]
    <3>1. proxy'.pc = "accept" /\ proxy'.links = proxy.links /\ proxy'.from = <<>>
          BY <2>5 DEF Types, ProxyTypes
    <3>. QED BY <1>2, <3>1, EmptyIs DEF Joined, Coming, Waiting
  <2>6. CASE proxy' = [proxy EXCEPT !.got = Append(@, Head(up[n]))]
    <3>1. proxy'.pc = "address" /\ proxy'.links = proxy.links /\ proxy'.from = proxy.from
          BY <1>2, <2>6 DEF Types, ProxyTypes
    <3>. QED BY <1>1, <1>2, <3>1 DEF Joined, Coming, Waiting
  <2>. QED BY <1>2, <2>4, <2>5, <2>6
<1>4. n \notin Joined /\ n \notin Waiting /\ served[n] = <<>> /\ AddrLen(n) \in Nat
      BY <1>1, AddressIs DEF PlacesInv
<1>. SUFFICES ASSUME NEW c \in Callers, c \in On, c \in On' PROVE StreamOf(c, HasRead(c))'
  <2>1. On' \subseteq On /\ On' \subseteq Callers
        BY <1>1, <1>3, RangeIs DEF Types, ProxyTypes, On, Waiting, Coming, Joined
  <2>. QED BY <2>1 DEF StreamInv
<1>5. InHand(c) = 0 /\ InHand(c)' = 0
      BY <1>2, <1>3 DEF InHand
<1>6. CASE c # n
  <2>1. c \notin Coming /\ c \notin Coming' /\ (c \in Joined' <=> c \in Joined)
        BY <1>1, <1>3, <1>6
  <2>2. HasRead(c)' = HasRead(c)
        BY <1>2, <1>5, <2>1, ReadsNothing
  <2>3. up'[c] = up[c]
        BY <1>2, <1>6 DEF Types, StreamTypes
  <2>. QED BY <1>2, <2>2, <2>3, StreamStays
<1>7. CASE c = n
  <2>1. HasRead(c) = 4 - AddrLen(n) + Len(proxy.got) /\ Len(proxy.got) \in Nat
        BY <1>1, <1>4, <1>7, LenProperties DEF HasRead, Types, ProxyTypes
  <2>2. CASE up[n] # <<>> /\ up' = [up EXCEPT ![n] = Tail(@)]
    <3>1. /\ 1 <= Len(up[n]) /\ Head(up[n]) = up[n][1] /\ Head(up[n]) \in Unit
          /\ up'[n] \in Seq(Unit) /\ Len(up'[n]) = Len(up[n]) - 1
          /\ \A i \in 1 .. Len(up[n]) - 1 : up'[n][i] = up[n][i + 1]
          BY <2>2, OneUnitIs
    <3>2. HasRead(c)' = HasRead(c) + 1
      <4>1. CASE proxy' = [proxy EXCEPT !.got = Append(@, Head(up[n]))]
        <5>1. Len(proxy'.got) = Len(proxy.got) + 1
          <6>1. \A s \in Seq(Unit) : \A x \in Unit : Len(Append(s, x)) = Len(s) + 1
                BY AppendIs
          <6>2. proxy'.got = Append(proxy.got, Head(up[n])) /\ proxy.got \in Seq(Unit)
                BY <4>1 DEF Types, ProxyTypes
          <6>. QED BY <3>1, <6>1, <6>2
        <5>2. Joined' = Joined /\ Coming' = Coming
              BY <4>1 DEF Types, ProxyTypes, Joined, Coming
        <5>3. HasRead(c)' = 4 - AddrLen(n) + Len(proxy'.got)
              BY <1>1, <1>4, <1>7, <5>2 DEF HasRead
        <5>. QED BY <1>4, <2>1, <5>1, <5>3
      <4>2. CASE /\ proxy' = [proxy EXCEPT !.pc = "accept", !.links = <<n>> \o @, !.from = <<>>]
                 /\ Head(up[n])[3] = 0
        <5>1. PICK r \in Int : r = HasRead(c)
              BY HasReadType
        <5>2. Stands(n, up[n][1], r + 1)
          <6>1. 1 \in 1 .. Len(up[n])
                BY <3>1, LenProperties DEF Types, StreamTypes
          <6>. QED BY <1>7, <5>1, <6>1 DEF StreamInv, StreamOf
        <5>3. r + 1 = 4
              BY <3>1, <4>2, <5>2, StandsIs
        <5>4. c \in Joined' /\ served'[c] = <<>> /\ InHand(c)' = 0
          <6>1. c \in Coming' \/ c \in Joined'
                BY <1>3, <1>4, <1>7 DEF On
          <6>2. proxy'.from = <<>>
                BY <4>2 DEF Types, ProxyTypes
          <6>3. Coming' = {}
                BY <6>2, EmptyIs DEF Coming
          <6>. QED BY <1>2, <1>4, <1>5, <1>7, <6>1, <6>3
        <5>5. HasRead(c)' = 4 * 0 + 4 + 0
          <6>1. Len(served'[c]) = 0
                BY <5>4, EmptyIs
          <6>. QED BY <5>4, <6>1 DEF HasRead
        <5>. QED BY <5>1, <5>3, <5>5
      <4>3. CASE proxy' = [proxy EXCEPT !.pc = "accept", !.from = <<>>]
        <5>1. Joined' = Joined /\ proxy'.from = <<>>
              BY <4>3 DEF Types, ProxyTypes, Joined
        <5>2. c \notin On'
              BY <1>3, <1>4, <1>7, <5>1, EmptyIs DEF On, Coming
        <5>. QED BY <5>2
      <4>. QED BY <1>2, <2>2, <4>1, <4>2, <4>3
    <3>. QED BY <1>2, <1>7, <3>1, <3>2, StreamIsRead
  <2>3. CASE call[n] = "gone" /\ up[n] = <<>> /\ up' = up
    <3>1. Len(up'[c]) = 0 /\ call'[c] = "gone"
          BY <1>2, <1>7, <2>3, EmptyIs
    <3>. QED BY <3>1 DEF StreamOf
  <2>4. CASE proxy' = [proxy EXCEPT !.pc = "accept", !.from = <<>>]
    <3>1. Joined' = Joined /\ proxy'.from = <<>>
          BY <2>4 DEF Types, ProxyTypes, Joined
    <3>2. c \notin On'
          BY <1>3, <1>4, <1>7, <3>1, EmptyIs DEF On, Coming
    <3>. QED BY <3>2
  <2>. QED BY <1>2, <2>2, <2>3, <2>4
<1>. QED BY <1>6, <1>7

\* The length of a message is read in one part or two.
LEMMA LengthStreams ==
  ASSUME Types, Types', LooksAt, LooksAt', PlacesInv, StreamInv, FromCaller \/ FromCallerNot \/ SecondUnit
  PROVE  StreamInv'
<1>1. PICK l \in Callers : l = Link
      BY LinkIs DEF FromCaller, FromCallerNot, SecondUnit, LooksAt
<1>2. /\ proxy.at \in DOMAIN proxy.links /\ proxy.pc \in {"tcp", "len"} /\ backlog' = backlog
      /\ UNCHANGED <<call, asked, served>>
      BY DEF FromCaller, FromCallerNot, SecondUnit, LooksAt, callVars
<1>3. l \in Joined /\ up[l] \in Seq(Unit) /\ Len(served[l]) \in Nat
      BY <1>1, <1>2, LinkIs, LenProperties DEF Types, StreamTypes, ServerTypes, Messages
<1>4. CASE Drop
  <2>1. up' = up
    <3>1. CASE FromCallerNot
          BY <3>1 DEF FromCallerNot
    <3>2. CASE FromCaller
      <4>1. proxy'.pc = "udp"
            BY <1>2, <1>4, DropIs DEF Types, ProxyTypes
      <4>2. \A part : proxy' = [At(IF NeedsMore(part) THEN "len" ELSE "body") EXCEPT !.got = part] => proxy'.pc # "udp"
            BY DEF At, Types, ProxyTypes
      <4>. QED BY <3>2, <4>1, <4>2 DEF FromCaller
    <3>3. CASE SecondUnit
      <4>1. proxy'.pc = "udp"
            BY <1>2, <1>4, DropIs DEF Types, ProxyTypes
      <4>2. \A g : proxy' = [At("body") EXCEPT !.got = g] => proxy'.pc # "udp"
            BY DEF At, Types, ProxyTypes
      <4>. QED BY <3>3, <4>1, <4>2 DEF SecondUnit
    <3>. QED BY <3>1, <3>2, <3>3
  <2>. QED BY <1>1, <1>2, <1>4, <2>1, DropStreams
<1>5. CASE FromCallerNot /\ proxy' = NextLink
  <2>1. proxy'.pc = "udp" /\ Stays /\ up' = up /\ proxy.pc = "tcp"
        BY <1>2, <1>5 DEF NextLink, At, Stays, Types, ProxyTypes, FromCallerNot
  <2>. QED BY <1>2, <2>1, IdleStreams
<1>6. ASSUME NEW place \in {"len", "body"}, NEW g, proxy' = [At(place) EXCEPT !.got = g]
      PROVE  /\ Stays /\ Link' = l /\ Joined' = Joined
             /\ InHand(l)' = Len(g) /\ HasRead(l)' = 4 * Len(served[l]) + 4 + Len(g)
  <2>1. proxy'.pc = place /\ proxy'.got = g /\ proxy'.links = proxy.links /\ proxy'.from = proxy.from /\ proxy'.at = proxy.at
        BY <1>6 DEF At, Types, ProxyTypes
  <2>2. Link' = l /\ Joined' = Joined /\ Stays
        BY <1>1, <1>2, <2>1 DEF Link, Joined, Stays
  <2>3. InHand(l)' = Len(g)
        BY <2>1, <2>2 DEF InHand
  <2>. QED BY <1>2, <1>3, <2>2, <2>3 DEF HasRead
<1>7. ASSUME FromCaller,
             NEW part \in Found(up[Link], 2), up' = [up EXCEPT ![Link] = Left(@, part)],
             proxy' = [At(IF NeedsMore(part) THEN "len" ELSE "body") EXCEPT !.got = part]
      PROVE  StreamInv'
  <2>. DEFINE place == IF NeedsMore(part) THEN "len" ELSE "body"
  <2>1. place \in {"len", "body"}
        OBVIOUS
  <2>. HIDE DEF place
  <2>2. /\ Stays /\ Link' = l /\ Joined' = Joined
        /\ HasRead(l)' = 4 * Len(served[l]) + 4 + Len(part)
        BY <1>6, <1>7, <2>1 DEF place
  <2>3. proxy.pc = "tcp" /\ HasRead(l) = 4 * Len(served[l]) + 4 + 0
        BY <1>3, <1>7 DEF FromCaller, HasRead, InHand
  <2>4. part \in Found(up[l], 2) /\ up' = [up EXCEPT ![l] = Left(@, part)] /\ 2 \in Nat
        BY <1>1, <1>7
  <2>5. /\ Len(part) \in Nat /\ Len(part) <= Len(up[l])
        /\ up'[l] \in Seq(Unit) /\ Len(up'[l]) = Len(up[l]) - Len(part)
        /\ \A i \in 1 .. Len(up[l]) - Len(part) : up'[l][i] = up[l][i + Len(part)]
        /\ \A b \in Callers \ {l} : up'[b] = up[b]
        BY <2>4, PartIs
  <2>6. HasRead(l)' = HasRead(l) + Len(part)
        BY <1>3, <2>2, <2>3, <2>5
  <2>7. PICK k \in Nat : k = Len(part)
        BY <2>5
  <2>. QED BY <1>1, <1>2, <2>2, <2>3, <2>5, <2>6, <2>7, LinkStreams
<1>8. ASSUME SecondUnit, up[Link] # <<>>, up' = [up EXCEPT ![Link] = Tail(@)],
             proxy' = [At("body") EXCEPT !.got = Append(@, Head(up[Link]))]
      PROVE  StreamInv'
  <2>. DEFINE g == Append(proxy.got, Head(up[Link]))
  <2>1. proxy.pc = "len" /\ Len(proxy.got) = 1 /\ proxy' = [At("body") EXCEPT !.got = g]
        BY <1>8 DEF SecondUnit, LooksAt, At, Types, ProxyTypes
  <2>2. proxy'.got = g /\ proxy'.pc = "body"
        BY <2>1 DEF At, Types, ProxyTypes
  <2>3. Len(g) = 2
        BY <2>2 DEF LooksAt
  <2>. HIDE DEF g
  <2>4. /\ Stays /\ Link' = l /\ HasRead(l)' = 4 * Len(served[l]) + 4 + Len(g)
        BY <1>6, <2>1
  <2>5. InHand(l) = 1
        BY <1>1, <2>1 DEF InHand
  <2>6. HasRead(l) = 4 * Len(served[l]) + 4 + 1
        BY <1>3, <2>5 DEF HasRead
  <2>7. HasRead(l)' = HasRead(l) + 1
        BY <1>3, <2>3, <2>4, <2>6
  <2>8. up[l] # <<>> /\ up' = [up EXCEPT ![l] = Tail(@)]
        BY <1>1, <1>8
  <2>9. /\ 1 <= Len(up[l]) /\ up'[l] \in Seq(Unit) /\ Len(up'[l]) = Len(up[l]) - 1
        /\ \A i \in 1 .. Len(up[l]) - 1 : up'[l][i] = up[l][i + 1]
        /\ \A b \in Callers \ {l} : up'[b] = up[b]
        BY <2>8, OneUnitIs
  <2>. QED BY <1>1, <1>2, <2>1, <2>4, <2>7, <2>9, LinkStreams
<1>9. \/ Drop \/ (FromCallerNot /\ proxy' = NextLink)
      \/ FromCaller /\ \E part \in Found(up[Link], 2) :
           /\ proxy' = [At(IF NeedsMore(part) THEN "len" ELSE "body") EXCEPT !.got = part]
           /\ up' = [up EXCEPT ![Link] = Left(@, part)]
      \/ /\ SecondUnit /\ up[Link] # <<>> /\ up' = [up EXCEPT ![Link] = Tail(@)]
         /\ proxy' = [At("body") EXCEPT !.got = Append(@, Head(up[Link]))]
  <2>1. CASE FromCaller
        BY <2>1 DEF FromCaller
  <2>2. CASE FromCallerNot
        BY <2>2 DEF FromCallerNot, Leave
  <2>3. CASE SecondUnit
        BY <2>3 DEF SecondUnit
  <2>. QED BY <2>1, <2>2, <2>3
<1>. QED BY <1>4, <1>5, <1>7, <1>8, <1>9

\* The contents that are passed on are those of the caller's next message.
LEMMA ContentsAre ==
  ASSUME Types, LooksAt, PlacesInv, StreamInv, NEW l \in Callers, l = Link, Contents,
         NEW m \in Found(up[l], 2), Len(m) = 2
  PROVE  m = WholeOf("ask", Len(served[l]) + 1)
<1>1. proxy.pc = "body" /\ proxy.at \in DOMAIN proxy.links /\ Len(proxy.got) = 2 /\ l \in Joined
      BY LinkIs DEF Contents, LooksAt
<1>2. up[l] \in Seq(Unit) /\ Len(served[l]) \in Nat /\ Len(up[l]) \in Nat
      BY LenProperties DEF Types, StreamTypes, ServerTypes, Messages
<1>3. HasRead(l) = 4 * Len(served[l]) + 4 + 2
      BY <1>1 DEF HasRead, InHand
<1>4. PICK n \in Int : n = HasRead(l)
      BY HasReadType
<1>5. m \in Seq(Unit) /\ 2 <= Len(up[l]) /\ m[1] = up[l][1] /\ m[2] = up[l][2]
  <2>. DEFINE s == up[l]
  <2>1. s \in Seq(Unit) /\ m \in Found(s, 2) /\ 2 \in Nat
        BY <1>2
  <2>. HIDE DEF s
  <2>2. m \in Seq(Unit) /\ Len(m) <= Len(s) /\ \A i \in 1 .. Len(m) : m[i] = s[i]
        BY <2>1, FoundIs
  <2>. QED BY <2>2 DEF s
<1>6. PICK k \in Nat \ {0} : k = Len(served[l]) + 1
      BY <1>2
<1>7. Stands(l, m[1], n + 1) /\ Stands(l, m[2], n + 2)
  <2>1. \A i \in 1 .. Len(up[l]) : Stands(l, up[l][i], n + i)
        BY <1>1, <1>4 DEF StreamInv, StreamOf, On
  <2>2. 1 \in 1 .. Len(up[l]) /\ 2 \in 1 .. Len(up[l])
        BY <1>2, <1>5
  <2>. QED BY <1>5, <2>1, <2>2
<1>8. n + 1 = 4 * k + 3 /\ n + 2 = 4 * k + 4
      BY <1>2, <1>3, <1>4, <1>6
<1>9. m[1] = <<"ask", k, 3>> /\ m[2] = <<"ask", k, 4>>
      BY <1>7, <1>8, StandsIs
<1>10. m = WholeOf("ask", k)
      BY <1>5, <1>9, WholeIs
<1>. QED BY <1>6, <1>10

\* What the reading of the contents does.
LEMMA ContentsDoes ==
  ASSUME Types, LooksAt, PlacesInv, StreamInv, NEW l \in Callers, l = Link, Contents
  PROVE  /\ proxy.pc = "body" /\ proxy.at \in DOMAIN proxy.links /\ backlog' = backlog /\ down' = down
         /\ UNCHANGED <<call, asked, heard>>
         /\ \/ Drop /\ UNCHANGED <<server, served>> /\ \A b \in Callers \ {l} : up'[b] = up[b]
            \/ \E k \in Nat \ {0} :
                 /\ k = Len(served[l]) + 1
                 /\ served' = [served EXCEPT ![l] = Append(@, WholeOf("ask", k))]
                 /\ server' = [server EXCEPT ![l] = Append(@, WholeOf("ask", k))] \/ server' = server
                 /\ 2 <= Len(up[l]) /\ up'[l] \in Seq(Unit) /\ Len(up'[l]) = Len(up[l]) - 2
                 /\ \A i \in 1 .. Len(up[l]) - 2 : up'[l][i] = up[l][i + 2]
                 /\ \A b \in Callers \ {l} : up'[b] = up[b]
                 /\ Drop \/ proxy' = NextLink \/ proxy' = [At("tcp") EXCEPT !.got = <<>>]
                 /\ Drop \/ answers' = answers
<1>1. /\ proxy.pc = "body" /\ proxy.at \in DOMAIN proxy.links /\ backlog' = backlog /\ down' = down
      /\ UNCHANGED <<call, asked, heard>> /\ Len(proxy.got) = 2
      BY DEF Contents, LooksAt, callVars
<1>2. LengthOf(proxy.got) = 2
      BY <1>1 DEF LengthOf
<1>3. \/ Ended(l) /\ Drop /\ UNCHANGED <<up, server, served>>
      \/ \E m \in Found(up[l], 2) :
           /\ up' = [up EXCEPT ![l] = Left(@, m)]
           /\ PassOn(2, m) \/ (Drop /\ UNCHANGED <<server, served>>)
      BY <1>2 DEF Contents
<1>4. ASSUME NEW m \in Found(up[l], 2), up' = [up EXCEPT ![l] = Left(@, m)]
      PROVE  /\ \A b \in Callers \ {l} : up'[b] = up[b]
             /\ Len(m) <= Len(up[l]) /\ up'[l] \in Seq(Unit) /\ Len(up'[l]) = Len(up[l]) - Len(m)
             /\ \A i \in 1 .. Len(up[l]) - Len(m) : up'[l][i] = up[l][i + Len(m)]
  <2>1. 2 \in Nat
        OBVIOUS
  <2>. QED BY <1>4, <2>1, PartIs
<1>5. ASSUME NEW m \in Found(up[l], 2), up' = [up EXCEPT ![l] = Left(@, m)], PassOn(2, m)
      PROVE  \E k \in Nat \ {0} :
                 /\ k = Len(served[l]) + 1
                 /\ served' = [served EXCEPT ![l] = Append(@, WholeOf("ask", k))]
                 /\ server' = [server EXCEPT ![l] = Append(@, WholeOf("ask", k))] \/ server' = server
                 /\ 2 <= Len(up[l]) /\ up'[l] \in Seq(Unit) /\ Len(up'[l]) = Len(up[l]) - 2
                 /\ \A i \in 1 .. Len(up[l]) - 2 : up'[l][i] = up[l][i + 2]
                 /\ \A b \in Callers \ {l} : up'[b] = up[b]
                 /\ Drop \/ proxy' = NextLink \/ proxy' = [At("tcp") EXCEPT !.got = <<>>]
                 /\ Drop \/ answers' = answers
  <2>1. Len(m) = 2
        BY <1>5 DEF PassOn
  <2>2. PICK k \in Nat \ {0} : k = Len(served[l]) + 1
        BY LenProperties DEF Types, ServerTypes, Messages
  <2>3. m = WholeOf("ask", k)
        BY <2>1, <2>2, ContentsAre
  <2>4. /\ served' = [served EXCEPT ![l] = Append(@, m)]
        /\ server' = [server EXCEPT ![l] = Append(@, m)] \/ server' = server
        /\ Drop \/ proxy' = NextLink \/ proxy' = [At("tcp") EXCEPT !.got = <<>>]
        /\ Drop \/ answers' = answers
        BY <1>5 DEF PassOn, Leave
  <2>5. /\ \A b \in Callers \ {l} : up'[b] = up[b]
        /\ 2 <= Len(up[l]) /\ up'[l] \in Seq(Unit) /\ Len(up'[l]) = Len(up[l]) - 2
        /\ \A i \in 1 .. Len(up[l]) - 2 : up'[l][i] = up[l][i + 2]
        BY <1>4, <1>5, <2>1
  <2>. QED BY <2>2, <2>3, <2>4, <2>5
<1>6. CASE Ended(l) /\ Drop /\ UNCHANGED <<up, server, served>>
      BY <1>1, <1>6
<1>7. ASSUME NEW m \in Found(up[l], 2), up' = [up EXCEPT ![l] = Left(@, m)], Drop, UNCHANGED <<server, served>>
      PROVE  Drop /\ UNCHANGED <<server, served>> /\ \A b \in Callers \ {l} : up'[b] = up[b]
      BY <1>4, <1>7
<1>8. \/ Drop /\ UNCHANGED <<server, served>> /\ \A b \in Callers \ {l} : up'[b] = up[b]
      \/ \E m \in Found(up[l], 2) : up' = [up EXCEPT ![l] = Left(@, m)] /\ PassOn(2, m)
      BY <1>3, <1>6, <1>7
<1>. QED BY <1>1, <1>5, <1>8

\* The contents are read at once.
LEMMA ContentsStreams ==
  ASSUME Types, Types', LooksAt, PlacesInv, StreamInv, Contents
  PROVE  StreamInv'
<1>1. PICK l \in Callers : l = Link
      BY LinkIs DEF Contents, LooksAt
<1>2. proxy.pc = "body" /\ proxy.at \in DOMAIN proxy.links /\ backlog' = backlog /\ UNCHANGED <<call, asked>>
      BY <1>1, ContentsDoes
<1>3. CASE Drop
  <2>1. \A b \in Callers \ {l} : up'[b] = up[b]
        BY <1>1, ContentsDoes
  <2>2. \A b \in Callers \ {l} : served'[b] = served[b]
        BY <1>1, CallsStep, NextIs
  <2>. QED BY <1>1, <1>2, <1>3, <2>1, <2>2, DropStreams
<1>4. CASE ~Drop
  <2>1. PICK k \in Nat \ {0} :
                 /\ k = Len(served[l]) + 1
                 /\ served' = [served EXCEPT ![l] = Append(@, WholeOf("ask", k))]
                 /\ 2 <= Len(up[l]) /\ up'[l] \in Seq(Unit) /\ Len(up'[l]) = Len(up[l]) - 2
                 /\ \A i \in 1 .. Len(up[l]) - 2 : up'[l][i] = up[l][i + 2]
                 /\ \A b \in Callers \ {l} : up'[b] = up[b]
                 /\ proxy' = NextLink \/ proxy' = [At("tcp") EXCEPT !.got = <<>>]
        BY <1>1, <1>4, ContentsDoes
  <2>2. proxy'.links = proxy.links /\ proxy'.from = proxy.from /\ proxy'.pc \in {"udp", "tcp"}
        BY <2>1 DEF NextLink, At, Types, ProxyTypes
  <2>3. Stays /\ Joined' = Joined /\ l \in Joined /\ InHand(l)' = 0 /\ InHand(l) = 2
        BY <1>1, <1>2, <2>2, LinkIs DEF Stays, Joined, InHand, LooksAt
  <2>4. Len(served'[l]) = Len(served[l]) + 1 /\ Len(served[l]) \in Nat
    <3>1. WholeOf("ask", k) \in Seq(Unit) /\ served[l] \in Seq(Seq(Unit))
          BY WholeIs DEF Types, ServerTypes, Messages
    <3>2. served'[l] = Append(served[l], WholeOf("ask", k))
          BY <2>1 DEF Types, ServerTypes
    <3>3. \A x \in Seq(Unit), s \in Seq(Seq(Unit)) : Len(Append(s, x)) = Len(s) + 1 /\ Len(s) \in Nat
          BY AppendIs, LenProperties
    <3>. QED BY <3>1, <3>2, <3>3
  <2>5. HasRead(l) = 4 * Len(served[l]) + 4 + 2 /\ HasRead(l)' = 4 * Len(served'[l]) + 4 + 0
        BY <2>3 DEF HasRead
  <2>6. HasRead(l)' = HasRead(l) + 2
    <3>. DEFINE k1 == Len(served[l])
    <3>1. \A j \in Nat : 4 * (j + 1) + 4 + 0 = (4 * j + 4 + 2) + 2
          OBVIOUS
    <3>. QED BY <2>4, <2>5, <3>1
  <2>7. \A b \in Callers \ {l} : up'[b] = up[b] /\ served'[b] = served[b]
        BY <2>1 DEF Types, ServerTypes
  <2>8. 2 \in Nat
        OBVIOUS
  <2>. QED BY <1>1, <1>2, <2>1, <2>2, <2>3, <2>6, <2>7, <2>8, LinkStreams
<1>. QED BY <1>3, <1>4

\* All steps keep the units of a stream in order.
LEMMA StreamNext ==
  Types /\ Types' /\ LooksAt /\ LooksAt' /\ PlacesInv /\ StreamInv /\ UnsentInv /\ [TunnelNext]_tunnelVars => StreamInv'
<1>. SUFFICES ASSUME Types, Types', LooksAt, LooksAt', PlacesInv, StreamInv, UnsentInv, [TunnelNext]_tunnelVars
              PROVE  StreamInv'
     OBVIOUS
<1>1. CASE UNCHANGED tunnelVars
      BY <1>1 DEF tunnelVars, callVars, netVars, StreamInv, StreamOf, HasRead, InHand, On, Waiting, Coming, Joined, Link
<1>2. CASE SelectReturns \/ AcceptDone \/ AcceptFails \/ FromServer \/ FromServerDone \/ ServerFails \/ RoundDone
  <2>1. proxy.pc \in {"select", "accept", "udp"} /\ UNCHANGED <<backlog, call, asked, up, served>>
    <3>1. CASE SelectReturns \/ AcceptDone \/ AcceptFails
          BY <3>1 DEF SelectReturns, AcceptDone, AcceptFails, callVars, netVars
    <3>2. CASE FromServer
          BY <3>2 DEF FromServer, callVars
    <3>3. CASE FromServerDone \/ ServerFails \/ RoundDone
          BY <3>3 DEF FromServerDone, ServerFails, RoundDone, callVars, netVars
    <3>. QED BY <1>2, <3>1, <3>2, <3>3
  <2>2. /\ proxy'.links = proxy.links /\ proxy'.from = proxy.from
        /\ proxy'.pc \in {"accept", "dead", "udp", "tcp", "select"}
    <3>1. \/ \E r : proxy' = [At("accept") EXCEPT !.ready = r]
          \/ proxy' = proxy \/ proxy' = At("dead") \/ proxy' = At("tcp") \/ proxy' = [At("udp") EXCEPT !.at = 1]
          \/ proxy' = [At("tcp") EXCEPT !.fail = TRUE] \/ proxy' = [At("select") EXCEPT !.ready = {}]
      <4>1. CASE SelectReturns
            BY <4>1 DEF SelectReturns
      <4>2. CASE AcceptDone \/ AcceptFails
            BY <4>2 DEF AcceptDone, AcceptFails
      <4>3. CASE FromServer
            BY <4>3 DEF FromServer
      <4>4. CASE FromServerDone \/ ServerFails \/ RoundDone
            BY <4>4 DEF FromServerDone, ServerFails, RoundDone
      <4>. QED BY <1>2, <4>1, <4>2, <4>3, <4>4
    <3>. QED BY <2>1, <3>1 DEF At, Types, ProxyTypes
  <2>3. Stays
        BY <2>1, <2>2 DEF Stays
  <2>. QED BY <2>1, <2>2, <2>3, IdleStreams
<1>3. CASE Accept
      BY <1>3, AcceptStreams
<1>4. CASE ReadAddress
      BY <1>4, AddressStreams
<1>5. CASE FromCaller \/ FromCallerNot \/ SecondUnit
      BY <1>5, LengthStreams
<1>6. CASE Contents
      BY <1>6, ContentsStreams
<1>7. ASSUME NEW c \in Callers, Serve(c) \/ Connect(c) \/ Ask(c) \/ HangUp(c) \/ Listen(c) PROVE StreamInv'
      BY <1>7, CallersStreams
<1>. QED BY <1>1, <1>2, <1>3, <1>4, <1>5, <1>6, <1>7, NextIs

\* Only a caller that has come sends, and only one that the proxy has is read.
LEMMA UnsentNext == Types /\ LooksAt /\ PlacesInv /\ UnsentInv /\ [TunnelNext]_tunnelVars => UnsentInv'
<1>. SUFFICES ASSUME Types, LooksAt, PlacesInv, UnsentInv, [TunnelNext]_tunnelVars, NEW c \in Callers, call'[c] = "no"
              PROVE  up'[c] = <<>>
     BY DEF UnsentInv
<1>1. call[c] = "no" /\ up[c] = <<>>
      BY CallsStep DEF UnsentInv
<1>2. c \notin Coming /\ c \notin Joined
      BY <1>1 DEF PlacesInv
<1>. SUFFICES up'[c] = up[c]
     BY <1>1
<1>3. ASSUME NEW b \in Callers, NEW s, b # c, up' = [up EXCEPT ![b] = s] PROVE up'[c] = up[c]
      BY <1>3 DEF Types, StreamTypes
<1>4. CASE FromCaller \/ SecondUnit \/ Contents
  <2>1. Link \in Callers /\ Link # c
        BY <1>2, <1>4, LinkIs DEF FromCaller, SecondUnit, Contents, LooksAt
  <2>2. up' = up \/ \E s : up' = [up EXCEPT ![Link] = s]
        BY <1>4 DEF FromCaller, SecondUnit, Contents
  <2>. QED BY <1>3, <2>1, <2>2
<1>5. CASE ReadAddress
  <2>1. New \in Callers /\ New # c
        BY <1>2, <1>5, ComingIs DEF ReadAddress
  <2>2. up' = up \/ \E s : up' = [up EXCEPT ![New] = s]
        BY <1>5 DEF ReadAddress
  <2>. QED BY <1>3, <2>1, <2>2
<1>6. ASSUME NEW b \in Callers, Connect(b) \/ Ask(b) PROVE up'[c] = up[c]
  <2>1. b # c
    <3>1. CASE Connect(b)
          BY <1>1, <3>1 DEF Connect, Types, CallTypes
    <3>2. CASE Ask(b)
          BY <1>1, <3>2 DEF Ask
    <3>. QED BY <1>6, <3>1, <3>2
  <2>2. up' = up \/ \E s : up' = [up EXCEPT ![b] = s]
        BY <1>6 DEF Connect, Ask
  <2>. QED BY <1>3, <2>1, <2>2
<1>7. CASE \E b \in Callers : Serve(b) \/ HangUp(b) \/ Listen(b)
      BY <1>7 DEF Serve, HangUp, Listen, netVars
<1>8. CASE \/ UNCHANGED tunnelVars \/ SelectReturns \/ Accept \/ AcceptDone \/ FromServer \/ FromServerDone
           \/ FromCallerNot \/ RoundDone \/ AcceptFails \/ ServerFails
      BY <1>8 DEF tunnelVars, netVars, SelectReturns, Accept, AcceptDone, FromServer, FromServerDone,
         FromCallerNot, RoundDone, AcceptFails, ServerFails
<1>. QED BY <1>4, <1>5, <1>6, <1>7, <1>8, NextIs

\* A server gets what the proxy passes on, each message after the one before.
LEMMA ServedNext ==
  Types /\ LooksAt /\ PlacesInv /\ StreamInv /\ ServedInv /\ [TunnelNext]_tunnelVars => ServedInv'
<1>. SUFFICES ASSUME Types, LooksAt, PlacesInv, StreamInv, ServedInv, [TunnelNext]_tunnelVars PROVE ServedInv'
     OBVIOUS
<1>1. CASE served' = served
      BY <1>1 DEF ServedInv
<1>2. CASE Contents
  <2>1. PICK l \in Callers : l = Link
        BY <1>2, LinkIs DEF Contents, LooksAt
  <2>2. ASSUME NEW k \in Nat \ {0}, k = Len(served[l]) + 1, served' = [served EXCEPT ![l] = Append(@, WholeOf("ask", k))]
        PROVE  ServedInv'
    <3>1. WholeOf("ask", k) \in Seq(Unit) /\ served[l] \in Seq(Seq(Unit))
          BY WholeIs DEF Types, ServerTypes, Messages
    <3>2. /\ DOMAIN Append(served[l], WholeOf("ask", k)) = 1 .. k
          /\ \A i \in 1 .. k : Append(served[l], WholeOf("ask", k))[i] = IF i < k THEN served[l][i] ELSE WholeOf("ask", k)
      <4>1. \A x \in Seq(Unit), s \in Seq(Seq(Unit)) :
              /\ Len(s) \in Nat /\ DOMAIN Append(s, x) = 1 .. Len(s) + 1
              /\ \A i \in 1 .. Len(s) + 1 : Append(s, x)[i] = IF i <= Len(s) THEN s[i] ELSE x
        <5> SUFFICES ASSUME NEW x \in Seq(Unit), NEW s \in Seq(Seq(Unit))
                     PROVE  /\ Len(s) \in Nat /\ DOMAIN Append(s, x) = 1 .. Len(s) + 1
                            /\ \A i \in 1 .. Len(s) + 1 : Append(s, x)[i] = IF i <= Len(s) THEN s[i] ELSE x
            OBVIOUS
        <5>. QED BY AppendIs, LenProperties
      <4>. DEFINE w == WholeOf("ask", k)
      <4>. HIDE DEF w
      <4>2. w \in Seq(Unit)
            BY <3>1 DEF w
      <4>3. /\ Len(served[l]) \in Nat /\ DOMAIN Append(served[l], w) = 1 .. Len(served[l]) + 1
            /\ \A i \in 1 .. Len(served[l]) + 1 : Append(served[l], w)[i] = IF i <= Len(served[l]) THEN served[l][i] ELSE w
            BY <3>1, <4>1, <4>2
      <4>4. \A i \in 1 .. k : i < k <=> i <= Len(served[l])
            BY <2>2, <4>3
      <4>. QED BY <2>2, <4>3, <4>4 DEF w
    <3>3. DOMAIN served[l] = 1 .. k - 1
          BY <2>2, <3>1, LenProperties
    <3>4. ASSUME NEW c \in Callers, NEW i \in DOMAIN served'[c] PROVE served'[c][i] = WholeOf("ask", i)
      <4>1. CASE c # l
        <5>1. served'[c] = served[c]
              BY <2>2, <4>1 DEF Types, ServerTypes
        <5>. QED BY <3>4, <5>1 DEF ServedInv
      <4>2. CASE c = l
        <5>1. served'[c] = Append(served[l], WholeOf("ask", k))
              BY <2>2, <4>2 DEF Types, ServerTypes
        <5>2. i \in 1 .. k
              BY <3>2, <3>4, <5>1
        <5>3. CASE i < k
          <6>1. i \in DOMAIN served[l]
                BY <3>3, <5>2, <5>3
          <6>. QED BY <3>2, <5>1, <5>2, <5>3, <6>1 DEF ServedInv
        <5>4. CASE ~(i < k)
          <6>1. i = k
                BY <5>2, <5>4
          <6>. QED BY <3>2, <5>1, <5>2, <6>1
        <5>. QED BY <5>3, <5>4
      <4>. QED BY <4>1, <4>2
    <3>. QED BY <3>4 DEF ServedInv
  <2>. QED BY <1>1, <1>2, <2>1, <2>2, ContentsDoes
<1>3. CASE \/ UNCHANGED tunnelVars \/ SelectReturns \/ Accept \/ AcceptDone \/ ReadAddress \/ FromServer
           \/ FromServerDone \/ FromCaller \/ FromCallerNot \/ SecondUnit \/ RoundDone \/ AcceptFails \/ ServerFails
  <2>1. served' = served
        BY <1>3 DEF tunnelVars, SelectReturns, Accept, AcceptDone, ReadAddress, FromServer, FromServerDone, FromCaller,
           FromCallerNot, SecondUnit, RoundDone, AcceptFails, ServerFails
  <2>. QED BY <1>1, <2>1
<1>4. CASE \E b \in Callers : Serve(b) \/ Connect(b) \/ Ask(b) \/ HangUp(b) \/ Listen(b)
  <2>1. served' = served
        BY <1>4 DEF Serve, Connect, Ask, HangUp, Listen
  <2>. QED BY <1>1, <2>1
<1>. QED BY <1>2, <1>3, <1>4, NextIs

-----------------------------------------------------------------------------
(* The answers, by their messages' numbers.                                *)

Number(m) == m[1][2]
Numbers(s) == [i \in 1 .. Len(s) |-> Number(s[i])]
Rising(s) == \A i, j \in 1 .. Len(s) : i < j => s[i] < s[j]
Below(S, T) == \A m \in S, n \in T : m < n

\* Those that were heard, that are on the way to the caller, that wait for the
\* proxy, and that are on the way to the server, of n messages.
Ordered(heardOf, coming, waiting, going, n) ==
  /\ Rising(heardOf) /\ Rising(waiting) /\ Rising(going)
  /\ Below(Range(heardOf), coming \cup Range(waiting) \cup Range(going))
  /\ Below(coming, Range(waiting) \cup Range(going)) /\ Below(Range(waiting), Range(going))
  /\ Range(heardOf) \cup coming \cup Range(waiting) \cup Range(going) \subseteq 1 .. n

\* A number larger than all may be added, and the smallest be taken.
LEMMA RisingIs ==
  ASSUME NEW s \in Seq(Nat), Rising(s)
  PROVE  /\ \A n \in Nat : /\ Append(s, n) \in Seq(Nat) /\ Range(Append(s, n)) = Range(s) \cup {n}
                           /\ (\A x \in Range(s) : x < n) => Rising(Append(s, n))
         /\ s # <<>> => /\ Tail(s) \in Seq(Nat) /\ Rising(Tail(s)) /\ Range(Tail(s)) \subseteq Range(s)
                        /\ Head(s) \in Range(s) /\ Head(s) \in Nat /\ \A x \in Range(Tail(s)) : Head(s) < x
         /\ <<>> \in Seq(Nat) /\ Rising(<<>>) /\ Range(<<>>) = {} /\ Range(s) \subseteq Nat
<1>1. ASSUME NEW n \in Nat
      PROVE  /\ Append(s, n) \in Seq(Nat) /\ Range(Append(s, n)) = Range(s) \cup {n}
             /\ (\A x \in Range(s) : x < n) => Rising(Append(s, n))
  <2>1. /\ Append(s, n) \in Seq(Nat) /\ Range(Append(s, n)) = Range(s) \cup {n} /\ Len(Append(s, n)) = Len(s) + 1
        /\ \A i \in 1 .. Len(s) + 1 : Append(s, n)[i] = IF i <= Len(s) THEN s[i] ELSE n
        BY AppendIs
  <2>2. Len(s) \in Nat /\ \A i \in 1 .. Len(s) : s[i] \in Range(s)
        BY RangeIs
  <2>3. ASSUME \A x \in Range(s) : x < n, NEW i \in 1 .. Len(s) + 1, NEW j \in 1 .. Len(s) + 1, i < j
        PROVE  Append(s, n)[i] < Append(s, n)[j]
    <3>1. i \in 1 .. Len(s) /\ Append(s, n)[i] = s[i]
          BY <2>1, <2>2, <2>3
    <3>2. CASE j <= Len(s)
      <4>1. j \in 1 .. Len(s) /\ Append(s, n)[j] = s[j]
            BY <2>1, <2>2, <3>2
      <4>. QED BY <2>3, <3>1, <4>1 DEF Rising
    <3>3. CASE ~(j <= Len(s))
          BY <2>1, <2>2, <2>3, <3>1, <3>3
    <3>. QED BY <3>2, <3>3
  <2>. QED BY <2>1, <2>3 DEF Rising
<1>2. ASSUME s # <<>>
      PROVE  /\ Tail(s) \in Seq(Nat) /\ Rising(Tail(s)) /\ Range(Tail(s)) \subseteq Range(s)
             /\ Head(s) \in Range(s) /\ Head(s) \in Nat /\ \A x \in Range(Tail(s)) : Head(s) < x
  <2>1. /\ Head(s) \in Nat /\ Head(s) = s[1] /\ Len(s) \in Nat \ {0} /\ Tail(s) \in Seq(Nat)
        /\ Len(Tail(s)) = Len(s) - 1 /\ \A i \in 1 .. Len(s) - 1 : Tail(s)[i] = s[i + 1]
        /\ Range(s) = {Head(s)} \cup Range(Tail(s))
        BY <1>2, HeadTailIs
  <2>2. Rising(Tail(s))
        BY <2>1 DEF Rising
  <2>3. ASSUME NEW x \in Range(Tail(s)) PROVE Head(s) < x
    <3>1. PICK i \in 1 .. Len(s) - 1 : x = s[i + 1]
      <4>1. \E i \in 1 .. Len(Tail(s)) : Tail(s)[i] = x
            BY <2>1, <2>3, RangeIs
      <4>2. Len(Tail(s)) = Len(s) - 1 /\ \A i \in 1 .. Len(s) - 1 : Tail(s)[i] = s[i + 1]
            BY <2>1
      <4>. QED BY <4>1, <4>2
    <3>2. 1 \in 1 .. Len(s) /\ i + 1 \in 1 .. Len(s) /\ 1 < i + 1
          BY <2>1
    <3>. QED BY <2>1, <3>1, <3>2 DEF Rising
  <2>. QED BY <2>1, <2>2, <2>3
<1>3. <<>> \in Seq(Nat) /\ Rising(<<>>) /\ Range(<<>>) = {} /\ Range(s) \subseteq Nat
      BY EmptyIs, RangeIs DEF Rising
<1>. QED BY <1>1, <1>2, <1>3

\* The numbers of messages, after one is added or taken.
LEMMA NumbersAre ==
  ASSUME NEW s \in Messages, \A i \in 1 .. Len(s) : Number(s[i]) \in Nat
  PROVE  /\ Numbers(s) \in Seq(Nat) /\ Len(Numbers(s)) = Len(s)
         /\ \A m \in Seq(Unit) : Number(m) \in Nat => Numbers(Append(s, m)) = Append(Numbers(s), Number(m))
         /\ s # <<>> => /\ Numbers(s) # <<>> /\ Head(Numbers(s)) = Number(Head(s))
                        /\ Numbers(Tail(s)) = Tail(Numbers(s))
<1>1. s \in Seq(Seq(Unit)) /\ Len(s) \in Nat
      BY LenProperties DEF Messages
<1>2. Numbers(s) \in Seq(Nat) /\ Len(Numbers(s)) = Len(s) /\ \A i \in 1 .. Len(s) : Numbers(s)[i] = Number(s[i])
      BY <1>1 DEF Numbers
<1>3. ASSUME NEW m \in Seq(Unit), Number(m) \in Nat PROVE Numbers(Append(s, m)) = Append(Numbers(s), Number(m))
  <2>1. /\ Append(s, m) \in Seq(Seq(Unit)) /\ Len(Append(s, m)) = Len(s) + 1
        /\ \A i \in 1 .. Len(s) + 1 : Append(s, m)[i] = IF i <= Len(s) THEN s[i] ELSE m
        BY <1>1, AppendIs
  <2>2. /\ Append(Numbers(s), Number(m)) \in Seq(Nat) /\ Len(Append(Numbers(s), Number(m))) = Len(Numbers(s)) + 1
        /\ \A i \in 1 .. Len(Numbers(s)) + 1 :
             Append(Numbers(s), Number(m))[i] = IF i <= Len(Numbers(s)) THEN Numbers(s)[i] ELSE Number(m)
        BY <1>2, <1>3, AppendIs
  <2>3. \A i \in 1 .. Len(s) + 1 : Number(Append(s, m)[i]) \in Nat
        BY <1>1, <1>3, <2>1
  <2>4. /\ Numbers(Append(s, m)) \in Seq(Nat) /\ Len(Numbers(Append(s, m))) = Len(s) + 1
        /\ \A i \in 1 .. Len(s) + 1 : Numbers(Append(s, m))[i] = Number(Append(s, m)[i])
        BY <1>1, <2>1, <2>3 DEF Numbers
  <2>5. \A i \in 1 .. Len(s) + 1 : Numbers(Append(s, m))[i] = Append(Numbers(s), Number(m))[i]
        BY <1>1, <1>2, <2>1, <2>2, <2>4
  <2>. QED BY <1>2, <2>2, <2>4, <2>5, SeqEqual
<1>4. ASSUME s # <<>>
      PROVE  Numbers(s) # <<>> /\ Head(Numbers(s)) = Number(Head(s)) /\ Numbers(Tail(s)) = Tail(Numbers(s))
  <2>1. /\ Head(s) = s[1] /\ Len(s) \in Nat \ {0} /\ Tail(s) \in Seq(Seq(Unit)) /\ Len(Tail(s)) = Len(s) - 1
        /\ \A i \in 1 .. Len(s) - 1 : Tail(s)[i] = s[i + 1]
        BY <1>1, <1>4, HeadTailIs
  <2>2. Numbers(s) # <<>>
        BY <1>2, <2>1, EmptyIs
  <2>3. /\ Head(Numbers(s)) = Numbers(s)[1] /\ Tail(Numbers(s)) \in Seq(Nat) /\ Len(Tail(Numbers(s))) = Len(s) - 1
        /\ \A i \in 1 .. Len(s) - 1 : Tail(Numbers(s))[i] = Numbers(s)[i + 1]
        BY <1>2, <2>2, HeadTailIs
  <2>4. \A i \in 1 .. Len(s) - 1 : i + 1 \in 1 .. Len(s) /\ Number(Tail(s)[i]) \in Nat
        BY <1>1, <2>1
  <2>5. /\ Numbers(Tail(s)) \in Seq(Nat) /\ Len(Numbers(Tail(s))) = Len(s) - 1
        /\ \A i \in 1 .. Len(s) - 1 : Numbers(Tail(s))[i] = Number(Tail(s)[i])
        BY <2>1, <2>4 DEF Numbers
  <2>6. \A i \in 1 .. Len(s) - 1 : Numbers(Tail(s))[i] = Tail(Numbers(s))[i]
        BY <1>2, <2>1, <2>3, <2>4, <2>5
  <2>7. 1 \in 1 .. Len(s)
        BY <2>1
  <2>. QED BY <1>2, <2>1, <2>2, <2>3, <2>5, <2>6, <2>7, SeqEqual
<1>. QED BY <1>2, <1>3, <1>4

\* What the steps do to the order.
LEMMA OrderedIs ==
  ASSUME NEW h \in Seq(Nat), NEW d \in SUBSET Nat, NEW a \in Seq(Nat), NEW q \in Seq(Nat), NEW n \in Nat,
         Ordered(h, d, a, q, n)
  PROVE  /\ q # <<>> => Ordered(h, d, a, Tail(q), n) /\ Ordered(h, d, Append(a, Head(q)), Tail(q), n)
         /\ a # <<>> => /\ Ordered(h, d \cup {Head(a)}, Tail(a), q, n) /\ Ordered(h, d, Tail(a), q, n)
                        /\ \A x \in d : x < Head(a)
         /\ \A e \in SUBSET d : /\ Ordered(h, e, a, q, n)
                                /\ \A m \in d : (\A x \in e : m < x) => Ordered(Append(h, m), e, a, q, n)
         /\ Ordered(h, d, a, q, n + 1) /\ Ordered(h, d, a, Append(q, n + 1), n + 1)
         /\ Ordered(h, d, <<>>, q, n)
<1>. USE DEF Below
<1>1. Rising(h) /\ Rising(a) /\ Rising(q)
      BY DEF Ordered
<1>2. ASSUME q # <<>> PROVE Ordered(h, d, a, Tail(q), n) /\ Ordered(h, d, Append(a, Head(q)), Tail(q), n)
  <2>1. /\ Rising(Tail(q)) /\ Range(Tail(q)) \subseteq Range(q) /\ Head(q) \in Range(q) /\ Head(q) \in Nat
        /\ \A x \in Range(Tail(q)) : Head(q) < x
        BY <1>1, <1>2, RisingIs
  <2>2. \A x \in Range(a) : x < Head(q)
        BY <2>1 DEF Ordered
  <2>3. Range(Append(a, Head(q))) = Range(a) \cup {Head(q)} /\ Rising(Append(a, Head(q)))
        BY <1>1, <2>1, <2>2, RisingIs
  <2>. QED BY <2>1, <2>3 DEF Ordered
<1>3. ASSUME a # <<>>
      PROVE  /\ Ordered(h, d \cup {Head(a)}, Tail(a), q, n) /\ Ordered(h, d, Tail(a), q, n)
             /\ \A x \in d : x < Head(a)
  <2>1. /\ Rising(Tail(a)) /\ Range(Tail(a)) \subseteq Range(a) /\ Head(a) \in Range(a)
        /\ \A x \in Range(Tail(a)) : Head(a) < x
        BY <1>1, <1>3, RisingIs
  <2>. QED BY <2>1 DEF Ordered
<1>4. ASSUME NEW e \in SUBSET d
      PROVE  /\ Ordered(h, e, a, q, n)
             /\ \A m \in d : (\A x \in e : m < x) => Ordered(Append(h, m), e, a, q, n)
  <2>1. Ordered(h, e, a, q, n)
        BY DEF Ordered
  <2>2. ASSUME NEW m \in d, \A x \in e : m < x PROVE Ordered(Append(h, m), e, a, q, n)
    <3>1. m \in Nat /\ \A x \in Range(h) : x < m
          BY DEF Ordered
    <3>2. Range(Append(h, m)) = Range(h) \cup {m} /\ Rising(Append(h, m))
          BY <1>1, <3>1, RisingIs
    <3>. QED BY <2>2, <3>2 DEF Ordered
  <2>. QED BY <2>1, <2>2
<1>5. 1 .. n \subseteq 1 .. n + 1 /\ n + 1 \in Nat /\ n + 1 \in 1 .. n + 1 /\ \A x \in 1 .. n : x < n + 1
      OBVIOUS
<1>6. Ordered(h, d, a, q, n + 1)
      BY <1>5 DEF Ordered
<1>7. Ordered(h, d, a, Append(q, n + 1), n + 1)
  <2>1. Range(Append(q, n + 1)) = Range(q) \cup {n + 1} /\ Rising(Append(q, n + 1))
    <3>1. \A x \in Range(q) : x < n + 1
          BY <1>5 DEF Ordered
    <3>. QED BY <1>1, <1>5, <3>1, RisingIs
  <2>2. \A x \in Range(h) \cup d \cup Range(a) : x < n + 1
        BY <1>5 DEF Ordered
  <2>. QED BY <1>5, <1>6, <2>1, <2>2 DEF Ordered
<1>8. Ordered(h, d, <<>>, q, n)
  <2>1. Rising(<<>>) /\ Range(<<>>) = {}
        BY <1>1, RisingIs
  <2>. QED BY <2>1 DEF Ordered
<1>. QED BY <1>2, <1>3, <1>4, <1>6, <1>7, <1>8

-----------------------------------------------------------------------------
(* The units on the way to a caller.                                       *)

\* Whole messages, but for what was taken of the first; the numbers rise.
IsChain(s) ==
  /\ \A i \in 1 .. Len(s) : s[i] \in {"answer"} \X Nat \X (1 .. 4)
  /\ \A i \in 1 .. Len(s) : s[i][3] < 4 => i + 1 \in 1 .. Len(s) /\ s[i + 1] = <<"answer", s[i][2], s[i][3] + 1>>
  /\ \A i \in 1 .. Len(s) : s[i][3] = 4 /\ i + 1 \in 1 .. Len(s) => s[i + 1][3] = 1
  /\ \A i, j \in 1 .. Len(s) : i < j => s[i][2] <= s[j][2] /\ (s[i][3] = 4 => s[i][2] < s[j][2])
AnswersIn(s) == {s[i][2] : i \in 1 .. Len(s)}

\* What is left of them, ...
LEMMA ChainLess ==
  ASSUME NEW s \in Seq(Unit), IsChain(s), NEW t \in Seq(Unit), NEW k \in Nat, k <= Len(s), Len(t) = Len(s) - k,
         \A i \in 1 .. Len(s) - k : t[i] = s[i + k]
  PROVE  IsChain(t) /\ AnswersIn(t) \subseteq AnswersIn(s)
<1>1. Len(s) \in Nat
      BY LenProperties
<1>2. \A i \in 1 .. Len(t) : i + k \in 1 .. Len(s) /\ t[i] = s[i + k]
      BY <1>1
<1>3. \A i \in 1 .. Len(t) : i + 1 \in 1 .. Len(t) <=> (i + k) + 1 \in 1 .. Len(s)
      BY <1>1
<1>4. \A i \in 1 .. Len(t) : (i + 1) + k = (i + k) + 1
      OBVIOUS
<1>5. \A i \in 1 .. Len(t) : t[i] \in {"answer"} \X Nat \X (1 .. 4)
      BY <1>2 DEF IsChain
<1>6. ASSUME NEW i \in 1 .. Len(t), t[i][3] < 4
      PROVE  i + 1 \in 1 .. Len(t) /\ t[i + 1] = <<"answer", t[i][2], t[i][3] + 1>>
  <2>1. (i + k) + 1 \in 1 .. Len(s) /\ s[(i + k) + 1] = <<"answer", s[i + k][2], s[i + k][3] + 1>>
        BY <1>2, <1>6 DEF IsChain
  <2>2. i + 1 \in 1 .. Len(t) /\ (i + 1) + k = (i + k) + 1
        BY <1>3, <1>4, <2>1
  <2>3. t[i + 1] = s[(i + 1) + k]
        BY <1>2, <2>2
  <2>. QED BY <1>2, <2>1, <2>2, <2>3
<1>7. ASSUME NEW i \in 1 .. Len(t), t[i][3] = 4, i + 1 \in 1 .. Len(t) PROVE t[i + 1][3] = 1
  <2>1. (i + k) + 1 \in 1 .. Len(s) /\ (i + 1) + k = (i + k) + 1
        BY <1>3, <1>4, <1>7
  <2>2. t[i + 1] = s[(i + k) + 1]
        BY <1>2, <1>7, <2>1
  <2>3. s[i + k][3] = 4 /\ i + k \in 1 .. Len(s)
        BY <1>2, <1>7
  <2>. QED BY <2>1, <2>2, <2>3 DEF IsChain
<1>8. ASSUME NEW i \in 1 .. Len(t), NEW j \in 1 .. Len(t), i < j
      PROVE  t[i][2] <= t[j][2] /\ (t[i][3] = 4 => t[i][2] < t[j][2])
  <2>1. i + k \in 1 .. Len(s) /\ j + k \in 1 .. Len(s) /\ i + k < j + k /\ t[i] = s[i + k] /\ t[j] = s[j + k]
        BY <1>2, <1>8
  <2>. QED BY <2>1 DEF IsChain
<1>9. AnswersIn(t) \subseteq AnswersIn(s)
  <2>1. ASSUME NEW i \in 1 .. Len(t) PROVE t[i][2] \in AnswersIn(s)
    <3>1. i + k \in 1 .. Len(s) /\ t[i][2] = s[i + k][2]
          BY <1>2
    <3>. QED BY <3>1 DEF AnswersIn
  <2>. QED BY <2>1 DEF AnswersIn
<1>. QED BY <1>5, <1>6, <1>7, <1>8, <1>9 DEF IsChain

\* ... what comes after the first of them, ...
LEMMA ChainBegins ==
  ASSUME NEW s \in Seq(Unit), IsChain(s), s # <<>>
  PROVE  /\ Len(s) \in Nat /\ 1 <= Len(s) /\ s[1][2] \in Nat /\ s[1][2] \in AnswersIn(s) /\ s[1][3] \in 1 .. 4
         /\ s[1] = <<"answer", s[1][2], s[1][3]>>
         /\ s[1][3] < 4 => 2 <= Len(s) /\ s[2] = <<"answer", s[1][2], s[1][3] + 1>>
         /\ s[1][3] < 3 => 3 <= Len(s) /\ s[3] = <<"answer", s[1][2], s[1][3] + 2>>
         /\ s[1][3] = 3 => /\ 3 <= Len(s) => s[3][3] = 1
                           /\ \A j \in 3 .. Len(s) : s[1][2] < s[j][2]
<1>1. Len(s) \in Nat \ {0} /\ 1 \in 1 .. Len(s)
      BY HeadTailIs
<1>2. s[1] \in {"answer"} \X Nat \X (1 .. 4)
      BY <1>1 DEF IsChain
<1>3. ASSUME s[1][3] < 4 PROVE 2 \in 1 .. Len(s) /\ s[2] = <<"answer", s[1][2], s[1][3] + 1>>
  <2>1. 1 + 1 \in 1 .. Len(s) /\ s[1 + 1] = <<"answer", s[1][2], s[1][3] + 1>>
        BY <1>1, <1>3 DEF IsChain
  <2>2. 1 + 1 = 2
        OBVIOUS
  <2>. QED BY <2>1, <2>2
<1>4. ASSUME s[1][3] < 3 PROVE 3 \in 1 .. Len(s) /\ s[3] = <<"answer", s[1][2], s[1][3] + 2>>
  <2>1. 2 \in 1 .. Len(s) /\ s[2] = <<"answer", s[1][2], s[1][3] + 1>> /\ s[2][3] < 4
        BY <1>2, <1>3, <1>4
  <2>2. 2 + 1 \in 1 .. Len(s) /\ s[2 + 1] = <<"answer", s[2][2], s[2][3] + 1>>
        BY <2>1 DEF IsChain
  <2>3. 2 + 1 = 3 /\ s[2][2] = s[1][2] /\ s[2][3] = s[1][3] + 1 /\ (s[1][3] + 1) + 1 = s[1][3] + 2
        BY <1>2, <2>1
  <2>. QED BY <2>2, <2>3
<1>5. ASSUME s[1][3] = 3
      PROVE  /\ 3 <= Len(s) => s[3][3] = 1
             /\ \A j \in 3 .. Len(s) : s[1][2] < s[j][2]
  <2>1. 2 \in 1 .. Len(s) /\ s[2] = <<"answer", s[1][2], 4>>
        BY <1>2, <1>3, <1>5
  <2>2. s[2][3] = 4 /\ s[2][2] = s[1][2]
        BY <2>1
  <2>3. 3 <= Len(s) => 2 + 1 \in 1 .. Len(s) /\ 2 + 1 = 3
        BY <1>1
  <2>4. \A j \in 3 .. Len(s) : j \in 1 .. Len(s) /\ 2 < j
        BY <1>1
  <2>. QED BY <2>1, <2>2, <2>3, <2>4 DEF IsChain
<1>6. s[1][2] \in AnswersIn(s)
      BY <1>1 DEF AnswersIn
<1>7. /\ s[1][2] \in Nat /\ s[1][3] \in 1 .. 4 /\ s[1] = <<"answer", s[1][2], s[1][3]>> /\ 1 <= Len(s)
      /\ 2 \in 1 .. Len(s) => 2 <= Len(s)
      /\ 3 \in 1 .. Len(s) => 3 <= Len(s)
      BY <1>1, <1>2
<1>. QED BY <1>1, <1>3, <1>4, <1>5, <1>6, <1>7

\* ... and one message more.
LEMMA ChainMore ==
  ASSUME NEW s \in Seq(Unit), IsChain(s), NEW m \in Nat, \A x \in AnswersIn(s) : x < m
  PROVE  /\ s \o Units("answer", m) \in Seq(Unit) /\ s \o Units("answer", m) # <<>>
         /\ IsChain(s \o Units("answer", m)) /\ AnswersIn(s \o Units("answer", m)) = AnswersIn(s) \cup {m}
         /\ (s \o Units("answer", m))[1][3] = IF s = <<>> THEN 1 ELSE s[1][3]
<1>. DEFINE u == Units("answer", m)
            t == s \o u
<1>1. u \in Seq(Unit) /\ Len(u) = 4 /\ \A i \in 1 .. 4 : u[i] = <<"answer", m, i>>
      BY UnitsIs
<1>. HIDE DEF u
<1>2. /\ t \in Seq(Unit) /\ Len(t) = Len(s) + 4 /\ Len(s) \in Nat
      /\ \A i \in 1 .. Len(s) + 4 : t[i] = IF i <= Len(s) THEN s[i] ELSE u[i - Len(s)]
  <2>1. /\ t \in Seq(Unit) /\ Len(t) = Len(s) + Len(u)
        /\ \A i \in 1 .. Len(s) + Len(u) : t[i] = IF i <= Len(s) THEN s[i] ELSE u[i - Len(s)]
        BY <1>1, ConcatProperties
  <2>. QED BY <1>1, <2>1, LenProperties
<1>. HIDE DEF t
<1>3. \A i \in 1 .. Len(s) : i \in 1 .. Len(t) /\ t[i] = s[i] /\ s[i][2] < m
  <2>1. \A i \in 1 .. Len(s) : s[i][2] \in AnswersIn(s)
        BY DEF AnswersIn
  <2>. QED BY <1>2, <2>1
<1>4. \A p \in 1 .. 4 : Len(s) + p \in 1 .. Len(t) /\ t[Len(s) + p] = <<"answer", m, p>>
  <2>1. \A p \in 1 .. 4 : Len(s) + p \in 1 .. Len(s) + 4 /\ ~(Len(s) + p <= Len(s)) /\ (Len(s) + p) - Len(s) = p
        BY <1>2
  <2>. QED BY <1>1, <1>2, <2>1
<1>5. \A i \in 1 .. Len(t) : i \in 1 .. Len(s) \/ \E p \in 1 .. 4 : i = Len(s) + p
  <2> SUFFICES ASSUME NEW i \in 1 .. Len(t), i \notin 1 .. Len(s) PROVE \E p \in 1 .. 4 : i = Len(s) + p
      OBVIOUS
  <2>1. i - Len(s) \in 1 .. 4 /\ i = Len(s) + (i - Len(s))
        BY <1>2
  <2>. QED BY <2>1
<1>6. \A i \in 1 .. Len(t) : t[i] \in {"answer"} \X Nat \X (1 .. 4)
  <2>1. \A p \in 1 .. 4 : <<"answer", m, p>> \in {"answer"} \X Nat \X (1 .. 4)
        OBVIOUS
  <2> SUFFICES ASSUME NEW i \in 1 .. Len(t) PROVE t[i] \in {"answer"} \X Nat \X (1 .. 4)
      OBVIOUS
  <2>2. CASE i \in 1 .. Len(s)
        BY <1>3, <2>2 DEF IsChain
  <2>3. ASSUME NEW p \in 1 .. 4, i = Len(s) + p PROVE t[i] \in {"answer"} \X Nat \X (1 .. 4)
        BY <1>4, <2>1, <2>3
  <2>. QED BY <1>5, <2>2, <2>3
<1>7. ASSUME NEW i \in 1 .. Len(t), t[i][3] < 4
      PROVE  i + 1 \in 1 .. Len(t) /\ t[i + 1] = <<"answer", t[i][2], t[i][3] + 1>>
  <2>1. CASE i \in 1 .. Len(s)
    <3>1. i + 1 \in 1 .. Len(s) /\ s[i + 1] = <<"answer", s[i][2], s[i][3] + 1>>
          BY <1>3, <1>7, <2>1 DEF IsChain
    <3>. QED BY <1>3, <2>1, <3>1
  <2>2. ASSUME NEW p \in 1 .. 4, i = Len(s) + p PROVE i + 1 \in 1 .. Len(t) /\ t[i + 1] = <<"answer", t[i][2], t[i][3] + 1>>
    <3>1. t[i] = <<"answer", m, p>> /\ p < 4
          BY <1>4, <1>7, <2>2
    <3>2. p + 1 \in 1 .. 4 /\ i + 1 = Len(s) + (p + 1)
          BY <1>2, <2>2, <3>1
    <3>. QED BY <1>4, <3>1, <3>2
  <2>. QED BY <1>5, <2>1, <2>2
<1>8. ASSUME NEW i \in 1 .. Len(t), t[i][3] = 4, i + 1 \in 1 .. Len(t) PROVE t[i + 1][3] = 1
  <2>1. CASE i \in 1 .. Len(s) /\ i + 1 \in 1 .. Len(s)
        BY <1>3, <1>8, <2>1 DEF IsChain
  <2>2. CASE i \in 1 .. Len(s) /\ i + 1 \notin 1 .. Len(s)
    <3>1. i + 1 = Len(s) + 1 /\ 1 \in 1 .. 4
          BY <1>2, <2>2
    <3>. QED BY <1>4, <3>1
  <2>3. ASSUME NEW p \in 1 .. 4, i = Len(s) + p PROVE FALSE
    <3>1. t[i] = <<"answer", m, p>>
          BY <1>4, <2>3
    <3>2. p = 4
          BY <1>8, <3>1
    <3>. QED BY <1>2, <1>8, <2>3, <3>2
  <2>. QED BY <1>5, <2>1, <2>2, <2>3
<1>9. ASSUME NEW i \in 1 .. Len(t), NEW j \in 1 .. Len(t), i < j
      PROVE  t[i][2] <= t[j][2] /\ (t[i][3] = 4 => t[i][2] < t[j][2])
  <2>1. CASE i \in 1 .. Len(s) /\ j \in 1 .. Len(s)
        BY <1>3, <1>9, <2>1 DEF IsChain
  <2>2. ASSUME i \in 1 .. Len(s), NEW q \in 1 .. 4, j = Len(s) + q
        PROVE  t[i][2] <= t[j][2] /\ (t[i][3] = 4 => t[i][2] < t[j][2])
    <3>1. t[j] = <<"answer", m, q>> /\ t[i][2] < m
          BY <1>3, <1>4, <2>2
    <3>2. t[i][2] \in Nat
          BY <1>6
    <3>. QED BY <3>1, <3>2
  <2>3. ASSUME NEW p \in 1 .. 4, NEW q \in 1 .. 4, i = Len(s) + p, j = Len(s) + q
        PROVE  t[i][2] <= t[j][2] /\ (t[i][3] = 4 => t[i][2] < t[j][2])
    <3>1. p < q
          BY <1>2, <1>9, <2>3
    <3>2. t[i] = <<"answer", m, p>> /\ t[j] = <<"answer", m, q>>
          BY <1>4, <2>3
    <3>3. p # 4
          BY <3>1
    <3>. QED BY <3>2, <3>3
  <2>4. ASSUME j \in 1 .. Len(s), NEW p \in 1 .. 4, i = Len(s) + p PROVE FALSE
        BY <1>2, <1>9, <2>4
  <2>. QED BY <1>5, <2>1, <2>2, <2>3, <2>4
<1>10. AnswersIn(t) = AnswersIn(s) \cup {m}
  <2>1. ASSUME NEW i \in 1 .. Len(t) PROVE t[i][2] \in AnswersIn(s) \cup {m}
        BY <1>3, <1>4, <1>5 DEF AnswersIn
  <2>2. ASSUME NEW i \in 1 .. Len(s) PROVE s[i][2] \in AnswersIn(t)
        BY <1>3 DEF AnswersIn
  <2>3. m \in AnswersIn(t)
    <3>1. Len(s) + 1 \in 1 .. Len(t) /\ t[Len(s) + 1] = <<"answer", m, 1>>
          BY <1>4
    <3>. QED BY <3>1 DEF AnswersIn
  <2>. QED BY <2>1, <2>2, <2>3 DEF AnswersIn
<1>11. t[1][3] = IF s = <<>> THEN 1 ELSE s[1][3]
  <2>1. CASE s = <<>>
    <3>1. Len(s) = 0 /\ Len(s) + 1 = 1
          BY <2>1
    <3>. QED BY <1>4, <2>1, <3>1
  <2>2. CASE s # <<>>
    <3>1. 1 \in 1 .. Len(s)
          BY <2>2, HeadTailIs
    <3>. QED BY <1>3, <2>2, <3>1
  <2>. QED BY <2>1, <2>2
<1>12. t # <<>>
      BY <1>2, EmptyIs
<1>13. IsChain(t)
      BY <1>6, <1>7, <1>8, <1>9 DEF IsChain
<1>. QED BY <1>2, <1>10, <1>11, <1>12, <1>13 DEF t, u

\* A reader that takes one unit or two comes to the next part of the message,
\* or to the next message.
LEMMA ChainTaken ==
  ASSUME NEW s \in Seq(Unit), IsChain(s), NEW t \in Seq(Unit), NEW k \in 1 .. 2, k <= Len(s), Len(t) = Len(s) - k,
         \A i \in 1 .. Len(s) - k : t[i] = s[i + k]
  PROVE  /\ s # <<>> /\ IsChain(t) /\ AnswersIn(t) \subseteq AnswersIn(s)
         /\ s[1][3] + k <= 4 => t # <<>> /\ t[1][3] = s[1][3] + k
         /\ s[1][3] = 3 /\ k = 2 => /\ t # <<>> => t[1][3] = 1
                                    /\ s[2] = <<"answer", s[1][2], 4>>
                                    /\ \A x \in AnswersIn(t) : s[1][2] < x
<1>1. s # <<>> /\ Len(s) \in Nat
      BY LenProperties
<1>2. k \in Nat
      OBVIOUS
<1>3. IsChain(t) /\ AnswersIn(t) \subseteq AnswersIn(s)
      BY <1>2, ChainLess
<1>4. /\ 1 <= Len(s) /\ s[1][3] \in 1 .. 4
      /\ s[1][3] < 4 => 2 <= Len(s) /\ s[2] = <<"answer", s[1][2], s[1][3] + 1>>
      /\ s[1][3] < 3 => 3 <= Len(s) /\ s[3] = <<"answer", s[1][2], s[1][3] + 2>>
      /\ s[1][3] = 3 => /\ 3 <= Len(s) => s[3][3] = 1
                        /\ \A j \in 3 .. Len(s) : s[1][2] < s[j][2]
      BY <1>1, ChainBegins
<1>5. t = <<>> <=> Len(t) = 0
      BY RangeIs
<1>6. ASSUME s[1][3] + k <= 4 PROVE t # <<>> /\ t[1][3] = s[1][3] + k
  <2>1. CASE k = 1
    <3>1. s[1][3] < 4 /\ 1 \in 1 .. Len(s) - 1 /\ 1 + 1 = 2
          BY <1>1, <1>4, <1>6, <2>1
    <3>2. t[1] = s[2] /\ s[2][3] = s[1][3] + 1
          BY <1>4, <2>1, <3>1
    <3>. QED BY <1>1, <1>5, <2>1, <3>1, <3>2
  <2>2. CASE k = 2
    <3>1. s[1][3] < 3 /\ 1 \in 1 .. Len(s) - 2 /\ 1 + 2 = 3
          BY <1>1, <1>4, <1>6, <2>2
    <3>2. t[1] = s[3] /\ s[3][3] = s[1][3] + 2
          BY <1>4, <2>2, <3>1
    <3>. QED BY <1>1, <1>5, <2>2, <3>1, <3>2
  <2>. QED BY <2>1, <2>2
<1>7. ASSUME s[1][3] = 3, k = 2
      PROVE  /\ t # <<>> => t[1][3] = 1
             /\ s[2] = <<"answer", s[1][2], 4>>
             /\ \A x \in AnswersIn(t) : s[1][2] < x
  <2>1. ASSUME t # <<>> PROVE t[1][3] = 1
    <3>1. 3 <= Len(s) /\ 1 \in 1 .. Len(s) - 2 /\ 1 + 2 = 3
          BY <1>1, <1>5, <1>7, <2>1
    <3>2. t[1] = s[3]
          BY <1>7, <3>1
    <3>. QED BY <1>4, <1>7, <3>1, <3>2
  <2>2. ASSUME NEW i \in 1 .. Len(t) PROVE s[1][2] < t[i][2]
    <3>1. i \in 1 .. Len(s) - 2 /\ i + 2 \in 3 .. Len(s)
          BY <1>1, <1>7
    <3>2. t[i] = s[i + 2]
          BY <1>7, <3>1
    <3>. QED BY <1>4, <1>7, <3>1, <3>2
  <2>3. s[2] = <<"answer", s[1][2], 4>>
        BY <1>4, <1>7
  <2>. QED BY <2>1, <2>2, <2>3 DEF AnswersIn
<1>. QED BY <1>1, <1>3, <1>6, <1>7

-----------------------------------------------------------------------------
(* What a caller is given.                                                 *)

\* How much a caller has read of the message that is next.
HadTaken(c) == IF call[c] = "len" THEN 1 ELSE IF call[c] = "body" THEN 2 ELSE 0
HeardOf(c) == \A i \in 1 .. Len(heard[c]) : \E k \in Nat : heard[c][i] = WholeOf("answer", k)
ListensTo(c) == IF down[c] = <<>> THEN HadTaken(c) = 0 ELSE down[c][1][3] = HadTaken(c) + 1
OrderOf(c) == Ordered(Numbers(heard[c]), AnswersIn(down[c]), answers[c], Numbers(server[c]), Len(served[c]))
AnswersOf(c) == HeardOf(c) /\ IsChain(down[c]) /\ (call[c] # "gone" => ListensTo(c)) /\ OrderOf(c)
AnswersInv == \A c \in Callers : AnswersOf(c)

\* A list of whole messages by its numbers.
LEMMA WholesAre ==
  ASSUME NEW what \in {"ask", "answer"}, NEW s \in Messages, \A i \in 1 .. Len(s) : \E k \in Nat : s[i] = WholeOf(what, k)
  PROVE  /\ Numbers(s) \in Seq(Nat) /\ Len(Numbers(s)) = Len(s)
         /\ \A i \in 1 .. Len(s) : Numbers(s)[i] \in Nat /\ s[i] = WholeOf(what, Numbers(s)[i])
         /\ \A k \in Nat : /\ Append(s, WholeOf(what, k)) \in Messages
                           /\ Numbers(Append(s, WholeOf(what, k))) = Append(Numbers(s), k)
                           /\ \A i \in 1 .. Len(Append(s, WholeOf(what, k))) :
                                Append(s, WholeOf(what, k))[i] \in {s[j] : j \in 1 .. Len(s)} \cup {WholeOf(what, k)}
         /\ s # <<>> => /\ Numbers(s) # <<>> /\ Head(Numbers(s)) = Number(Head(s))
                        /\ Numbers(Tail(s)) = Tail(Numbers(s)) /\ Tail(s) \in Messages
                        /\ \A i \in 1 .. Len(Tail(s)) : Tail(s)[i] \in {s[j] : j \in 1 .. Len(s)}
<1>1. \A k \in Nat : WholeOf(what, k) \in Seq(Unit) /\ Number(WholeOf(what, k)) = k
  <2> SUFFICES ASSUME NEW k \in Nat PROVE WholeOf(what, k) \in Seq(Unit) /\ Number(WholeOf(what, k)) = k
      OBVIOUS
  <2>1. WholeOf(what, k) \in Seq(Unit) /\ WholeOf(what, k)[1] = <<what, k, 3>>
        BY WholeIs
  <2>. QED BY <2>1 DEF Number
<1>2. \A i \in 1 .. Len(s) : Number(s[i]) \in Nat /\ s[i] = WholeOf(what, Number(s[i]))
      BY <1>1
<1>3. /\ Numbers(s) \in Seq(Nat) /\ Len(Numbers(s)) = Len(s)
      /\ \A m \in Seq(Unit) : Number(m) \in Nat => Numbers(Append(s, m)) = Append(Numbers(s), Number(m))
      /\ s # <<>> => /\ Numbers(s) # <<>> /\ Head(Numbers(s)) = Number(Head(s))
                     /\ Numbers(Tail(s)) = Tail(Numbers(s))
      BY <1>2, NumbersAre
<1>4. \A i \in 1 .. Len(s) : Numbers(s)[i] = Number(s[i])
      BY DEF Numbers
<1>5. s \in Seq(Seq(Unit)) /\ Len(s) \in Nat
      BY LenProperties DEF Messages
<1>6. ASSUME NEW m \in Seq(Unit)
      PROVE  /\ Append(s, m) \in Messages
             /\ \A i \in 1 .. Len(Append(s, m)) : Append(s, m)[i] \in {s[j] : j \in 1 .. Len(s)} \cup {m}
  <2>1. /\ Append(s, m) \in Seq(Seq(Unit)) /\ Len(Append(s, m)) = Len(s) + 1
        /\ \A i \in 1 .. Len(s) + 1 : Append(s, m)[i] = IF i <= Len(s) THEN s[i] ELSE m
        BY <1>5, AppendIs
  <2>2. \A i \in 1 .. Len(s) + 1 : i <= Len(s) => i \in 1 .. Len(s)
        BY <1>5
  <2>. QED BY <2>1, <2>2 DEF Messages
<1>7. ASSUME s # <<>> PROVE Tail(s) \in Messages /\ \A i \in 1 .. Len(Tail(s)) : Tail(s)[i] \in {s[j] : j \in 1 .. Len(s)}
  <2>1. /\ Tail(s) \in Seq(Seq(Unit)) /\ Len(Tail(s)) = Len(s) - 1
        /\ \A i \in 1 .. Len(s) - 1 : Tail(s)[i] = s[i + 1]
        BY <1>5, <1>7, HeadTailIs
  <2>2. \A i \in 1 .. Len(s) - 1 : i + 1 \in 1 .. Len(s)
        BY <1>5
  <2>. QED BY <2>1, <2>2 DEF Messages
<1>. QED BY <1>1, <1>2, <1>3, <1>4, <1>6, <1>7

\* The numbers of a caller's messages.
LEMMA AnswersAre ==
  ASSUME Types, ServerWhole, NEW c \in Callers, AnswersOf(c)
  PROVE  \E h \in Seq(Nat), d \in SUBSET Nat, a \in Seq(Nat), q \in Seq(Nat), n \in Nat :
           /\ h = Numbers(heard[c]) /\ d = AnswersIn(down[c]) /\ a = answers[c] /\ q = Numbers(server[c])
           /\ n = Len(served[c]) /\ Ordered(h, d, a, q, n)
<1>1. heard[c] \in Messages /\ server[c] \in Messages /\ answers[c] \in Seq(Nat) /\ Len(served[c]) \in Nat
      BY LenProperties DEF Types, CallTypes, ServerTypes, Messages
<1>2. Numbers(heard[c]) \in Seq(Nat)
  <2>1. "answer" \in {"ask", "answer"} /\ \A i \in 1 .. Len(heard[c]) : \E k \in Nat : heard[c][i] = WholeOf("answer", k)
        BY DEF AnswersOf, HeardOf
  <2>. QED BY <1>1, <2>1, WholesAre
<1>3. Numbers(server[c]) \in Seq(Nat)
  <2>1. DOMAIN server[c] = 1 .. Len(server[c])
        BY <1>1, LenProperties DEF Messages
  <2>2. "ask" \in {"ask", "answer"} /\ \A i \in 1 .. Len(server[c]) : \E k \in Nat : server[c][i] = WholeOf("ask", k)
        BY <2>1 DEF ServerWhole
  <2>. QED BY <1>1, <2>2, WholesAre
<1>4. AnswersIn(down[c]) \in SUBSET Nat
  <2>1. \A i \in 1 .. Len(down[c]) : down[c][i][2] \in Nat
    <3>1. \A i \in 1 .. Len(down[c]) : down[c][i] \in {"answer"} \X Nat \X (1 .. 4)
          BY DEF AnswersOf, IsChain
    <3>. QED BY <3>1
  <2>. QED BY <2>1 DEF AnswersIn
<1>5. OrderOf(c)
      BY DEF AnswersOf
<1>. QED BY <1>1, <1>2, <1>3, <1>4, <1>5 DEF OrderOf

\* A caller of whom nothing changes but that it goes.
LEMMA AnswersStay ==
  ASSUME NEW c \in Callers, AnswersOf(c), heard'[c] = heard[c], down'[c] = down[c], answers'[c] = answers[c],
         server'[c] = server[c], served'[c] = served[c],
         call'[c] = "gone" \/ call'[c] = call[c] \/ (call[c] = "no" /\ call'[c] = "up")
  PROVE  AnswersOf(c)'
BY DEF AnswersOf, HeardOf, ListensTo, HadTaken, OrderOf

\* An answer is lost, or waits for the proxy.
LEMMA ServeAnswers ==
  ASSUME Types, ServerWhole, AnswersInv, NEW b \in Callers, Serve(b), NEW c \in Callers
  PROVE  AnswersOf(c)'
<1>1. AnswersOf(c)
      BY DEF AnswersInv
<1>2. UNCHANGED <<call, heard, down, served>>
      BY DEF Serve, callVars
<1>3. CASE c # b
  <2>1. server'[c] = server[c] /\ answers'[c] = answers[c]
        BY <1>3 DEF Serve, Types, ServerTypes
  <2>. QED BY <1>1, <1>2, <2>1, AnswersStay
<1>4. CASE c = b
  <2>1. PICK h \in Seq(Nat), d \in SUBSET Nat, a \in Seq(Nat), q \in Seq(Nat), n \in Nat :
           /\ h = Numbers(heard[c]) /\ d = AnswersIn(down[c]) /\ a = answers[c] /\ q = Numbers(server[c])
           /\ n = Len(served[c]) /\ Ordered(h, d, a, q, n)
        BY <1>1, AnswersAre
  <2>2. server[c] # <<>> /\ server'[c] = Tail(server[c])
        BY <1>4 DEF Serve, Types, ServerTypes
  <2>3. q # <<>> /\ Head(q) = Head(server[c])[1][2] /\ Numbers(server'[c]) = Tail(q)
    <3>1. server[c] \in Messages /\ DOMAIN server[c] = 1 .. Len(server[c])
          BY LenProperties DEF Types, ServerTypes, Messages
    <3>2. "ask" \in {"ask", "answer"} /\ \A i \in 1 .. Len(server[c]) : \E k \in Nat : server[c][i] = WholeOf("ask", k)
          BY <3>1 DEF ServerWhole
    <3>3. /\ Numbers(server[c]) # <<>> /\ Head(Numbers(server[c])) = Number(Head(server[c]))
          /\ Numbers(Tail(server[c])) = Tail(Numbers(server[c]))
          BY <2>2, <3>1, <3>2, WholesAre
    <3>. QED BY <2>1, <2>2, <3>3 DEF Number
  <2>4. answers'[c] = a \/ answers'[c] = Append(a, Head(q))
        BY <1>4, <2>1, <2>3 DEF Serve, Types, ServerTypes
  <2>5. Ordered(h, d, a, Tail(q), n) /\ Ordered(h, d, Append(a, Head(q)), Tail(q), n)
        BY <2>1, <2>3, OrderedIs
  <2>6. OrderOf(c)'
        BY <1>2, <2>1, <2>3, <2>4, <2>5 DEF OrderOf
  <2>. QED BY <1>1, <1>2, <2>6 DEF AnswersOf, HeardOf, ListensTo, HadTaken
<1>. QED BY <1>3, <1>4

\* An answer that the proxy takes follows those before it to the caller.
LEMMA FromServerAnswers ==
  ASSUME Types, ServerWhole, AnswersInv, FromServer, NEW c \in Callers
  PROVE  AnswersOf(c)'
<1>1. AnswersOf(c)
      BY DEF AnswersInv
<1>2. UNCHANGED <<call, heard, server, served>>
      BY DEF FromServer, callVars
<1>3. PICK l \in Callers : l = Link
      BY LinkIs DEF FromServer
<1>4. /\ answers[l] # <<>> /\ answers' = [answers EXCEPT ![l] = Tail(@)]
      /\ down' = down \/ down' = [down EXCEPT ![l] = @ \o Units("answer", Head(answers[l]))]
      BY <1>3 DEF FromServer
<1>5. CASE c # l
  <2>1. down'[c] = down[c] /\ answers'[c] = answers[c]
        BY <1>4, <1>5 DEF Types, ServerTypes, StreamTypes
  <2>. QED BY <1>1, <1>2, <2>1, AnswersStay
<1>6. CASE c = l
  <2>1. PICK h \in Seq(Nat), d \in SUBSET Nat, a \in Seq(Nat), q \in Seq(Nat), n \in Nat :
           /\ h = Numbers(heard[c]) /\ d = AnswersIn(down[c]) /\ a = answers[c] /\ q = Numbers(server[c])
           /\ n = Len(served[c]) /\ Ordered(h, d, a, q, n)
        BY <1>1, AnswersAre
  <2>2. /\ Ordered(h, d \cup {Head(a)}, Tail(a), q, n) /\ Ordered(h, d, Tail(a), q, n)
        /\ \A x \in d : x < Head(a)
    <3>1. a # <<>>
          BY <1>4, <1>6, <2>1
    <3>. QED BY <2>1, <3>1, OrderedIs
  <2>3. PICK m \in Nat : m = Head(a)
        BY <1>4, <1>6, <2>1, HeadTailIs
  <2>4. answers'[c] = Tail(a)
        BY <1>4, <1>6, <2>1 DEF Types, ServerTypes
  <2>5. CASE down' = down
    <3>1. OrderOf(c)'
          BY <1>2, <2>1, <2>2, <2>4, <2>5 DEF OrderOf
    <3>. QED BY <1>1, <1>2, <2>5, <3>1 DEF AnswersOf, HeardOf, ListensTo, HadTaken
  <2>6. CASE down' = [down EXCEPT ![l] = @ \o Units("answer", Head(answers[l]))]
    <3>1. PICK s \in Seq(Unit) : s = down[c]
          BY DEF Types, StreamTypes
    <3>2. down'[c] = s \o Units("answer", m)
          BY <1>6, <2>1, <2>3, <2>6, <3>1 DEF Types, StreamTypes
    <3>3. IsChain(s) /\ \A x \in AnswersIn(s) : x < m
          BY <1>1, <2>1, <2>2, <2>3, <3>1 DEF AnswersOf
    <3>4. /\ s \o Units("answer", m) # <<>>
          /\ IsChain(s \o Units("answer", m)) /\ AnswersIn(s \o Units("answer", m)) = AnswersIn(s) \cup {m}
          /\ (s \o Units("answer", m))[1][3] = IF s = <<>> THEN 1 ELSE s[1][3]
          BY <3>3, ChainMore
    <3>5. OrderOf(c)'
          BY <1>2, <2>1, <2>2, <2>3, <2>4, <3>1, <3>2, <3>4 DEF OrderOf
    <3>6. (call[c] # "gone" => ListensTo(c))'
      <4>1. call[c] # "gone" => IF s = <<>> THEN HadTaken(c) = 0 ELSE s[1][3] = HadTaken(c) + 1
            BY <1>1, <3>1 DEF AnswersOf, ListensTo
      <4>2. HadTaken(c)' = HadTaken(c) /\ HadTaken(c) \in {0, 1, 2}
            BY <1>2 DEF HadTaken
      <4>. QED BY <1>2, <3>2, <3>4, <4>1, <4>2 DEF ListensTo
    <3>. QED BY <1>1, <1>2, <3>2, <3>4, <3>5, <3>6 DEF AnswersOf, HeardOf
  <2>. QED BY <1>4, <2>5, <2>6
<1>. QED BY <1>5, <1>6

\* What waits for the proxy may be lost with the client, ...
LEMMA LostAnswers ==
  ASSUME Types, ServerWhole, NEW c \in Callers, AnswersOf(c), UNCHANGED <<call, heard, down>>,
         server'[c] = server[c], served'[c] = served[c], answers'[c] \in {answers[c], <<>>}
  PROVE  AnswersOf(c)'
<1>1. PICK h \in Seq(Nat), d \in SUBSET Nat, a \in Seq(Nat), q \in Seq(Nat), n \in Nat :
         /\ h = Numbers(heard[c]) /\ d = AnswersIn(down[c]) /\ a = answers[c] /\ q = Numbers(server[c])
         /\ n = Len(served[c]) /\ Ordered(h, d, a, q, n)
      BY AnswersAre
<1>2. Ordered(h, d, <<>>, q, n)
      BY <1>1, OrderedIs
<1>3. OrderOf(c)'
      BY <1>1, <1>2 DEF OrderOf
<1>. QED BY <1>3 DEF AnswersOf, HeardOf, ListensTo, HadTaken

\* ... when it is closed, ...
LEMMA DropAnswers ==
  ASSUME Types, ServerWhole, AnswersInv, FromCaller \/ FromCallerNot \/ SecondUnit, NEW c \in Callers
  PROVE  AnswersOf(c)'
<1>1. UNCHANGED <<call, heard, down, server, served>>
      BY DEF FromCaller, FromCallerNot, SecondUnit, callVars
<1>2. answers' = answers \/ answers' = [answers EXCEPT ![Link] = <<>>]
      BY DEF FromCaller, FromCallerNot, SecondUnit, Leave, Drop
<1>3. answers'[c] \in {answers[c], <<>>}
  <2>1. answers \in [Callers -> Seq(Nat)]
        BY DEF Types, ServerTypes
  <2>2. CASE answers' = answers
        BY <2>2
  <2>3. CASE answers' = [answers EXCEPT ![Link] = <<>>]
        BY <2>1, <2>3
  <2>. QED BY <1>2, <2>2, <2>3
<1>. QED BY <1>1, <1>3, LostAnswers DEF AnswersInv

\* ... and a message that is passed on has a number larger than all.
LEMMA ContentsAnswers ==
  ASSUME Types, LooksAt, PlacesInv, StreamInv, ServerWhole, AnswersInv, Contents, NEW c \in Callers
  PROVE  AnswersOf(c)'
<1>1. AnswersOf(c)
      BY DEF AnswersInv
<1>2. PICK l \in Callers : l = Link
      BY LinkIs DEF Contents, LooksAt
<1>3. UNCHANGED <<call, heard, down>>
      BY <1>2, ContentsDoes
<1>4. answers' = answers \/ answers' = [answers EXCEPT ![l] = <<>>]
      BY <1>2 DEF Contents, PassOn, Leave, Drop
<1>5. /\ answers'[c] \in {answers[c], <<>>}
      /\ c # l => answers'[c] = answers[c]
  <2>1. answers \in [Callers -> Seq(Nat)]
        BY DEF Types, ServerTypes
  <2>2. CASE answers' = answers
        BY <2>2
  <2>3. CASE answers' = [answers EXCEPT ![l] = <<>>]
        BY <2>1, <2>3
  <2>. QED BY <1>4, <2>2, <2>3
<1>6. CASE UNCHANGED <<server, served>>
      BY <1>1, <1>3, <1>5, <1>6, LostAnswers
<1>7. ASSUME NEW k \in Nat \ {0}, k = Len(served[l]) + 1, served' = [served EXCEPT ![l] = Append(@, WholeOf("ask", k))],
             server' = [server EXCEPT ![l] = Append(@, WholeOf("ask", k))] \/ server' = server
      PROVE  AnswersOf(c)'
  <2>1. CASE c # l
    <3>1. server'[c] = server[c] /\ served'[c] = served[c]
          BY <1>7, <2>1 DEF Types, ServerTypes
    <3>. QED BY <1>1, <1>3, <1>5, <3>1, LostAnswers
  <2>2. CASE c = l
    <3>1. PICK h \in Seq(Nat), d \in SUBSET Nat, a \in Seq(Nat), q \in Seq(Nat), n \in Nat :
             /\ h = Numbers(heard[c]) /\ d = AnswersIn(down[c]) /\ a = answers[c] /\ q = Numbers(server[c])
             /\ n = Len(served[c]) /\ Ordered(h, d, a, q, n)
          BY <1>1, AnswersAre
    <3>2. k = n + 1
          BY <1>7, <2>2, <3>1
    <3>3. Len(served'[c]) = n + 1
      <4>1. WholeOf("ask", k) \in Seq(Unit) /\ served[c] \in Seq(Seq(Unit))
            BY WholeIs DEF Types, ServerTypes, Messages
      <4>2. served'[c] = Append(served[c], WholeOf("ask", k))
            BY <1>7, <2>2 DEF Types, ServerTypes
      <4>3. \A x \in Seq(Unit), s \in Seq(Seq(Unit)) : Len(Append(s, x)) = Len(s) + 1
            BY AppendIs
      <4>. QED BY <3>1, <4>1, <4>2, <4>3
    <3>4. Numbers(server'[c]) \in {q, Append(q, n + 1)}
      <4>1. server[c] \in Messages /\ DOMAIN server[c] = 1 .. Len(server[c])
            BY LenProperties DEF Types, ServerTypes, Messages
      <4>2. "ask" \in {"ask", "answer"} /\ \A i \in 1 .. Len(server[c]) : \E j \in Nat : server[c][i] = WholeOf("ask", j)
            BY <4>1 DEF ServerWhole
      <4>3. Numbers(Append(server[c], WholeOf("ask", k))) = Append(Numbers(server[c]), k)
            BY <4>1, <4>2, WholesAre
      <4>4. server'[c] = server[c] \/ server'[c] = Append(server[c], WholeOf("ask", k))
            BY <1>7, <2>2 DEF Types, ServerTypes
      <4>. QED BY <3>1, <3>2, <4>3, <4>4
    <3>5. /\ Ordered(h, d, a, q, n + 1) /\ Ordered(h, d, a, Append(q, n + 1), n + 1)
          /\ n + 1 \in Nat /\ Append(q, n + 1) \in Seq(Nat)
      <4>1. Ordered(h, d, a, q, n + 1) /\ Ordered(h, d, a, Append(q, n + 1), n + 1)
            BY <3>1, OrderedIs
      <4>2. n + 1 \in Nat
            OBVIOUS
      <4>. QED BY <4>1, <4>2, AppendIs
    <3>6. Ordered(h, d, <<>>, q, n + 1)
          BY <3>5, OrderedIs
    <3>7. Ordered(h, d, <<>>, Append(q, n + 1), n + 1)
      <4>. DEFINE r == Append(q, n + 1)
                  k1 == n + 1
      <4>1. r \in Seq(Nat) /\ k1 \in Nat /\ Ordered(h, d, a, r, k1)
            BY <3>5
      <4>. HIDE DEF r, k1
      <4>2. Ordered(h, d, <<>>, r, k1)
            BY <4>1, OrderedIs
      <4>. QED BY <4>2 DEF r, k1
    <3>8. OrderOf(c)'
          BY <1>3, <1>5, <3>1, <3>3, <3>4, <3>5, <3>6, <3>7 DEF OrderOf
    <3>. QED BY <1>1, <1>3, <3>8 DEF AnswersOf, HeardOf, ListensTo, HadTaken
  <2>. QED BY <2>1, <2>2
<1>. QED BY <1>2, <1>6, <1>7, ContentsDoes

\* What a caller takes are the next units, and a message that it has whole is
\* the one that comes first.
LEMMA ListenAnswers ==
  ASSUME Types, ServerWhole, AnswersInv, NEW b \in Callers, Listen(b), NEW c \in Callers
  PROVE  AnswersOf(c)'
<1>1. AnswersOf(c)
      BY DEF AnswersInv
<1>2. UNCHANGED <<answers, server, served>>
      BY DEF Listen
<1>3. CASE c # b
  <2>1. call'[c] = call[c] /\ heard'[c] = heard[c] /\ down'[c] = down[c]
    <3>1. call' = call \/ \E x : call' = [call EXCEPT ![b] = x]
          BY DEF Listen
    <3>2. heard' = heard \/ \E x : heard' = [heard EXCEPT ![b] = x]
          BY DEF Listen
    <3>3. down' = down \/ \E x : down' = [down EXCEPT ![b] = x]
          BY DEF Listen
    <3>. QED BY <1>3, <3>1, <3>2, <3>3 DEF Types, CallTypes, StreamTypes
  <2>. QED BY <1>1, <1>2, <2>1, AnswersStay
<1>4. CASE c = b
  <2>1. PICK s \in Seq(Unit) : s = down[c]
        BY DEF Types, StreamTypes
  <2>2. PICK h \in Seq(Nat), d \in SUBSET Nat, a \in Seq(Nat), q \in Seq(Nat), n \in Nat :
           /\ h = Numbers(heard[c]) /\ d = AnswersIn(s) /\ a = answers[c] /\ q = Numbers(server[c])
           /\ n = Len(served[c]) /\ Ordered(h, d, a, q, n)
        BY <1>1, <2>1, AnswersAre
  <2>3. IsChain(s) /\ HeardOf(c) /\ heard[c] \in Messages
        BY <1>1, <2>1 DEF AnswersOf, Types, CallTypes
  <2>4. call[c] # "gone" /\ s # <<>> => s[1][3] = HadTaken(c) + 1
        BY <1>1, <2>1 DEF AnswersOf, ListensTo
  <2>5. ASSUME NEW t \in Seq(Unit), t = down'[c], NEW k \in 1 .. 2, k <= Len(s), Len(t) = Len(s) - k,
               \A i \in 1 .. Len(s) - k : t[i] = s[i + k]
        PROVE  /\ s # <<>> /\ IsChain(t) /\ AnswersIn(t) \in SUBSET d
               /\ s[1][3] + k <= 4 => t # <<>> /\ t[1][3] = s[1][3] + k
               /\ s[1][3] = 3 /\ k = 2 => /\ t # <<>> => t[1][3] = 1
                                          /\ s[2] = <<"answer", s[1][2], 4>>
                                          /\ \A x \in AnswersIn(t) : s[1][2] < x
               /\ heard' = heard => OrderOf(c)'
    <3>1. /\ s # <<>> /\ IsChain(t) /\ AnswersIn(t) \in SUBSET d
          /\ s[1][3] + k <= 4 => t # <<>> /\ t[1][3] = s[1][3] + k
          /\ s[1][3] = 3 /\ k = 2 => /\ t # <<>> => t[1][3] = 1
                                     /\ s[2] = <<"answer", s[1][2], 4>>
                                     /\ \A x \in AnswersIn(t) : s[1][2] < x
      <4>1. /\ s # <<>> /\ IsChain(t) /\ AnswersIn(t) \subseteq AnswersIn(s)
            /\ s[1][3] + k <= 4 => t # <<>> /\ t[1][3] = s[1][3] + k
            /\ s[1][3] = 3 /\ k = 2 => /\ t # <<>> => t[1][3] = 1
                                       /\ s[2] = <<"answer", s[1][2], 4>>
                                       /\ \A x \in AnswersIn(t) : s[1][2] < x
        <5>1. IsChain(s) /\ t \in Seq(Unit) /\ k \in 1 .. 2 /\ k <= Len(s) /\ Len(t) = Len(s) - k
              BY <2>3, <2>5
        <5>2. \A i \in 1 .. Len(s) - k : t[i] = s[i + k]
              BY <2>5
        <5>. HIDE <2>5
        <5>. QED BY <5>1, <5>2, ChainTaken
      <4>. QED BY <2>2, <4>1
    <3>2. Ordered(h, AnswersIn(t), a, q, n)
          BY <2>2, <3>1, OrderedIs
    <3>3. heard' = heard => OrderOf(c)'
          BY <1>2, <2>2, <2>5, <3>2 DEF OrderOf
    <3>. QED BY <3>1, <3>3
  <2>6. ASSUME NEW part \in Found(down[c], 2), down' = [down EXCEPT ![c] = Left(@, part)]
        PROVE  /\ down'[c] \in Seq(Unit) /\ Len(part) \in 1 .. 2 /\ Len(part) <= Len(s)
               /\ Len(down'[c]) = Len(s) - Len(part) /\ part \in Seq(Unit)
               /\ \A i \in 1 .. Len(s) - Len(part) : down'[c][i] = s[i + Len(part)]
               /\ \A i \in 1 .. Len(part) : part[i] = s[i]
    <3>1. part \in Found(s, 2) /\ 2 \in Nat /\ down'[c] = Left(s, part)
          BY <2>1, <2>6 DEF Types, StreamTypes
    <3>2. /\ part \in Seq(Unit) /\ Len(part) \in 1 .. 2 /\ Len(part) <= Len(s)
          /\ \A i \in 1 .. Len(part) : part[i] = s[i]
          /\ Left(s, part) \in Seq(Unit) /\ Len(Left(s, part)) = Len(s) - Len(part)
          /\ \A i \in 1 .. Len(s) - Len(part) : Left(s, part)[i] = s[i + Len(part)]
      <4>1. \A n1 \in Nat : \A x \in Found(s, n1) :
              /\ x \in Seq(Unit) /\ Len(x) \in 1 .. n1 /\ Len(x) <= Len(s)
              /\ \A i \in 1 .. Len(x) : x[i] = s[i]
              /\ Left(s, x) \in Seq(Unit) /\ Len(Left(s, x)) = Len(s) - Len(x)
              /\ \A i \in 1 .. Len(s) - Len(x) : Left(s, x)[i] = s[i + Len(x)]
            BY FoundIs
      <4>. QED BY <3>1, <4>1
    <3>. QED BY <3>1, <3>2
  <2>7. CASE /\ call[c] = "up" /\ heard' = heard
             /\ \E part \in Found(down[c], 2) :
                  call' = [call EXCEPT ![c] = AfterLength(part)] /\ down' = [down EXCEPT ![c] = Left(@, part)]
    <3>1. PICK part \in Found(down[c], 2) :
                  call' = [call EXCEPT ![c] = AfterLength(part)] /\ down' = [down EXCEPT ![c] = Left(@, part)]
          BY <2>7
    <3>2. PICK k \in 1 .. 2, t \in Seq(Unit) : k = Len(part) /\ t = down'[c]
          BY <2>6, <3>1
    <3>3. k <= Len(s) /\ Len(t) = Len(s) - k /\ \A i \in 1 .. Len(s) - k : t[i] = s[i + k]
          BY <2>6, <3>1, <3>2
    <3>4. s # <<>> /\ IsChain(t) /\ (s[1][3] + k <= 4 => t # <<>> /\ t[1][3] = s[1][3] + k) /\ OrderOf(c)'
          BY <2>5, <2>7, <3>2, <3>3
    <3>5. s[1][3] = 1
          BY <2>4, <2>7, <3>4 DEF HadTaken
    <3>6. call'[c] = IF k = 1 THEN "len" ELSE "body"
          BY <3>1, <3>2 DEF AfterLength, Types, CallTypes
    <3>7. HadTaken(c)' = k
          BY <3>2, <3>6 DEF HadTaken
    <3>8. t # <<>> /\ t[1][3] = k + 1
          BY <3>4, <3>5
    <3>. QED BY <2>3, <2>7, <3>2, <3>4, <3>7, <3>8 DEF AnswersOf, HeardOf, ListensTo
  <2>8. CASE /\ call[c] = "len" /\ down[c] # <<>> /\ heard' = heard
             /\ call' = [call EXCEPT ![c] = "body"] /\ down' = [down EXCEPT ![c] = Tail(@)]
    <3>1. PICK t \in Seq(Unit) : /\ t = down'[c] /\ 1 <= Len(s) /\ Len(t) = Len(s) - 1
                                 /\ \A i \in 1 .. Len(s) - 1 : t[i] = s[i + 1]
      <4>1. s # <<>> /\ down'[c] = Tail(s)
            BY <2>1, <2>8 DEF Types, StreamTypes
      <4>2. /\ Tail(s) \in Seq(Unit) /\ Len(Tail(s)) = Len(s) - 1 /\ Len(s) \in Nat \ {0}
            /\ \A i \in 1 .. Len(s) - 1 : Tail(s)[i] = s[i + 1]
            BY <4>1, HeadTailIs
      <4>3. 1 <= Len(s)
            BY <4>2
      <4>. QED BY <4>1, <4>2, <4>3
    <3>2. 1 \in 1 .. 2
          OBVIOUS
    <3>3. s # <<>> /\ IsChain(t) /\ (s[1][3] + 1 <= 4 => t # <<>> /\ t[1][3] = s[1][3] + 1) /\ OrderOf(c)'
          BY <2>5, <2>8, <3>1, <3>2
    <3>4. s[1][3] = 2
          BY <2>4, <2>8, <3>3 DEF HadTaken
    <3>5. HadTaken(c)' = 2
          BY <2>8 DEF HadTaken, Types, CallTypes
    <3>. QED BY <2>3, <2>8, <3>1, <3>3, <3>4, <3>5 DEF AnswersOf, HeardOf, ListensTo
  <2>9. CASE /\ call[c] = "body"
             /\ \E part \in Found(down[c], 2) :
                  /\ call' = [call EXCEPT ![c] = IF Len(part) = 2 THEN "up" ELSE "gone"]
                  /\ heard' = [heard EXCEPT ![c] = IF Len(part) = 2 THEN Append(@, part) ELSE @]
                  /\ down' = [down EXCEPT ![c] = Left(@, part)]
    <3>1. PICK part \in Found(down[c], 2) :
                  /\ call' = [call EXCEPT ![c] = IF Len(part) = 2 THEN "up" ELSE "gone"]
                  /\ heard' = [heard EXCEPT ![c] = IF Len(part) = 2 THEN Append(@, part) ELSE @]
                  /\ down' = [down EXCEPT ![c] = Left(@, part)]
          BY <2>9
    <3>2. PICK k \in 1 .. 2, t \in Seq(Unit) : k = Len(part) /\ t = down'[c]
          BY <2>6, <3>1
    <3>3. /\ k <= Len(s) /\ Len(t) = Len(s) - k /\ \A i \in 1 .. Len(s) - k : t[i] = s[i + k]
          /\ part \in Seq(Unit) /\ \A i \in 1 .. k : part[i] = s[i]
          BY <2>6, <3>1, <3>2
    <3>4. /\ s # <<>> /\ IsChain(t) /\ AnswersIn(t) \in SUBSET d
          /\ s[1][3] = 3 /\ k = 2 => /\ t # <<>> => t[1][3] = 1
                                     /\ s[2] = <<"answer", s[1][2], 4>>
                                     /\ \A x \in AnswersIn(t) : s[1][2] < x
          /\ heard' = heard => OrderOf(c)'
          BY <2>5, <3>2, <3>3
    <3>5. s[1][3] = 3
          BY <2>4, <2>9, <3>4 DEF HadTaken
    <3>6. CASE k = 1
      <4>1. heard' = heard /\ call'[c] = "gone"
            BY <3>1, <3>2, <3>6 DEF Types, CallTypes
      <4>. QED BY <2>3, <3>2, <3>4, <4>1 DEF AnswersOf, HeardOf
    <3>7. CASE k = 2
      <4>1. PICK m \in Nat : m = s[1][2]
            BY <2>3, <3>4, ChainBegins
      <4>2. s[1] = <<"answer", m, 3>> /\ m \in d
            BY <2>2, <2>3, <3>4, <3>5, <4>1, ChainBegins
      <4>3. part = WholeOf("answer", m)
        <5>1. part[1] = <<"answer", m, 3>> /\ part[2] = <<"answer", m, 4>>
          <6>1. 1 \in 1 .. k /\ 2 \in 1 .. k
                BY <3>7
          <6>. QED BY <3>3, <3>4, <3>5, <3>7, <4>1, <4>2, <6>1
        <5>. QED BY <3>2, <3>3, <3>7, <5>1, WholeIs
      <4>4. call'[c] = "up" /\ heard'[c] = Append(heard[c], WholeOf("answer", m))
            BY <3>1, <3>2, <3>7, <4>3 DEF Types, CallTypes
      <4>5. /\ Numbers(heard'[c]) = Append(h, m)
            /\ \A i \in 1 .. Len(heard'[c]) : heard'[c][i] \in {heard[c][j] : j \in 1 .. Len(heard[c])} \cup {WholeOf("answer", m)}
        <5>1. "answer" \in {"ask", "answer"} /\ \A i \in 1 .. Len(heard[c]) : \E j \in Nat : heard[c][i] = WholeOf("answer", j)
              BY <2>3 DEF HeardOf
        <5>. DEFINE r == heard[c]
        <5>2. r \in Messages /\ \A i \in 1 .. Len(r) : \E j \in Nat : r[i] = WholeOf("answer", j)
              BY <2>3, <5>1
        <5>. HIDE DEF r
        <5>3. /\ Numbers(Append(r, WholeOf("answer", m))) = Append(Numbers(r), m)
              /\ \A i \in 1 .. Len(Append(r, WholeOf("answer", m))) :
                   Append(r, WholeOf("answer", m))[i] \in {r[j] : j \in 1 .. Len(r)} \cup {WholeOf("answer", m)}
              BY <5>1, <5>2, WholesAre
        <5>. QED BY <2>2, <4>4, <5>3 DEF r
      <4>6. HeardOf(c)'
            BY <2>3, <4>5 DEF HeardOf
      <4>7. Ordered(Append(h, m), AnswersIn(t), a, q, n)
            BY <2>2, <3>4, <3>5, <3>7, <4>1, <4>2, OrderedIs
      <4>8. OrderOf(c)'
            BY <1>2, <2>2, <3>2, <4>5, <4>7 DEF OrderOf
      <4>9. ListensTo(c)'
        <5>1. HadTaken(c)' = 0
              BY <4>4 DEF HadTaken
        <5>. QED BY <3>2, <3>4, <3>5, <3>7, <5>1 DEF ListensTo
      <4>. QED BY <3>2, <3>4, <4>6, <4>8, <4>9 DEF AnswersOf
    <3>. QED BY <3>6, <3>7
  <2>10. CASE call' = [call EXCEPT ![c] = "gone"] /\ UNCHANGED <<heard, down>>
    <3>1. call'[c] = "gone"
          BY <2>10 DEF Types, CallTypes
    <3>. QED BY <1>1, <1>2, <2>10, <3>1, AnswersStay
  <2>. QED BY <1>4, <2>7, <2>8, <2>9, <2>10 DEF Listen
<1>. QED BY <1>3, <1>4

\* A step of the others.
LEMMA AnswersNext ==
  Types /\ LooksAt /\ PlacesInv /\ StreamInv /\ ServerWhole /\ AnswersInv /\ [TunnelNext]_tunnelVars => AnswersInv'
<1>. SUFFICES ASSUME Types, LooksAt, PlacesInv, StreamInv, ServerWhole, AnswersInv, [TunnelNext]_tunnelVars,
                     NEW c \in Callers
              PROVE  AnswersOf(c)'
     BY DEF AnswersInv
<1>1. AnswersOf(c)
      BY DEF AnswersInv
<1>2. CASE \/ UNCHANGED tunnelVars \/ SelectReturns \/ Accept \/ AcceptDone \/ ReadAddress \/ FromServerDone
           \/ RoundDone \/ AcceptFails \/ ServerFails
  <2>1. UNCHANGED <<call, heard, down, answers, server, served>>
    <3>1. CASE UNCHANGED tunnelVars \/ SelectReturns \/ Accept \/ AcceptDone
          BY <3>1 DEF tunnelVars, callVars, netVars, SelectReturns, Accept, AcceptDone
    <3>2. CASE ReadAddress
          BY <3>2 DEF callVars, ReadAddress
    <3>3. CASE FromServerDone \/ RoundDone \/ AcceptFails \/ ServerFails
          BY <3>3 DEF callVars, netVars, FromServerDone, RoundDone, AcceptFails, ServerFails
    <3>. QED BY <1>2, <3>1, <3>2, <3>3
  <2>. QED BY <1>1, <2>1, AnswersStay
<1>3. CASE FromServer
      BY <1>3, FromServerAnswers
<1>4. CASE FromCaller \/ FromCallerNot \/ SecondUnit
      BY <1>4, DropAnswers
<1>5. CASE Contents
      BY <1>5, ContentsAnswers
<1>6. ASSUME NEW b \in Callers, Serve(b) PROVE AnswersOf(c)'
      BY <1>6, ServeAnswers
<1>7. ASSUME NEW b \in Callers, Listen(b) PROVE AnswersOf(c)'
      BY <1>7, ListenAnswers
<1>8. ASSUME NEW b \in Callers, Connect(b) \/ Ask(b) \/ HangUp(b) PROVE AnswersOf(c)'
  <2>1. UNCHANGED <<heard, down, answers, server, served>>
        BY <1>8 DEF Connect, Ask, HangUp, netVars
  <2>2. \/ call' = call \/ call' = [call EXCEPT ![b] = "gone"]
        \/ call[b] = "no" /\ call' = [call EXCEPT ![b] = "up"]
        BY <1>8 DEF Connect, Ask, HangUp
  <2>3. call'[c] = "gone" \/ call'[c] = call[c] \/ (call[c] = "no" /\ call'[c] = "up")
        BY <2>2 DEF Types, CallTypes
  <2>. QED BY <1>1, <2>1, <2>3, AnswersStay
<1>. QED BY <1>2, <1>3, <1>4, <1>5, <1>6, <1>7, <1>8, NextIs

\* What is on the way to a server is what was passed on.
LEMMA ServerWholeNext ==
  Types /\ LooksAt /\ PlacesInv /\ StreamInv /\ ServerWhole /\ [TunnelNext]_tunnelVars => ServerWhole'
<1>. SUFFICES ASSUME Types, LooksAt, PlacesInv, StreamInv, ServerWhole, [TunnelNext]_tunnelVars PROVE ServerWhole'
     OBVIOUS
<1>. DEFINE Whole(s) == \A i \in DOMAIN s : \E k \in Nat \ {0} : s[i] = WholeOf("ask", k)
<1>1. \A c \in Callers : server[c] \in Messages /\ DOMAIN server[c] = 1 .. Len(server[c]) /\ Whole(server[c])
      BY LenProperties DEF Types, ServerTypes, Messages, ServerWhole
<1>2. ASSUME NEW c \in Callers, NEW s \in Messages, server' = [server EXCEPT ![c] = s],
             \A i \in 1 .. Len(s) : s[i] \in {server[c][j] : j \in 1 .. Len(server[c])}
                                             \cup {WholeOf("ask", k) : k \in Nat \ {0}}
      PROVE  ServerWhole'
  <2>1. DOMAIN s = 1 .. Len(s)
        BY LenProperties DEF Messages
  <2>2. Whole(s)
    <3>1. \A j \in 1 .. Len(server[c]) : \E k \in Nat \ {0} : server[c][j] = WholeOf("ask", k)
          BY <1>1
    <3>. QED BY <1>2, <2>1, <3>1
  <2>3. \A b \in Callers : server'[b] = IF b = c THEN s ELSE server[b]
        BY <1>2 DEF Types, ServerTypes
  <2>4. \A b \in Callers : Whole(server'[b])
        BY <1>1, <2>2, <2>3
  <2>. QED BY <2>4 DEF ServerWhole
<1>3. ASSUME NEW c \in Callers, NEW k \in Nat \ {0}
      PROVE  /\ Append(server[c], WholeOf("ask", k)) \in Messages
             /\ \A i \in 1 .. Len(Append(server[c], WholeOf("ask", k))) :
                  Append(server[c], WholeOf("ask", k))[i] \in {server[c][j] : j \in 1 .. Len(server[c])}
                                                              \cup {WholeOf("ask", m) : m \in Nat \ {0}}
             /\ server[c] # <<>> => /\ Tail(server[c]) \in Messages
                                    /\ \A i \in 1 .. Len(Tail(server[c])) :
                                         Tail(server[c])[i] \in {server[c][j] : j \in 1 .. Len(server[c])}
  <2>. DEFINE r == server[c]
  <2>1. /\ r \in Messages /\ "ask" \in {"ask", "answer"} /\ k \in Nat
        /\ \A i \in 1 .. Len(r) : \E m \in Nat : r[i] = WholeOf("ask", m)
        BY <1>1
  <2>. HIDE DEF r
  <2>2. /\ Append(r, WholeOf("ask", k)) \in Messages
        /\ \A i \in 1 .. Len(Append(r, WholeOf("ask", k))) :
             Append(r, WholeOf("ask", k))[i] \in {r[j] : j \in 1 .. Len(r)} \cup {WholeOf("ask", k)}
        /\ r # <<>> => /\ Tail(r) \in Messages
                       /\ \A i \in 1 .. Len(Tail(r)) : Tail(r)[i] \in {r[j] : j \in 1 .. Len(r)}
        BY <2>1, WholesAre
  <2>. QED BY <2>2 DEF r
<1>4. CASE server' = server
      BY <1>4 DEF ServerWhole
<1>5. ASSUME NEW c \in Callers, Serve(c) PROVE ServerWhole'
  <2>1. server[c] # <<>> /\ server' = [server EXCEPT ![c] = Tail(server[c])]
        BY <1>5 DEF Serve
  <2>2. PICK s \in Messages : /\ s = Tail(server[c])
                              /\ \A i \in 1 .. Len(s) : s[i] \in {server[c][j] : j \in 1 .. Len(server[c])}
    <3>1. 1 \in Nat \ {0}
          OBVIOUS
    <3>. QED BY <1>3, <2>1, <3>1
  <2>. QED BY <1>2, <2>1, <2>2
<1>6. CASE Contents
  <2>1. PICK l \in Callers : l = Link
        BY <1>6, LinkIs DEF Contents, LooksAt
  <2>2. server' = server \/ \E k \in Nat \ {0} : server' = [server EXCEPT ![l] = Append(@, WholeOf("ask", k))]
        BY <1>6, <2>1, ContentsDoes
  <2>3. ASSUME NEW k \in Nat \ {0}, server' = [server EXCEPT ![l] = Append(@, WholeOf("ask", k))] PROVE ServerWhole'
    <3>1. PICK s \in Messages : /\ s = Append(server[l], WholeOf("ask", k))
                                /\ \A i \in 1 .. Len(s) : s[i] \in {server[l][j] : j \in 1 .. Len(server[l])}
                                                                   \cup {WholeOf("ask", m) : m \in Nat \ {0}}
          BY <1>3
    <3>. QED BY <1>2, <2>3, <3>1
  <2>. QED BY <1>4, <2>2, <2>3
<1>7. CASE \/ UNCHANGED tunnelVars \/ SelectReturns \/ Accept \/ AcceptDone \/ ReadAddress \/ FromServer
           \/ FromServerDone \/ FromCaller \/ FromCallerNot \/ SecondUnit \/ RoundDone \/ AcceptFails \/ ServerFails
  <2>1. server' = server
        BY <1>7 DEF tunnelVars, netVars, SelectReturns, Accept, AcceptDone, ReadAddress, FromServer, FromServerDone,
           FromCaller, FromCallerNot, SecondUnit, RoundDone, AcceptFails, ServerFails
  <2>. QED BY <1>4, <2>1
<1>8. CASE \E c \in Callers : Connect(c) \/ Ask(c) \/ HangUp(c) \/ Listen(c)
  <2>1. server' = server
        BY <1>8 DEF netVars, Connect, Ask, HangUp, Listen
  <2>. QED BY <1>4, <2>1
<1>. QED BY <1>5, <1>6, <1>7, <1>8, NextIs

-----------------------------------------------------------------------------
(* The tunnel is transparent.                                              *)

Tunnel == Types /\ LooksAt /\ PlacesInv /\ UnsentInv /\ StreamInv /\ ServedInv /\ ServerWhole /\ AnswersInv

\* It holds when nothing has been sent, ...
LEMMA TunnelBegins == TunnelInit => Tunnel
<1>. SUFFICES ASSUME TunnelInit PROVE Tunnel
     OBVIOUS
<1>1. Types /\ LooksAt /\ PlacesInv /\ ServerWhole
      BY TypesInit
<1>2. UnsentInv
      BY DEF TunnelInit, UnsentInv
<1>3. StreamInv
  <2>1. On = {}
        BY EmptyIs DEF TunnelInit, On, Waiting, Coming, Joined
  <2>. QED BY <2>1 DEF StreamInv
<1>4. ServedInv
      BY EmptyIs DEF TunnelInit, ServedInv
<1>5. ASSUME NEW c \in Callers PROVE AnswersOf(c)
  <2>1. heard[c] = <<>> /\ down[c] = <<>> /\ answers[c] = <<>> /\ server[c] = <<>> /\ served[c] = <<>>
        /\ call[c] \in {"no", "gone"}
        BY DEF TunnelInit
  <2>2. Numbers(<<>>) = <<>> /\ AnswersIn(<<>>) = {} /\ IsChain(<<>>)
        BY DEF Numbers, AnswersIn, IsChain
  <2>3. Ordered(<<>>, {}, <<>>, <<>>, 0)
        BY EmptyIs DEF Ordered, Rising, Below
  <2>4. HeardOf(c) /\ ListensTo(c)
        BY <2>1 DEF HeardOf, ListensTo, HadTaken
  <2>5. OrderOf(c)
        BY <2>1, <2>2, <2>3, EmptyIs DEF OrderOf
  <2>. QED BY <2>1, <2>2, <2>4, <2>5 DEF AnswersOf
<1>6. AnswersInv
      BY <1>5 DEF AnswersInv
<1>. QED BY <1>1, <1>2, <1>3, <1>4, <1>6 DEF Tunnel

\* ... and every step keeps it.
LEMMA TunnelStep == Tunnel /\ [TunnelNext]_tunnelVars => Tunnel'
<1>. SUFFICES ASSUME Types, LooksAt, PlacesInv, UnsentInv, StreamInv, ServedInv, ServerWhole, AnswersInv,
                     [TunnelNext]_tunnelVars
              PROVE  Tunnel'
     BY DEF Tunnel
<1>1. Types' /\ LooksAt'
      BY TypesNext
<1>2. PlacesInv'
      BY PlacesNext
<1>3. UnsentInv'
      BY UnsentNext
<1>4. StreamInv'
      BY <1>1, StreamNext
<1>5. ServedInv'
      BY ServedNext
<1>6. ServerWhole' /\ AnswersInv'
      BY ServerWholeNext, AnswersNext
<1>. QED BY <1>1, <1>2, <1>3, <1>4, <1>5, <1>6 DEF Tunnel

\* What was heard is the answers to some of the messages, with rising numbers.
LEMMA TunnelMeans == Tunnel => TunnelIsTransparent
<1>. SUFFICES ASSUME Tunnel, NEW c \in Callers
              PROVE  /\ served[c] = [k \in DOMAIN served[c] |-> WholeOf("ask", k)]
                     /\ \A i \in DOMAIN heard[c] : \E k \in DOMAIN served[c] : heard[c][i] = WholeOf("answer", k)
                     /\ \A i, j \in DOMAIN heard[c] : i # j => heard[c][i] # heard[c][j]
     BY DEF TunnelIsTransparent
<1>1. /\ served[c] \in Messages /\ heard[c] \in Messages
      /\ Len(served[c]) \in Nat /\ DOMAIN served[c] = 1 .. Len(served[c])
      /\ Len(heard[c]) \in Nat /\ DOMAIN heard[c] = 1 .. Len(heard[c])
      BY LenProperties DEF Tunnel, Types, CallTypes, ServerTypes, Messages
<1>2. served[c] = [k \in DOMAIN served[c] |-> WholeOf("ask", k)]
  <2>1. served[c] = [k \in DOMAIN served[c] |-> served[c][k]]
    <3>1. served[c] \in [1 .. Len(served[c]) -> Seq(Unit)]
          BY <1>1, LenProperties DEF Messages
    <3>. QED BY <3>1
  <2>2. \A k \in DOMAIN served[c] : served[c][k] = WholeOf("ask", k)
        BY DEF Tunnel, ServedInv
  <2>. QED BY <2>1, <2>2
<1>3. AnswersOf(c)
      BY DEF Tunnel, AnswersInv
<1>. DEFINE h == Numbers(heard[c])
<1>4. /\ h \in Seq(Nat) /\ Len(h) = Len(heard[c])
      /\ \A i \in 1 .. Len(heard[c]) : h[i] \in Nat /\ heard[c][i] = WholeOf("answer", h[i])
  <2>1. "answer" \in {"ask", "answer"} /\ \A i \in 1 .. Len(heard[c]) : \E k \in Nat : heard[c][i] = WholeOf("answer", k)
        BY <1>3 DEF AnswersOf, HeardOf
  <2>. QED BY <1>1, <2>1, WholesAre
<1>5. Rising(h) /\ Range(h) \subseteq 1 .. Len(served[c])
      BY <1>3 DEF AnswersOf, OrderOf, Ordered
<1>. HIDE DEF h
<1>6. ASSUME NEW i \in DOMAIN heard[c] PROVE \E k \in DOMAIN served[c] : heard[c][i] = WholeOf("answer", k)
  <2>1. i \in 1 .. Len(h)
        BY <1>1, <1>4
  <2>2. h[i] \in Range(h)
        BY <1>4, <2>1, RangeIs
  <2>. QED BY <1>1, <1>4, <1>5, <2>2
<1>7. ASSUME NEW i \in DOMAIN heard[c], NEW j \in DOMAIN heard[c], i # j PROVE heard[c][i] # heard[c][j]
  <2>1. i \in 1 .. Len(h) /\ j \in 1 .. Len(h) /\ h[i] \in Nat /\ h[j] \in Nat
        BY <1>1, <1>4
  <2>2. i < j \/ j < i
        BY <1>1, <1>7
  <2>3. h[i] # h[j]
    <3>1. i < j => h[i] < h[j]
          BY <1>5, <2>1 DEF Rising
    <3>2. j < i => h[j] < h[i]
          BY <1>5, <2>1 DEF Rising
    <3>. QED BY <2>1, <2>2, <3>1, <3>2
  <2>4. \A m \in Nat : WholeOf("answer", m)[1] = <<"answer", m, 3>>
        BY WholeIs
  <2>5. heard[c][i][1] = <<"answer", h[i], 3>> /\ heard[c][j][1] = <<"answer", h[j], 3>>
        BY <1>1, <1>4, <1>7, <2>1, <2>4
  <2>. QED BY <2>3, <2>5
<1>. QED BY <1>2, <1>6, <1>7

\* transport/tunnel.c and eb-tunnel together: whatever recv finds of a stream,
\* whoever is killed and whatever fails, a server is sent its own caller's
\* messages, whole, each once and in order, and a caller is given answers to
\* some of them, none twice.
THEOREM TunnelStaysTransparent == TunnelSpec => []TunnelIsTransparent
<1>1. TunnelInit => Tunnel
      BY TunnelBegins
<1>2. Tunnel /\ [TunnelNext]_tunnelVars => Tunnel'
      BY TunnelStep
<1>3. Tunnel => TunnelIsTransparent
      BY TunnelMeans
<1>. QED BY <1>1, <1>2, <1>3, PTL DEF TunnelSpec
=============================================================================
