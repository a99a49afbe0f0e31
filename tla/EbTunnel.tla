------------------------------ MODULE EbTunnel ------------------------------
(***************************************************************************)
(* The tunnel transport (transport/tunnel.c) and its proxy (eb-tunnel):    *)
(* messages go over a TCP connection, each after its length in two bytes,  *)
(* and the proxy sends them on as datagrams, from a socket for each        *)
(* caller.  The caller begins with the address of the server it wants.     *)
(*                                                                         *)
(* A connection is a stream of units, which the network delivers as it     *)
(* likes, so what recv finds is any part of what is on the way.  A message *)
(* is two units of length and two of contents.  All servers answer each    *)
(* message once.                                                           *)
(***************************************************************************)
EXTENDS Integers, Sequences, FiniteSets, SequencesExt

CONSTANTS
  Callers,      (* Programs that open a tunnel device.                     *)
  AddrLen(_),   (* Caller -> units of its server's address, the zero too.  *)
  AddrRoom,     (* The units there is room for in the proxy.               *)
  MaxAsks(_),   (* Bound: caller -> messages that it sends.                *)
  MaxBreaks     (* Bound: callers killed, calls that fail, frames lost.    *)

ASSUME TunnelAssumption ==
  /\ \A c \in Callers : AddrLen(c) \in Nat \ {0}
  /\ \A c \in Callers : MaxAsks(c) \in Nat
  /\ {AddrRoom, MaxBreaks} \subseteq Nat

VARIABLES
  call,      (* Caller -> "no", "up", "len", "body" or "gone".             *)
  asked,     (* Caller -> how many messages it has sent.                   *)
  heard,     (* Caller -> the messages it was given.                       *)
  up, down,  (* Caller -> the units on the way to the proxy, and from it.  *)
  backlog,   (* Connections to be accepted.                                *)
  proxy,     (* [pc, ready, links, at, from, got, fail]: where it is, what *)
             (* select has told, the clients it has (without the spare     *)
             (* one at the head), the one it looks at, units it has read.  *)
  held,      (* What it has open: <<"tcp" or "udp", caller>>.              *)
  server,    (* Caller -> messages on the way to its server; ...           *)
  answers,   (* ... and datagrams that wait in the proxy's socket for it.  *)
  served,    (* History: caller -> datagrams sent to its server.           *)
  upset,     (* History: whose connection the proxy has shut for a cause.  *)
  breaks

callVars == <<call, asked, heard>>
netVars == <<up, down, backlog, server, answers>>
tunnelVars == <<callVars, netVars, proxy, held, served, upset, breaks>>

\* recv with room for n: what it may find, and what is left then.
Found(s, n) == {SubSeq(s, 1, k) : k \in {j \in 1 .. n : j <= Len(s)}}
Left(s, part) == SubSeq(s, Len(part) + 1, Len(s))

\* tunnel.c's and eb-tunnel's way to send: the length, then the contents.
\* A unit: what it is part of, which of them, and its place there.
Units(what, m) == [i \in 1 .. 4 |-> <<what, m, i>>]
LengthOf(two) == IF Len(two) = 2 THEN 2 ELSE 1
Address(c) == [i \in 1 .. AddrLen(c) |-> <<"address", 1, IF i = AddrLen(c) THEN 0 ELSE i>>]

\* Some programs may never come.
TunnelInit ==
  /\ call \in [Callers -> {"no", "gone"}] /\ asked = [c \in Callers |-> 0] /\ heard = [c \in Callers |-> <<>>]
  /\ up = [c \in Callers |-> <<>>] /\ down = [c \in Callers |-> <<>>]
  /\ backlog = <<>> /\ held = {}
  /\ proxy = [pc |-> "select", ready |-> {}, links |-> <<>>, at |-> 1, from |-> <<>>, got |-> <<>>, fail |-> FALSE]
  /\ server = [c \in Callers |-> <<>>] /\ answers = [c \in Callers |-> <<>>] /\ served = [c \in Callers |-> <<>>]
  /\ upset = {} /\ breaks = 0

Break == breaks < MaxBreaks /\ breaks' = breaks + 1

-----------------------------------------------------------------------------
(* The servers and the network to them (external).                        *)

Serve(c) ==
  /\ server[c] # <<>> /\ server' = [server EXCEPT ![c] = Tail(@)]
  /\ \/ /\ answers' = [answers EXCEPT ![c] = IF <<"udp", c>> \in held THEN Append(@, Head(server[c])[1][2]) ELSE @]
        /\ UNCHANGED breaks
     \/ UNCHANGED answers /\ Break
  /\ UNCHANGED <<callVars, up, down, backlog, proxy, held, served, upset>>

\* Nothing is left to be read from a caller, and nothing will come; the proxy
\* has shut its connection, or is no more.
Ended(c) == call[c] = "gone" /\ up[c] = <<>>
Shut(c) == proxy.pc = "dead" \/ (<<"tcp", c>> \notin held /\ c \notin Range(backlog))

-----------------------------------------------------------------------------
(* transport/tunnel.c                                                      *)

\* eb_tunnel_connect, and a caller that is killed before it sends all of it.
Connect(c) ==
  /\ call[c] = "no" /\ proxy.pc # "dead"
  /\ \/ up' = [up EXCEPT ![c] = Address(c)] /\ call' = [call EXCEPT ![c] = "up"] /\ UNCHANGED breaks
     \/ up' = up /\ call' = [call EXCEPT ![c] = "gone"] /\ Break
  /\ backlog' = Append(backlog, c)
  /\ UNCHANGED <<asked, heard, down, proxy, held, server, answers, served, upset>>

\* eb_tunnel_send
Ask(c) ==
  /\ call[c] = "up" /\ asked[c] < MaxAsks(c)
  /\ asked' = [asked EXCEPT ![c] = @ + 1]
  /\ \/ up' = [up EXCEPT ![c] = @ \o Units("ask", asked'[c])] /\ UNCHANGED <<call, breaks>>
     \/ /\ \E n \in 1 .. 3 : up' = [up EXCEPT ![c] = @ \o SubSeq(Units("ask", asked'[c]), 1, n)]
        /\ call' = [call EXCEPT ![c] = "gone"] /\ Break
  /\ UNCHANGED <<heard, down, backlog, proxy, held, server, answers, served, upset>>

\* eb_tunnel_disconnect, or the end of the program.
HangUp(c) ==
  /\ call[c] \in {"up", "len", "body"} /\ asked[c] = MaxAsks(c)
  /\ call' = [call EXCEPT ![c] = "gone"]
  /\ UNCHANGED <<asked, heard, netVars, proxy, held, served, upset, breaks>>

\* eb_tunnel_poll: the length, which may come in two parts, and the contents,
\* which may not.
AfterLength(part) == IF Len(part) = 1 THEN "len" ELSE "body"
Listen(c) ==
  /\ \/ /\ call[c] = "up"
        /\ \E part \in Found(down[c], 2) :
             /\ call' = [call EXCEPT ![c] = AfterLength(part)]
             /\ down' = [down EXCEPT ![c] = Left(@, part)]
        /\ UNCHANGED heard
     \/ /\ call[c] = "len" /\ down[c] # <<>>
        /\ call' = [call EXCEPT ![c] = "body"] /\ down' = [down EXCEPT ![c] = Tail(@)] /\ UNCHANGED heard
     \/ /\ call[c] = "body"
        /\ \E part \in Found(down[c], 2) :
             /\ call' = [call EXCEPT ![c] = IF Len(part) = 2 THEN "up" ELSE "gone"]
             /\ heard' = [heard EXCEPT ![c] = IF Len(part) = 2 THEN Append(@, part) ELSE @]
             /\ down' = [down EXCEPT ![c] = Left(@, part)]
     \/ /\ call[c] \in {"up", "len", "body"} /\ Shut(c) /\ down[c] = <<>>
        /\ call' = [call EXCEPT ![c] = "gone"] /\ UNCHANGED <<heard, down>>
  /\ UNCHANGED <<asked, up, backlog, server, answers, proxy, held, served, upset, breaks>>

-----------------------------------------------------------------------------
(* eb-tunnel                                                               *)

At(place) == [proxy EXCEPT !.pc = place]
Link == proxy.links[proxy.at]

\* select tells of some of what there is to be told.
Readable ==
  (IF backlog # <<>> THEN {<<"listen">>} ELSE {})
  \cup {<<"tcp", c>> : c \in {l \in Range(proxy.links) : up[l] # <<>> \/ Ended(l)}}
  \cup {<<"udp", c>> : c \in {l \in Range(proxy.links) : answers[l] # <<>>}}
SelectReturns ==
  /\ proxy.pc = "select"
  /\ \E ready \in SUBSET Readable : ready # {} /\ proxy' = [At("accept") EXCEPT !.ready = ready]
  /\ UNCHANGED <<callVars, netVars, held, served, upset, breaks>>

\* The accepted connection is the spare client's; a new spare is allocated,
\* and the address read, before anything else is looked at.
Accept ==
  /\ proxy.pc = "accept" /\ <<"listen">> \in proxy.ready /\ backlog # <<>>
  /\ backlog' = Tail(backlog)
  /\ \/ /\ proxy' = [At("address") EXCEPT !.from = <<Head(backlog)>>, !.got = <<>>]
        /\ held' = held \cup {<<"tcp", Head(backlog)>>} /\ UNCHANGED <<upset, breaks>>
     \/ UNCHANGED <<proxy, held>> /\ upset' = upset \cup {Head(backlog)} /\ Break
  /\ UNCHANGED <<callVars, up, down, server, answers, served>>

AcceptFails ==
  /\ proxy.pc = "accept" /\ <<"listen">> \in proxy.ready /\ Break
  /\ proxy' = At("dead")
  /\ UNCHANGED <<callVars, netVars, held, served, upset>>

AcceptDone ==
  /\ proxy.pc = "accept" /\ (<<"listen">> \in proxy.ready => backlog = <<>>)
  /\ proxy' = [At("udp") EXCEPT !.at = 1]
  /\ UNCHANGED <<callVars, netVars, held, served, upset, breaks>>

New == Head(proxy.from)
Join ==
  /\ proxy' = [At("accept") EXCEPT !.links = <<New>> \o @, !.from = <<>>]
  /\ held' = held \cup {<<"udp", New>>} /\ UNCHANGED <<upset, breaks>>
Refuse ==
  /\ proxy' = [At("accept") EXCEPT !.from = <<>>]
  /\ held' = held \ {<<"tcp", New>>} /\ upset' = upset \cup {New}

\* A unit at a time, until the zero, or until there is no more room.  When the
\* connection ends, what is looked at is whatever the stack held.
ReadAddress ==
  /\ proxy.pc = "address"
  /\ \/ /\ up[New] # <<>> /\ up' = [up EXCEPT ![New] = Tail(@)]
        /\ CASE Head(up[New])[3] = 0 -> Join \/ (Refuse /\ Break)
             [] Head(up[New])[3] # 0 /\ Len(proxy.got) + 1 = AddrRoom -> Refuse /\ UNCHANGED breaks
             [] OTHER -> proxy' = [proxy EXCEPT !.got = Append(@, Head(up[New]))] /\ UNCHANGED <<held, upset, breaks>>
     \/ Ended(New) /\ UNCHANGED up /\ (Join \/ (Refuse /\ UNCHANGED breaks))
  /\ UNCHANGED <<callVars, down, backlog, server, answers, served>>

\* Datagrams of the server become messages.  Sending to a connection that was
\* reset ends the program (SIGPIPE).
Reset(c) == call[c] = "gone" /\ down[c] # <<>>
FromServer ==
  /\ proxy.pc = "udp" /\ proxy.at <= Len(proxy.links)
  /\ <<"udp", Link>> \in proxy.ready /\ answers[Link] # <<>>
  /\ answers' = [answers EXCEPT ![Link] = Tail(@)]
  /\ \/ down' = [down EXCEPT ![Link] = @ \o Units("answer", Head(answers[Link]))] /\ UNCHANGED proxy
     \/ Reset(Link) /\ proxy' = At("dead") /\ UNCHANGED down
  /\ UNCHANGED <<callVars, up, backlog, server, held, served, upset, breaks>>

FromServerDone ==
  /\ proxy.pc = "udp" /\ proxy.at <= Len(proxy.links)
  /\ <<"udp", Link>> \in proxy.ready => answers[Link] = <<>>
  /\ proxy' = At("tcp")
  /\ UNCHANGED <<callVars, netVars, held, served, upset, breaks>>

NextLink == [At("udp") EXCEPT !.at = @ + 1, !.got = <<>>]
WithoutOne(s, i) == RemoveAt(s, i)
Drop ==
  /\ proxy' = [At("udp") EXCEPT !.links = WithoutOne(@, proxy.at), !.got = <<>>, !.fail = FALSE]
  /\ held' = held \ {<<"tcp", Link>>, <<"udp", Link>>}
  /\ upset' = upset \cup {Link}
  /\ answers' = [answers EXCEPT ![Link] = <<>>]

Leave ==
  \/ proxy.fail /\ Drop
  \/ ~proxy.fail /\ proxy' = NextLink /\ UNCHANGED <<held, upset, answers>>

ServerFails ==
  /\ proxy.pc = "udp" /\ proxy.at <= Len(proxy.links) /\ <<"udp", Link>> \in proxy.ready
  /\ Break /\ proxy' = [At("tcp") EXCEPT !.fail = TRUE]
  /\ UNCHANGED <<callVars, netVars, held, served, upset>>

\* eb_posix_tcp_poll, and eb_posix_tcp_recv for the second unit of the length
\* and for the contents, which takes what is there for all there is.
\* Mutant of NeedsMore: a single unit is taken for the length.
NeedsNoMore(part) == FALSE
NeedsMore(part) == Len(part) = 1
FromCaller ==
  /\ proxy.pc = "tcp" /\ <<"tcp", Link>> \in proxy.ready
  /\ \/ /\ \E part \in Found(up[Link], 2) :
             /\ proxy' = [At(IF NeedsMore(part) THEN "len" ELSE "body") EXCEPT !.got = part]
             /\ up' = [up EXCEPT ![Link] = Left(@, part)]
        /\ UNCHANGED <<held, upset, answers>>
     \/ Ended(Link) /\ Drop /\ UNCHANGED up
  /\ UNCHANGED <<callVars, down, backlog, server, served, breaks>>

FromCallerNot ==
  /\ proxy.pc = "tcp" /\ <<"tcp", Link>> \notin proxy.ready /\ Leave
  /\ UNCHANGED <<callVars, up, down, backlog, server, served, breaks>>

SecondUnit ==
  /\ proxy.pc = "len"
  /\ \/ /\ up[Link] # <<>> /\ up' = [up EXCEPT ![Link] = Tail(@)]
        /\ proxy' = [At("body") EXCEPT !.got = Append(@, Head(up[Link]))]
        /\ UNCHANGED <<held, upset, answers>>
     \/ Ended(Link) /\ Drop /\ UNCHANGED up
  /\ UNCHANGED <<callVars, down, backlog, server, served, breaks>>

\* After a message the loop polls again, and finds more or goes on.
PassOn(n, m) == 
  /\ Len(m) = n
  /\ served' = [served EXCEPT ![Link] = Append(@, m)]
  /\ \/ server' = [server EXCEPT ![Link] = Append(@, m)] /\ UNCHANGED breaks
     \/ UNCHANGED server /\ Break
  /\ \/ (up'[Link] # <<>> \/ call[Link] = "gone")
        /\ proxy' = [At("tcp") EXCEPT !.got = <<>>] /\ UNCHANGED <<held, upset, answers>>
     \/ Leave
Contents ==
  LET n == LengthOf(proxy.got) IN
  /\ proxy.pc = "body"
  /\ \/ \E m \in Found(up[Link], n) :
          /\ up' = [up EXCEPT ![Link] = Left(@, m)]
          /\ PassOn(n, m) \/ (Len(m) < n /\ Drop /\ UNCHANGED <<server, served, breaks>>)
     \/ Ended(Link) /\ Drop /\ UNCHANGED <<up, server, served, breaks>>
  /\ UNCHANGED <<callVars, down, backlog>>

RoundDone ==
  /\ proxy.pc = "udp" /\ proxy.at > Len(proxy.links)
  /\ proxy' = [At("select") EXCEPT !.ready = {}]
  /\ UNCHANGED <<callVars, netVars, held, served, upset, breaks>>

Proxy ==
  \/ SelectReturns \/ Accept \/ AcceptDone \/ ReadAddress \/ FromServer \/ FromServerDone
  \/ FromCaller \/ FromCallerNot \/ SecondUnit \/ Contents \/ RoundDone

TunnelNext ==
  \/ Proxy \/ AcceptFails \/ ServerFails
  \/ \E c \in Callers : Serve(c) \/ Connect(c) \/ Ask(c) \/ HangUp(c) \/ Listen(c)
TunnelSpec ==
  /\ TunnelInit /\ [][TunnelNext]_tunnelVars
  /\ WF_tunnelVars(Proxy)
  /\ \A c \in Callers : WF_tunnelVars(Serve(c)) /\ WF_tunnelVars(Listen(c))

-----------------------------------------------------------------------------
(* Properties.                                                             *)

WholeOf(what, m) == SubSeq(Units(what, m), 3, 4)
\* What leaves the tunnel went into it: a server is sent the messages of its
\* own caller, whole, each once and in order, wherever the stream was cut,
\* and a caller is given the answers to some of them.
TunnelIsTransparent ==
  \A c \in Callers :
    /\ served[c] = [k \in DOMAIN served[c] |-> WholeOf("ask", k)]
    /\ \A i \in DOMAIN heard[c] : \E k \in DOMAIN served[c] : heard[c][i] = WholeOf("answer", k)
    /\ \A i, j \in DOMAIN heard[c] : i # j => heard[c][i] # heard[c][j]

=============================================================================
