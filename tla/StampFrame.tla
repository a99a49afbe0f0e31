----------------------------- MODULE StampFrame -----------------------------
(***************************************************************************)
(* stamp-frame: a client sends a frame and a follow-up that tells when the *)
(* first was sent; the listener notes when it came, and answers in the     *)
(* same way; the client reports the four times.  Everybody hears everybody *)
(* (the frames are broadcast, and the sockets take all protocols), frames  *)
(* may be lost, and the stamp of a sent frame comes on the error queue of  *)
(* the socket, in time, after the second the program waits, or never.      *)
(*                                                                         *)
(* A time is what was stamped: <<"tx", k>> for sending frame k, and        *)
(* <<"rx", k>> for receiving it; <<"none", 0>> is a time of zero and       *)
(* <<"junk", 0>> whatever was in memory.                                   *)
(***************************************************************************)
EXTENDS Integers, Sequences, FiniteSets

CONSTANTS
  Clients,     (* Those who run stamp-frame once.                          *)
  Listener,    (* The one who runs it with "listen".                       *)
  MaxFrames,   (* Bound: the frames that are sent.                         *)
  MaxTroubles  (* Bound: what goes wrong, each time.                       *)

ASSUME FrameAssumption == Listener \notin Clients /\ {MaxFrames, MaxTroubles} \subseteq Nat

Parties == Clients \cup {Listener}
Zero == <<"none", 0>>
Junk == <<"junk", 0>>
NoTimes == [i \in 0 .. 3 |-> Zero]
Blank == [k |-> 0, stamp |-> TRUE, phase |-> 0, ts |-> NoTimes]

VARIABLES
  at,        (* Where each program is.                                     *)
  f,         (* The frame it sends and receives in.                        *)
  stamp,     (* struct ts_data of the first of the two frames.             *)
  queue,     (* The frames that wait in its socket.                        *)
  errors,    (* The stamps that wait in the socket's error queue, ...      *)
  coming,    (* ... and the frames whose stamps are still to come.         *)
  sent,      (* History: how many frames were sent; whose they are.        *)
  mine,      (* History: the first frames of each client's exchange: its   *)
             (* own, and the listener's answer to it.                      *)
  troubles,  (* History: what went wrong since it began: loss, stamps that *)
             (* were late, frames of others, a call that failed.           *)
  reports    (* What was reported, and whether there was any trouble.      *)

frameVars == <<at, f, stamp, queue, errors, coming, sent, mine, troubles, reports>>

FrameInit ==
  /\ at = [p \in Parties |-> "no"]
  /\ f = [p \in Parties |-> Blank] /\ stamp = [p \in Parties |-> Zero]
  /\ queue = [p \in Parties |-> <<>>] /\ errors = [p \in Parties |-> <<>>]
  /\ coming = [p \in Parties |-> <<>>]
  /\ sent = 0 /\ mine = [c \in Clients |-> [own |-> 0, answer |-> 0]]
  /\ troubles = [n |-> 0, met |-> {}] /\ reports = {}

Running(p) == at[p] \notin {"no", "done"}
Goto(p, place) == at' = [at EXCEPT ![p] = place]

\* The four times, and where main goes on after sending and after receiving.
SendOffset(p) == IF p = Listener THEN 2 ELSE 0
RecvOffset(p) == IF p = Listener THEN 1 ELSE 3
AfterSend == "recv0"
AfterRecv(p) == IF p = Listener THEN "send0" ELSE "report"

\* Something goes wrong for all who are in an exchange.
Trouble ==
  /\ troubles.n < MaxTroubles
  /\ troubles' = [n |-> troubles.n + 1, met |-> troubles.met \cup {c \in Clients : Running(c)}]

-----------------------------------------------------------------------------
(* The network and the device (external).                                  *)

Arrives(g, to) == queue' = [p \in Parties |-> IF p \in to THEN Append(queue[p], g) ELSE queue[p]]

OthersFrame ==
  /\ Trouble
  /\ Arrives([Blank EXCEPT !.stamp = FALSE], {p \in Parties : Running(p)})
  /\ UNCHANGED <<at, f, stamp, errors, coming, sent, mine, reports>>

HwStamp(p) ==
  /\ coming[p] # <<>>
  /\ errors' = [errors EXCEPT ![p] = Append(@, <<"tx", Head(coming[p])>>)]
  /\ coming' = [coming EXCEPT ![p] = Tail(@)]
  /\ UNCHANGED <<at, f, stamp, queue, sent, mine, troubles, reports>>

HwStampLost(p) ==
  /\ coming[p] # <<>> /\ Trouble
  /\ coming' = [coming EXCEPT ![p] = Tail(@)]
  /\ UNCHANGED <<at, f, stamp, queue, errors, sent, mine, reports>>

-----------------------------------------------------------------------------
(* send_one_with_followup.  A stamp is waited for, and what comes is taken *)
(* for it: "Check that the actual data is what we sent" is still to do.    *)

\* make_stamping_socket, or it gives up.
Open(p) ==
  /\ at[p] = "no"
  /\ Goto(p, IF p = Listener THEN "recv0" ELSE "send0")
  /\ LET alone == /\ at[Listener] = "recv0" /\ queue[Listener] = <<>>
                  /\ errors[Listener] = <<>> /\ coming[Listener] = <<>>
                  /\ \A c \in Clients : ~Running(c) IN
     IF p = Listener \/ alone THEN UNCHANGED troubles
     ELSE /\ troubles.n < MaxTroubles
          /\ troubles' = [n |-> troubles.n + 1, met |-> troubles.met \cup {p} \cup {c \in Clients : Running(c)}]
  /\ UNCHANGED <<f, stamp, queue, errors, coming, sent, mine, reports>>

NotOpened(p) ==
  /\ at[p] = "no" /\ Goto(p, "done") /\ Trouble
  /\ UNCHANGED <<f, stamp, queue, errors, coming, sent, mine, reports>>

\* A frame leaves, or send fails.
Out(p, g) ==
  LET others == {q \in Parties \ {p} : Running(q)} IN
  /\ sent < MaxFrames /\ sent' = sent + 1
  /\ f' = [f EXCEPT ![p] = g]
  /\ coming' = [coming EXCEPT ![p] = Append(@, sent + 1)]
  /\ \/ Arrives([g EXCEPT !.k = sent + 1], others) /\ UNCHANGED troubles
     \/ \E to \in SUBSET others : to # others /\ Arrives([g EXCEPT !.k = sent + 1], to) /\ Trouble

FirstFrame(p) == [f[p] EXCEPT !.stamp = TRUE, !.phase = 0]
SendFirst(p) ==
  /\ at[p] = "send0" /\ Goto(p, "stamp0")
  /\ Out(p, FirstFrame(p))
  /\ mine' = [c \in Clients |->
                IF c = p THEN [own |-> sent + 1, answer |-> 0]
                ELSE IF p = Listener /\ f[p].ts[1] = <<"rx", mine[c].own>> THEN [mine[c] EXCEPT !.answer = sent + 1]
                ELSE mine[c]]
  /\ UNCHANGED <<stamp, errors, reports>>

\* Nothing is waited for, and the time is whatever the stack held.
SendFirstFails(p) ==
  /\ at[p] = "send0" /\ Goto(p, "send1") /\ Trouble
  /\ f' = [f EXCEPT ![p] = FirstFrame(p)] /\ stamp' = [stamp EXCEPT ![p] = Junk]
  /\ UNCHANGED <<queue, errors, coming, sent, mine, reports>>

TakeStamp(p) ==
  /\ at[p] = "stamp0" /\ errors[p] # <<>>
  /\ stamp' = [stamp EXCEPT ![p] = Head(errors[p])] /\ errors' = [errors EXCEPT ![p] = Tail(@)]
  /\ Goto(p, "send1")
  /\ UNCHANGED <<f, queue, coming, sent, mine, troubles, reports>>

\* Only a stamp that was lost, or that is late, lets the second pass.
Overdue(p) == errors[p] = <<>> /\ IF coming[p] = <<>> THEN UNCHANGED troubles ELSE Trouble
NoStamp(p) ==
  /\ at[p] = "stamp0" /\ Overdue(p)
  /\ stamp' = [stamp EXCEPT ![p] = Zero]
  /\ Goto(p, "send1")
  /\ UNCHANGED <<f, queue, errors, coming, sent, mine, reports>>

FollowUp(p) == [f[p] EXCEPT !.phase = 1, !.ts[SendOffset(p)] = stamp[p]]
SendSecond(p) ==
  /\ at[p] = "send1" /\ Goto(p, "stamp1")
  /\ Out(p, FollowUp(p))
  /\ UNCHANGED <<stamp, errors, mine, reports>>

SendSecondFails(p) ==
  /\ at[p] = "send1" /\ Goto(p, AfterSend) /\ Trouble
  /\ f' = [f EXCEPT ![p] = FollowUp(p)]
  /\ UNCHANGED <<stamp, queue, errors, coming, sent, mine, reports>>

\* The stamp of the follow-up is thrown away, so that it is not in the way.
DropStamp(p) ==
  /\ at[p] = "stamp1" /\ errors[p] # <<>>
  /\ errors' = [errors EXCEPT ![p] = Tail(@)]
  /\ Goto(p, AfterSend)
  /\ UNCHANGED <<f, stamp, queue, coming, sent, mine, troubles, reports>>

NoSecondStamp(p) ==
  /\ at[p] = "stamp1" /\ Overdue(p) /\ Goto(p, AfterSend)
  /\ UNCHANGED <<f, stamp, queue, errors, coming, sent, mine, reports>>

Send(p) ==
  \/ SendFirst(p) \/ TakeStamp(p) \/ NoStamp(p)
  \/ SendSecond(p) \/ DropStamp(p) \/ NoSecondStamp(p)

-----------------------------------------------------------------------------
(* recv_one_with_followup                                                  *)

Read(p) == queue[p] # <<>> /\ queue' = [queue EXCEPT ![p] = Tail(@)]
\* Mutant of IsFirst: the phases are counted from one.
IsFirstOne(g) == g.stamp /\ g.phase = 1
IsFirst(g) == g.stamp /\ g.phase = 0

RecvFirst(p) ==
  /\ at[p] = "recv0" /\ Read(p)
  /\ LET g == Head(queue[p]) IN
     /\ f' = [f EXCEPT ![p] = g]
     /\ stamp' = [stamp EXCEPT ![p] = <<"rx", g.k>>]
     /\ IF IsFirst(g) THEN Goto(p, "recv1") ELSE UNCHANGED at
  /\ UNCHANGED <<errors, coming, sent, mine, troubles, reports>>

\* "receive another one, lazily don't wait": whatever comes is the follow-up.
\* Mutant of Followed: the time is noted before the follow-up overwrites it.
FollowedLate(p, g) == g
Followed(p, g) == [g EXCEPT !.ts[RecvOffset(p)] = stamp[p]]
RecvSecond(p) ==
  /\ at[p] = "recv1" /\ Read(p)
  /\ f' = [f EXCEPT ![p] = Followed(p, Head(queue[p]))]
  /\ Goto(p, AfterRecv(p))
  /\ UNCHANGED <<stamp, errors, coming, sent, mine, troubles, reports>>

RecvSecondFails(p) ==
  /\ at[p] = "recv1" /\ Trouble
  /\ f' = [f EXCEPT ![p] = Followed(p, @)]
  /\ Goto(p, AfterRecv(p))
  /\ UNCHANGED <<stamp, queue, errors, coming, sent, mine, reports>>

\* report_times
Report(c) ==
  /\ at[c] = "report" /\ Goto(c, "done")
  /\ reports' = reports \cup {[by |-> c, ts |-> f[c].ts, calm |-> c \notin troubles.met]}
  /\ queue' = [queue EXCEPT ![c] = <<>>] /\ errors' = [errors EXCEPT ![c] = <<>>]
  /\ coming' = [coming EXCEPT ![c] = <<>>]
  /\ UNCHANGED <<f, stamp, sent, mine, troubles>>

Turn(p) == Send(p) \/ RecvFirst(p) \/ RecvSecond(p)
GoesWrong(p) == NotOpened(p) \/ SendFirstFails(p) \/ SendSecondFails(p) \/ RecvSecondFails(p)

FrameNext ==
  \/ OthersFrame
  \/ \E p \in Parties : HwStamp(p) \/ HwStampLost(p) \/ Open(p) \/ Turn(p) \/ GoesWrong(p)
  \/ \E c \in Clients : Report(c)
FrameFair ==
  \A p \in Parties : WF_frameVars(HwStamp(p)) /\ WF_frameVars(Turn(p)) /\ (p \in Clients => WF_frameVars(Report(p)))
FrameSpec == FrameInit /\ [][FrameNext]_frameVars /\ FrameFair

-----------------------------------------------------------------------------
(* Properties.                                                             *)

\* A report has the four times of one exchange, unless something went wrong
\* in it, another client was about, or the listener had something left over
\* from before.  After any trouble the listener is fit again as soon as it
\* waits with nothing left over.
Right(r) ==
  LET m == mine[r.by] IN
  r.ts = [i \in 0 .. 3 |-> CASE i = 0 -> <<"tx", m.own>> [] i = 1 -> <<"rx", m.own>>
                             [] i = 2 -> <<"tx", m.answer>> [] OTHER -> <<"rx", m.answer>>]
ReportIsRight == \A r \in reports : r.calm => Right(r)

\* A client that meets no trouble reports.
CalmIsReported ==
  \A c \in Clients : at[c] = "send0" ~> c \in troubles.met \/ at[c] = "done" \/ sent = MaxFrames
=============================================================================
