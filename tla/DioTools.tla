------------------------------ MODULE DioTools ------------------------------
(***************************************************************************)
(* The programs that use the digital I/O mezzanine, and what its driver    *)
(* does for them: wr-dio-cmd and wr-dio-pps, wr-dio-ruler, which turns the *)
(* stamps of an input into timed pulses of its own card and of others, and *)
(* wr-dio-agent, which makes the pulses it is sent frames for.             *)
(*                                                                         *)
(* An ioctl is one step: it runs under rtnl, and WrDio has what is in it.  *)
(* A time is <<sec, nsec>>.  Frames are broadcast and may be lost, but not *)
(* reordered.  Loops after the first pulse, and whether the time of a      *)
(* pulse has passed already, are the matter of WrDio and of the hardware.  *)
(***************************************************************************)
EXTENDS Integers, Sequences, FiniteSets, FiniteSetsExt, SequencesExt

CONSTANTS
  Nodes, Home, Agents,  (* The cards, the ruler's and those with an agent. *)
  Chans,        (* 0 .. 4 in the code.                                     *)
  Digits,       (* A second has 10^Digits units: 9 in the code.            *)
  Tick,         (* Units in a cycle of the hardware: 8 in the code.        *)
  NStamp,       (* WR_DIO_N_STAMP: 16 in the code.                         *)
  Tools, Line,  (* The commands to be run, and their command lines.        *)
  Scenes,       (* The ruler's command line, the commands that are run,    *)
                (* and the inputs that have edges.                         *)
  Times, Now,   (* Bound: times of the stamps, and seconds it may be.      *)
  MaxEvents,    (* Bound: the stamps.                                      *)
  MaxFaults     (* Bound: frames lost or of others, and calls that fail.   *)

ASSUME ToolsAssumption ==
  /\ Home \in Nodes /\ Agents \subseteq Nodes /\ Chans \subseteq Nat
  /\ Digits \in Nat /\ Tick \in Nat \ {0} /\ NStamp \in Nat \ {0}
  /\ {MaxEvents, MaxFaults} \subseteq Nat
  /\ \A s \in Scenes : s.tools \subseteq Tools
  /\ \A t \in Tools : t \notin {"none", "ruler", "unheeded"} /\ Line[t].node \in Nodes

Second == 10^Digits
None == "none"
Absent == -1

VARIABLES
  scene,          (* The one of Scenes that is played.                     *)
  iomode, level,  (* IOMODE, a nibble each channel, and the GPIO outputs.  *)
  offset,         (* channel_pulse_offsets.                                *)
  ring,           (* The stamps of each channel, as WrDio keeps them.      *)
  rpc, ts, act, frame,  (* The ruler and its static frame.          *)
  inbox, agent,   (* The frames for each agent; "no", "up" or "dead".      *)
  exit, reply,    (* The commands' exit status, and the channel that the   *)
                  (* last answer left in cmd->channel.                     *)
  events, had,    (* History: the stamps taken; who has read each, ...     *)
  atStart,        (* ... which were there when a command started, ...      *)
  setpoints,      (* ... every time that was programmed, ...               *)
  asked, told,    (* ... the last mode each channel was given, what was    *)
                  (* said of it, ...                                       *)
  lost, faults    (* ... frames an agent did not get, and the faults.       *)

card  == <<iomode, level, offset>>
ruler == <<rpc, ts, act, frame>>
net   == <<inbox, agent>>
tool  == <<exit, reply, atStart>>
past  == <<setpoints, asked, told, lost, faults>>
vars  == <<scene, card, ring, ruler, net, tool, events, had, past>>

-----------------------------------------------------------------------------
(* Decimal arguments: the seconds, if any were given, the digits after the *)
(* point, and whether something else follows.  What follows the seconds    *)
(* without a fraction is not noticed.                                      *)

Scaled(frac) == FoldLeft(LAMBDA v, d : 10 * v + d, 0, frac) * 10^(Digits - Len(frac))

Parses(a) == IF a.frac = <<>> THEN a.sec # Absent ELSE ~a.more /\ Len(a.frac) <= Digits
ParseTs(a) == <<IF a.sec = Absent THEN 0 ELSE a.sec, IF a.frac = <<>> THEN 0 ELSE Scaled(a.frac)>>

\* What a reader of the command line would say the argument is, in units.
Meant(a) ==
  (IF a.sec = Absent THEN 0 ELSE a.sec) * Second
  + MapThenSumSet(LAMBDA i : a.frac[i] * 10^(Digits - i), DOMAIN a.frac)
Units(t) == t[1] * Second + t[2]

-----------------------------------------------------------------------------
(* The driver.                                                             *)

Normalized(sec, nsec) == <<sec + nsec \div Second, nsec % Second>>

\* __wrn_new_pulse: the channel's offset, and a cycle less.
Programmed(n, c, t) ==
  LET u == Normalized(t[1], t[2] + offset[n][c]) IN Normalized(u[1], u[2] - Tick)

\* CMD_PULSE makes the channel a DIO one, but leaves the rest of its nibble.
SrcOr1(src) == CASE src = "gpio" -> "dio" [] src = "wrpc" -> "undefined" [] OTHER -> src
PulseMode(n, c) ==
  /\ iomode' = [iomode EXCEPT ![n][c].src = SrcOr1(@)]
  /\ asked' = [asked EXCEPT ![n][c] = IF @ \in {"d", "D"} THEN @ ELSE None]

\* A pulse for why, at t, which was meant for the given unit.
PulseAt(n, c, t, meant, why) ==
  /\ PulseMode(n, c)
  /\ LET u == Programmed(n, c, t) IN
     setpoints' = setpoints \cup {[node |-> n, ch |-> c, sec |-> u[1], cycle |-> u[2] \div Tick,
                                   meant |-> meant + offset[n][c], why |-> why]}

\* What one letter of "mode" asks for (one_mode).
Letters == {"d", "D", "c", "C", "p", "P", "i", "I", "0", "1"}
ModeBits(l) ==
  (IF l \in {"D", "C", "P", "I"} THEN {"TERM"} ELSE {})
  \cup (IF l \in {"D", "d", "C", "c", "P", "p"} THEN {"DIO"} ELSE {})
  \cup (IF l \in {"C", "c", "P", "p", "1"} THEN {"VALUE"} ELSE {})
  \cup (IF l \in {"D", "d", "P", "p", "1", "0"} THEN {"OUTPUT"} ELSE {})
GoodMode(c, l) == l = "-" \/ (l \in Letters /\ ~(c = 0 /\ l \in {"d", "D", "0", "1"}))

\* cmd->channel and cmd->value for a list of channels and letters.
InMask(list) == {list[i][1] : i \in {j \in DOMAIN list : list[j][2] # "-"}}
Bitmap(list) == UNION {ModeBits(list[i][2]) \X {list[i][1]} : i \in {j \in DOMAIN list : list[j][2] # "-"}}

\* wrn_dio_cmd_inout, for one channel of the bitmap.
\* Mutant of BitsOf: the bitmap is not aligned to the channel.
BitsOfFirst(value, c) == {v[1] : v \in {w \in value : w[2] = Min(Chans)}}
BitsOf(value, c) == {v[1] : v \in {w \in value : w[2] = c}}

Nibble(bits) ==
  [src |-> IF "DIO" \notin bits THEN "gpio" ELSE IF "VALUE" \in bits THEN "wrpc" ELSE "dio",
   out |-> "OUTPUT" \in bits, term |-> "TERM" \in bits]
Inout(n, mask, value) ==
  /\ iomode' = [iomode EXCEPT ![n] = [c \in Chans |-> IF c \in mask THEN Nibble(BitsOf(value, c)) ELSE @[c]]]
  /\ level' = [level EXCEPT ![n] = [c \in Chans |-> IF c \in mask /\ "DIO" \notin BitsOf(value, c)
                                                    THEN "VALUE" \in BitsOf(value, c) ELSE @[c]]]

\* The answer to F_GET, and the words wr-dio-cmd has for it.
Answer(nib, pin) ==
  (IF nib.src # "gpio" THEN {"DIO"} ELSE {}) \cup (IF nib.out THEN {"OUTPUT"} ELSE {})
  \cup (IF nib.term THEN {"TERM"} ELSE {})
  \cup (IF nib.src = "wrpc" \/ (nib.src = "gpio" /\ pin) THEN {"VALUE"} ELSE {})
Described(bits) ==
  LET mode == bits \ {"TERM"}
      Termed(yes, no) == IF "TERM" \in bits THEN yes ELSE no IN
  CASE mode = {"DIO", "OUTPUT", "VALUE"} -> Termed("P", "p")
    [] mode = {"DIO", "OUTPUT"}          -> Termed("D", "d")
    [] mode = {"DIO", "VALUE"}           -> Termed("C", "c")
    [] mode = {"OUTPUT", "VALUE"}        -> "1"
    [] mode = {"OUTPUT"}                 -> "0"
    [] mode = {}                         -> Termed("I", "i")
    [] OTHER                             -> "unknown"

-----------------------------------------------------------------------------
Init ==
  /\ \E l \in {"i", "p"} : iomode = [n \in Nodes |-> [c \in Chans |-> Nibble(ModeBits(l))]]
  /\ level = [n \in Nodes |-> [c \in Chans |-> FALSE]]
  /\ offset = [n \in Nodes |-> [c \in Chans |-> 0]]
  /\ ring = [n \in Nodes |-> [c \in Chans |-> <<>>]]
  /\ rpc = "no" /\ scene \in Scenes /\ ts = 0 /\ act = 1 /\ frame = <<0, 0>>
  /\ inbox = [n \in Agents |-> <<>>] /\ agent = [n \in Agents |-> "no"]
  /\ exit = [t \in Tools |-> None] /\ reply = [t \in Tools |-> Absent]
  /\ atStart = [t \in Tools |-> {}]
  /\ events = <<>> /\ had = [e \in 1 .. MaxEvents |-> None]
  /\ setpoints = {} /\ asked = [n \in Nodes |-> [c \in Chans |-> None]] /\ told = {}
  /\ lost = {} /\ faults = 0

\* An input edge; its stamp is in the ring before the next ioctl looks.
HwEdge(n, c) ==
  /\ Len(events) < MaxEvents /\ <<n, c>> \in scene.edges
  /\ \E t \in Times :
       /\ \A e \in DOMAIN events : events[e].node = n => Units(events[e].t) < Units(t)
       /\ events' = Append(events, [node |-> n, ch |-> c, t |-> t])
  /\ ring' = [ring EXCEPT ![n][c] = Append(@, Len(events) + 1)]
  /\ UNCHANGED <<card, ruler, net, tool, had, past>>

\* CMD_STAMP: as many stamps as fit, of the first channel that has any.
Ready(n, cs) == {c \in cs : ring[n][c] # <<>>}
Taken(n, c) == SubSeq(ring[n][c], 1, Min({NStamp, Len(ring[n][c])}))
Take(n, c) == ring' = [ring EXCEPT ![n][c] = SubSeq(@, Len(Taken(n, c)) + 1, Len(@))]

Failure == faults < MaxFaults /\ faults' = faults + 1

-----------------------------------------------------------------------------
(* wr-dio-ruler.  It acts on the first of the stamps it is given: "Assume  *)
(* it's only one stamp".                                                   *)

Args == scene.ruler
GoodRuler(r) == r.in \in Chans /\ \A i \in DOMAIN r.actions : r.actions[i].ch \in Chans /\ Parses(r.actions[i].delay)
RulerStart ==
  /\ rpc = "no"
  /\ rpc' = IF GoodRuler(Args) THEN "wait" ELSE "dead"
  /\ UNCHANGED <<card, ring, ts, act, frame, net, tool, events, had, past>>

RulerNotOpened ==
  /\ rpc = "no" /\ Failure
  /\ rpc' = "dead"
  /\ UNCHANGED <<card, ring, ts, act, frame, net, tool, events, had, setpoints, asked, told, lost>>

RulerWait ==
  /\ rpc = "wait" /\ Ready(Home, {Args.in}) # {}
  /\ LET got == Taken(Home, Args.in) IN
     /\ ts' = got[1]
     /\ had' = [e \in DOMAIN had |-> IF e = got[1] THEN "ruler" ELSE IF e \in Range(got) THEN "unheeded" ELSE had[e]]
  /\ Take(Home, Args.in)
  /\ act' = 1
  /\ rpc' = "act"
  /\ UNCHANGED <<card, frame, net, tool, events, past>>

\* The delay is added to the stamp anew for every action: the driver's answer
\* to a local pulse has changed the time in the frame.
\* Mutant of From: the stamp is copied to the frame once.
FromFrame == IF act = 1 THEN events[ts].t ELSE frame
From == events[ts].t
Delayed(t, d) ==
  LET sum == t[2] + d[2] IN
  IF sum > Second THEN <<t[1] + d[1] + 1, sum - Second>> ELSE <<t[1] + d[1], sum>>

Action == Args.actions[act]
When == Delayed(From, ParseTs(Action.delay))
MeantWhen == Units(events[ts].t) + Meant(Action.delay)
\* Mutant of ActionDone: the last action is left out.
ActionDoneEarly == IF act + 1 >= Len(Args.actions) THEN rpc' = "wait" /\ act' = 1 ELSE rpc' = "act" /\ act' = act + 1
ActionDone == IF act = Len(Args.actions) THEN rpc' = "wait" /\ act' = 1 ELSE rpc' = "act" /\ act' = act + 1

RulerLocal ==
  /\ rpc = "act" /\ ~Action.remote
  /\ PulseAt(Home, Action.ch, When, MeantWhen, <<ts, act>>)
  /\ frame' = Programmed(Home, Action.ch, When)
  /\ ActionDone
  /\ UNCHANGED <<level, offset, ring, ts, net, tool, events, had, told, lost, faults>>

RulerRemote ==
  /\ rpc = "act" /\ Action.remote
  /\ frame' = When
  /\ \E never \in SUBSET {n \in Agents : agent[n] = "up"} :
       LET reached == {n \in Agents : agent[n] = "up"} \ never IN
       /\ faults' = faults + Cardinality(never) /\ faults' <= MaxFaults
       /\ lost' = lost \cup {<<ts, act, n>> : n \in Agents \ reached}
       /\ inbox' = [n \in Agents |-> IF n \notin reached THEN inbox[n]
                                     ELSE Append(inbox[n], [ours |-> TRUE, ch |-> Action.ch, t |-> When,
                                                            meant |-> MeantWhen, why |-> <<ts, act>>])]
  /\ ActionDone
  /\ UNCHANGED <<card, ring, ts, agent, tool, events, had, setpoints, asked, told>>

RulerFails ==
  /\ rpc \in {"wait", "act"} /\ Failure
  /\ rpc' = "dead"
  /\ UNCHANGED <<card, ring, ts, act, frame, net, tool, events, had, setpoints, asked, told, lost>>

Ruler == RulerStart \/ RulerWait \/ RulerLocal \/ RulerRemote

-----------------------------------------------------------------------------
(* wr-dio-agent                                                            *)

\* A frame of another length or type is on the wire.
OtherFrame(n) ==
  /\ agent[n] = "up" /\ Failure
  /\ inbox' = [inbox EXCEPT ![n] = Append(@, [ours |-> FALSE])]
  /\ UNCHANGED <<card, ring, ruler, agent, tool, events, had, setpoints, asked, told, lost>>

AgentChange(n, from, to) == agent[n] = from /\ agent' = [agent EXCEPT ![n] = to]
AgentOpen(n) ==
  /\ AgentChange(n, "no", "up")
  /\ UNCHANGED <<card, ring, ruler, inbox, tool, events, had, past>>

AgentNotOpened(n) ==
  /\ AgentChange(n, "no", "dead") /\ Failure
  /\ UNCHANGED <<card, ring, ruler, inbox, tool, events, had, setpoints, asked, told, lost>>

Received(n) == agent[n] = "up" /\ inbox[n] # <<>> /\ inbox' = [inbox EXCEPT ![n] = Tail(@)]

AgentSkip(n) ==
  /\ Received(n) /\ ~Head(inbox[n]).ours
  /\ UNCHANGED <<card, ring, ruler, agent, tool, events, had, past>>

AgentPulse(n) ==
  /\ Received(n) /\ Head(inbox[n]).ours
  /\ LET f == Head(inbox[n]) IN PulseAt(n, f.ch, f.t, f.meant, f.why)
  /\ UNCHANGED <<level, offset, ring, ruler, agent, tool, events, had, told, lost, faults>>

AgentFails(n) ==
  /\ Received(n) /\ Head(inbox[n]).ours /\ AgentChange(n, "up", "dead") /\ Failure
  /\ UNCHANGED <<card, ring, ruler, tool, events, had, setpoints, asked, told, lost>>

Agent(n) == AgentSkip(n) \/ AgentPulse(n)

-----------------------------------------------------------------------------
(* wr-dio-cmd and wr-dio-pps.  A command that is refused or whose ioctl    *)
(* fails exits with 1.                                                     *)

Is(t, cmds) == Line[t].cmd \in cmds
Exit(t, status) == exit' = [exit EXCEPT ![t] = status]
Idle == UNCHANGED <<ring, ruler, net, events, lost>>

\* scan_pulse and wr-dio-pps: the channel, the duration and the period are
\* wrong, or the time is.  wr-dio-pps leaves channel 0 alone.
GoodPulse(l) ==
  /\ l.ch \in Chans /\ (l.cmd = "pps" => l.ch # 0)
  /\ \A i \in DOMAIN l.others : Parses(l.others[i])
  /\ ParseTs(l.others[1])[1] = 0
  /\ l.when # "now" => Parses(l.at)
GoodList(list) == \A i \in DOMAIN list : list[i][1] \in Chans /\ GoodMode(list[i][1], list[i][2])
GoodLine(l) ==
  CASE l.cmd \in {"pulse", "pps"} -> GoodPulse(l)
    [] l.cmd = "mode"   -> GoodList(l.list)
    [] OTHER            -> l.chans \subseteq Chans

Refused(t) ==
  /\ exit[t] = None /\ ~GoodLine(Line[t])
  /\ Exit(t, "1")
  /\ Idle /\ UNCHANGED <<card, reply, atStart, had, past>>

Fails(t) ==
  /\ \/ exit[t] = None /\ GoodLine(Line[t]) /\ ~Is(t, {"stamp", "stampm"})
     \/ exit[t] = "run"
  /\ Failure
  /\ Exit(t, "1")
  /\ Idle /\ UNCHANGED <<card, reply, atStart, had, setpoints, asked, told>>

Goes(t, cmds) == Is(t, cmds) /\ exit[t] = None /\ GoodLine(Line[t]) /\ Exit(t, "0")
Plain == Idle /\ UNCHANGED <<reply, atStart, had, faults>>

PulseNow(t) ==
  /\ Goes(t, {"pulse"}) /\ Line[t].when = "now"
  /\ PulseMode(Line[t].node, Line[t].ch)
  /\ Plain /\ UNCHANGED <<level, offset, setpoints, told>>

\* F_REL: the driver adds the second it is.
Timed(t) ==
  /\ \E now \in IF Line[t].when = "rel" THEN Now ELSE {0} :
       LET at == ParseTs(Line[t].at) IN
       PulseAt(Line[t].node, Line[t].ch, <<now + at[1], at[2]>>, now * Second + Meant(Line[t].at), <<0, 0>>)
  /\ Plain /\ UNCHANGED <<level, offset, told>>
PulseTimed(t) == Goes(t, {"pulse"}) /\ Line[t].when # "now" /\ Timed(t)
Pps(t) == Goes(t, {"pps"}) /\ Timed(t)

\* pulse <ch> <offset>
PulseOffset(t) ==
  /\ Goes(t, {"offset"})
  /\ offset' = [offset EXCEPT ![Line[t].node] = [c \in Chans |-> IF c \in Line[t].chans THEN Line[t].value ELSE @[c]]]
  /\ Plain /\ UNCHANGED <<iomode, level, setpoints, asked, told>>

ModeSet(t) ==
  /\ Goes(t, {"mode"})
  /\ LET list == Line[t].list IN
     /\ Inout(Line[t].node, InMask(list), Bitmap(list))
     /\ asked' = [asked EXCEPT ![Line[t].node] =
                    [c \in Chans |-> IF c \in InMask(list)
                                     THEN list[CHOOSE i \in DOMAIN list : list[i][1] = c][2] ELSE @[c]]]
  /\ Plain /\ UNCHANGED <<offset, setpoints, told>>

\* mode and mode <ch>.  A pin that is not driven may be high or low.
ModeGet(t) ==
  /\ Goes(t, {"get"})
  /\ LET n == Line[t].node IN
     \E pin \in [Chans -> BOOLEAN] :
       /\ \A c \in Chans : iomode[n][c].out => pin[c] = level[n][c]
       /\ told' = told \cup {<<Described(Answer(iomode[n][c], pin[c])), asked[n][c]>> : c \in Line[t].chans}
  /\ Plain /\ UNCHANGED <<card, setpoints, asked>>

\* scan_stamp: until there are none, or for ever with "wait", which the mask
\* of "stampm" overwrites.  The answer tells the channel where the stamps
\* were; the next call asks for the same channels again.
Waits(t) == Is(t, {"stamp"}) /\ Line[t].wait
StampStart(t) ==
  /\ Is(t, {"stamp", "stampm"}) /\ exit[t] = None /\ GoodLine(Line[t])
  /\ Exit(t, "run")
  /\ atStart' = [atStart EXCEPT ![t] = UNION {Range(ring[Line[t].node][c]) : c \in Line[t].chans}]
  /\ Idle /\ UNCHANGED <<card, reply, had, past>>

\* Mutant of AskedOf: the answer's channel is taken for the mask.
AskedAgain(t) ==
  IF reply[t] # Absent /\ Is(t, {"stampm"}) THEN {c \in Chans : (reply[t] \div 2^c) % 2 = 1} ELSE Line[t].chans
AskedOf(t) == Line[t].chans

StampRead(t) ==
  /\ exit[t] = "run"
  /\ LET n == Line[t].node
         c == Min(Ready(n, AskedOf(t))) IN
     /\ Ready(n, AskedOf(t)) # {}
     /\ had' = [e \in DOMAIN had |-> IF e \in Range(Taken(n, c)) THEN t ELSE had[e]]
     /\ Take(n, c)
     /\ reply' = [reply EXCEPT ![t] = c]
  /\ UNCHANGED <<card, ruler, net, exit, atStart, events, past>>

StampNone(t) ==
  /\ exit[t] = "run" /\ Ready(Line[t].node, AskedOf(t)) = {} /\ ~Waits(t)
  /\ Exit(t, "0")
  /\ Idle /\ UNCHANGED <<card, reply, atStart, had, past>>

Command(t) ==
  \/ Refused(t) \/ Fails(t) \/ PulseNow(t) \/ PulseTimed(t) \/ Pps(t) \/ PulseOffset(t)
  \/ ModeSet(t) \/ ModeGet(t) \/ StampStart(t) \/ StampRead(t) \/ StampNone(t)

-----------------------------------------------------------------------------
Step ==
  \/ \E n \in Nodes, c \in Chans : HwEdge(n, c)
  \/ Ruler \/ RulerNotOpened \/ RulerFails
  \/ \E n \in Agents : AgentOpen(n) \/ AgentNotOpened(n) \/ Agent(n) \/ AgentFails(n) \/ OtherFrame(n)
  \/ \E t \in scene.tools : Command(t)
Next == Step /\ UNCHANGED scene

Spec == Init /\ [][Next]_vars
\* The programs run on.
FairSpec == Spec /\ WF_vars(Ruler /\ UNCHANGED scene) /\ \A n \in Agents : WF_vars(Agent(n) /\ UNCHANGED scene)

-----------------------------------------------------------------------------
(* Properties.                                                             *)

\* Whatever a pulse was asked for by, the hardware is given a cycle that a
\* second has, and together with the second it is the time that was meant,
\* less the cycle for the output's latency: parse_ts, the ruler's sum, which
\* may leave a whole second of nanoseconds, and the driver's normalisation.
PulsesAsAsked ==
  \A p \in setpoints :
    /\ p.cycle \in 0 .. Second \div Tick - 1
    /\ p.sec * (Second \div Tick) + p.cycle = p.meant \div Tick - 1

\* A stamp on the ruler's input makes every local action's pulse, and that of
\* every remote action at each agent, unless the stamp came together with an
\* earlier one, another command has read it, a frame was lost or came before
\* the agent was there, or an ioctl has failed.
Made(n, why) == \E p \in setpoints : p.node = n /\ p.why = why
Heeded(e, i) ==
  IF Args.actions[i].remote
  THEN \A n \in Agents : Made(n, <<e, i>>) \/ agent[n] = "dead" \/ <<e, i, n>> \in lost
  ELSE Made(Home, <<e, i>>)
OnInput(e) == e \in DOMAIN events /\ events[e].node = Home /\ events[e].ch = Args.in
EventsAreActedOn ==
  \A e \in 1 .. MaxEvents :
    OnInput(e) ~> \/ rpc \in {"no", "dead"} \/ had[e] \in Tools \cup {"unheeded"}
                 \/ \A i \in DOMAIN Args.actions : Heeded(e, i)

\* When "stamp" or "stampm" ends well, every stamp of its channels that was
\* there when it started has been read, and it has read no other channel's.
StampsAreRead ==
  /\ \A t \in Tools : exit[t] = "0" => \A e \in atStart[t] : had[e] # None
  /\ \A e \in DOMAIN events : had[e] \in Tools => events[e].ch \in Line[had[e]].chans

\* A channel is in the mode it was last given, whatever is done to the others
\* that share the register, and "mode" says so.  An input that is high is
\* reported as unknown.
ModesAsAsked ==
  /\ \A n \in Nodes, c \in Chans : asked[n][c] # None => iomode[n][c] = Nibble(ModeBits(asked[n][c]))
  /\ \A r \in told : r[2] \in {None, r[1]} \/ (r[1] = "unknown" /\ r[2] \in {"i", "I"})

\* "First, configure this bit as DIO output": the code does not enable the
\* output, and makes an undefined source of a channel of the WR core's.
PulseIsOutput ==
  [][\A n \in Nodes, c \in Chans :
       (\E p \in setpoints' \ setpoints : p.node = n /\ p.ch = c)
         => iomode'[n][c].src = "dio" /\ iomode'[n][c].out]_vars
=============================================================================
