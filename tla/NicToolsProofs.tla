--------------------------- MODULE NicToolsProofs ---------------------------
(***************************************************************************)
(* Theorems about the programs of the card.  DioTools: a channel is in the *)
(* mode it was last given, and the commands that read stamps read all they *)
(* should.  StampFrame: its report is right, since a client and the        *)
(* listener go through the stages of one exchange together as long as      *)
(* nothing goes wrong.                                                     *)
(***************************************************************************)
EXTENDS DioTools, StampFrame, QueueLemmas

\* Every mode command names a channel once.  One that names it twice sets the
\* bits of both its letters (one_mode only sets bits).
ChannelsOnce ==
  \A t \in Tools : Line[t].cmd = "mode" =>
    \A i, j \in DOMAIN Line[t].list : Line[t].list[i][1] = Line[t].list[j][1] => i = j

-----------------------------------------------------------------------------
(* Modes.                                                                  *)

Mode == [src : {"gpio", "dio", "wrpc", "undefined"}, out : BOOLEAN, term : BOOLEAN]

ModeTypes ==
  /\ iomode \in [Nodes -> [Chans -> Mode]] /\ level \in [Nodes -> [Chans -> BOOLEAN]]
  /\ asked \in [Nodes -> [Chans -> Letters \cup {None}]]

\* The register and the output of a channel are as its last mode has them.
SetInv == \A n \in Nodes, c \in Chans : asked[n][c] # None =>
  /\ iomode[n][c] = Nibble(ModeBits(asked[n][c]))
  /\ asked[n][c] = "1" => level[n][c]
  /\ asked[n][c] = "0" => ~level[n][c]

ToldInv == \A r \in told : r[2] \in {None, r[1]} \/ (r[1] = "unknown" /\ r[2] \in {"i", "I"})

\* What one_mode's bits make of a nibble.
LEMMA NibbleIs ==
  ASSUME NEW l \in Letters
  PROVE  /\ l \in {"C", "c", "P", "p"} => Nibble(ModeBits(l)).src = "wrpc"
         /\ l \in {"D", "d"} => Nibble(ModeBits(l)).src = "dio"
         /\ l \in {"I", "i", "0", "1"} => Nibble(ModeBits(l)).src = "gpio"
         /\ Nibble(ModeBits(l)).out <=> (l \in {"D", "d", "P", "p", "1", "0"})
         /\ Nibble(ModeBits(l)).term <=> (l \in {"D", "C", "P", "I"})
         /\ Nibble(ModeBits(l)) \in Mode
         /\ ("VALUE" \in ModeBits(l)) <=> (l \in {"C", "c", "P", "p", "1"})
         /\ ("DIO" \in ModeBits(l)) <=> (l \in {"D", "d", "C", "c", "P", "p"})
<1>1. \A x : x \in ModeBits(l) <=>
        \/ x = "TERM" /\ l \in {"D", "C", "P", "I"}
        \/ x = "DIO" /\ l \in {"D", "d", "C", "c", "P", "p"}
        \/ x = "VALUE" /\ l \in {"C", "c", "P", "p", "1"}
        \/ x = "OUTPUT" /\ l \in {"D", "d", "P", "p", "1", "0"}
      BY DEF ModeBits
<1>. DEFINE bits == ModeBits(l)
<1>. HIDE DEF bits
<1>2. /\ "TERM" \in bits <=> (l \in {"D", "C", "P", "I"})
      /\ "DIO" \in bits <=> (l \in {"D", "d", "C", "c", "P", "p"})
      /\ "VALUE" \in bits <=> (l \in {"C", "c", "P", "p", "1"})
      /\ "OUTPUT" \in bits <=> (l \in {"D", "d", "P", "p", "1", "0"})
      BY <1>1 DEF bits
<1>3. /\ l \in {"C", "c", "P", "p"} => Nibble(bits).src = "wrpc"
      /\ l \in {"D", "d"} => Nibble(bits).src = "dio"
      /\ l \in {"I", "i", "0", "1"} => Nibble(bits).src = "gpio"
      BY <1>2 DEF Nibble
<1>4. Nibble(bits).src \in {"gpio", "dio", "wrpc"}
      BY <1>3 DEF Letters
<1>5. Nibble(bits).out = ("OUTPUT" \in bits) /\ Nibble(bits).term = ("TERM" \in bits)
      BY DEF Nibble
<1>6. Nibble(bits) \in Mode
      BY <1>4, SMT DEF Nibble, Mode
<1>. QED BY <1>2, <1>3, <1>5, <1>6 DEF bits

\* wr-dio-cmd finds the letter again that a channel was given; an input that is high
\* is unknown to it.
LEMMA DescribedIs ==
  ASSUME NEW l \in Letters, NEW pin \in BOOLEAN, l = "1" => pin, l = "0" => ~pin
  PROVE  \/ Described(Answer(Nibble(ModeBits(l)), pin)) = l
         \/ Described(Answer(Nibble(ModeBits(l)), pin)) = "unknown" /\ l \in {"i", "I"}
<1>. DEFINE nib == Nibble(ModeBits(l))  bits == Answer(nib, pin)
<1>1. /\ l \in {"C", "c", "P", "p"} => nib.src = "wrpc"
      /\ l \in {"D", "d"} => nib.src = "dio"
      /\ l \in {"I", "i", "0", "1"} => nib.src = "gpio"
      /\ nib.out <=> (l \in {"D", "d", "P", "p", "1", "0"})
      /\ nib.term <=> (l \in {"D", "C", "P", "I"})
      BY NibbleIs
<1>. HIDE DEF nib
<1>2. \A x : x \in bits <=>
        \/ x = "DIO" /\ nib.src # "gpio"
        \/ x = "OUTPUT" /\ nib.out
        \/ x = "TERM" /\ nib.term
        \/ x = "VALUE" /\ (nib.src = "wrpc" \/ (nib.src = "gpio" /\ pin))
      BY DEF Answer
<1>. DEFINE base == bits \ {"TERM"}
<1>3. \A x : x \in base <=>
        \/ x = "DIO" /\ nib.src # "gpio"
        \/ x = "OUTPUT" /\ nib.out
        \/ x = "VALUE" /\ (nib.src = "wrpc" \/ (nib.src = "gpio" /\ pin))
      BY <1>2
<1>4. "TERM" \in bits <=> l \in {"D", "C", "P", "I"}
      BY <1>1, <1>2
<1>. HIDE DEF bits
<1>5. Described(bits) = LET Termed(yes, no) == IF "TERM" \in bits THEN yes ELSE no IN
        CASE base = {"DIO", "OUTPUT", "VALUE"} -> Termed("P", "p")
          [] base = {"DIO", "OUTPUT"}          -> Termed("D", "d")
          [] base = {"DIO", "VALUE"}           -> Termed("C", "c")
          [] base = {"OUTPUT", "VALUE"}        -> "1"
          [] base = {"OUTPUT"}                 -> "0"
          [] base = {}                         -> Termed("I", "i")
          [] OTHER                             -> "unknown"
      BY DEF Described
<1>. HIDE DEF base
<1>6. CASE l \in {"P", "p"}
  <2>1. base = {"DIO", "OUTPUT", "VALUE"}
        BY <1>1, <1>3, <1>6
  <2>. QED BY <1>4, <1>5, <1>6, <2>1 DEF nib, bits
<1>7. CASE l \in {"C", "c"}
  <2>1. base = {"DIO", "VALUE"}
        BY <1>1, <1>3, <1>7
  <2>. QED BY <1>4, <1>5, <1>7, <2>1 DEF nib, bits
<1>8. CASE l \in {"D", "d"}
  <2>1. base = {"DIO", "OUTPUT"}
        BY <1>1, <1>3, <1>8
  <2>. QED BY <1>4, <1>5, <1>8, <2>1 DEF nib, bits
<1>9. CASE l = "1"
  <2>1. base = {"OUTPUT", "VALUE"}
        BY <1>1, <1>3, <1>9
  <2>. QED BY <1>5, <1>9, <2>1 DEF nib, bits
<1>10. CASE l = "0"
  <2>1. base = {"OUTPUT"}
        BY <1>1, <1>3, <1>10
  <2>. QED BY <1>5, <1>10, <2>1 DEF nib, bits
<1>11. CASE l \in {"I", "i"}
  <2>1. base = IF pin THEN {"VALUE"} ELSE {}
        BY <1>1, <1>3, <1>11
  <2>. QED BY <1>4, <1>5, <1>11, <2>1 DEF nib, bits
<1>. QED BY <1>6, <1>7, <1>8, <1>9, <1>10, <1>11 DEF Letters

\* The bitmap has for each channel the bits of its letter.
LEMMA BitsAreIts ==
  ASSUME NEW list, NEW i \in DOMAIN list, list[i][2] # "-",
         \A j, k \in DOMAIN list : list[j][1] = list[k][1] => j = k
  PROVE  BitsOf(Bitmap(list), list[i][1]) = ModeBits(list[i][2])
<1>. DEFINE c == list[i][1]  named == {j \in DOMAIN list : list[j][2] # "-"}
<1>1. \A w : w \in Bitmap(list) <=> \E j \in named : w \in ModeBits(list[j][2]) \X {list[j][1]}
      BY DEF Bitmap
<1>2. \A w : w \in Bitmap(list) /\ w[2] = c <=> w \in ModeBits(list[i][2]) \X {c}
  <2>1. \A j \in named : \A w \in ModeBits(list[j][2]) \X {list[j][1]} : w[2] = list[j][1]
        OBVIOUS
  <2>2. i \in named
        OBVIOUS
  <2>3. \A j \in named : list[j][1] = c => j = i
        OBVIOUS
  <2>. QED BY <1>1, <2>1, <2>2, <2>3
<1>3. \A x : x \in BitsOf(Bitmap(list), c) <=> \E w \in ModeBits(list[i][2]) \X {c} : x = w[1]
      BY <1>2 DEF BitsOf
<1>4. \A x : (\E w \in ModeBits(list[i][2]) \X {c} : x = w[1]) <=> x \in ModeBits(list[i][2])
  <2> SUFFICES ASSUME NEW x PROVE (\E w \in ModeBits(list[i][2]) \X {c} : x = w[1]) <=> x \in ModeBits(list[i][2])
      OBVIOUS
  <2>1. ASSUME x \in ModeBits(list[i][2]) PROVE \E w \in ModeBits(list[i][2]) \X {c} : x = w[1]
    <3>1. <<x, c>> \in ModeBits(list[i][2]) \X {c} /\ x = <<x, c>>[1]
          BY <2>1
    <3>. QED BY <3>1
  <2>. QED BY <2>1
<1>. QED BY <1>3, <1>4

\* CMD_PULSE takes a channel from the GPIO or the WR core, which then has no mode that
\* was asked for, and leaves one of the pulses' as it is.
LEMMA PulseKeepsModes ==
  ASSUME ModeTypes, SetInv, NEW n \in Nodes, NEW c, PulseMode(n, c), level' = level
  PROVE  ModeTypes' /\ SetInv'
<1>1. \A m \in Nodes, d \in Chans : iomode[m][d] \in Mode /\ asked[m][d] \in Letters \cup {None}
      BY DEF ModeTypes
<1>2. ASSUME NEW m \in Nodes, NEW d \in Chans
      PROVE  /\ iomode'[m][d] = IF m = n /\ d = c THEN [iomode[m][d] EXCEPT !.src = SrcOr1(@)] ELSE iomode[m][d]
             /\ asked'[m][d] = IF m = n /\ d = c /\ asked[m][d] \notin {"d", "D"} THEN None ELSE asked[m][d]
      BY DEF PulseMode, ModeTypes
<1>3. \A nib \in Mode : [nib EXCEPT !.src = SrcOr1(@)] \in Mode
      BY DEF Mode, SrcOr1
<1>4. ModeTypes'
  <2>1. iomode' \in [Nodes -> [Chans -> Mode]]
    <3>1. [iomode[n] EXCEPT ![c].src = SrcOr1(@)] \in [Chans -> Mode]
          BY <1>1, <1>3 DEF ModeTypes
    <3>2. iomode' = [iomode EXCEPT ![n] = [iomode[n] EXCEPT ![c].src = SrcOr1(@)]]
          BY DEF PulseMode
    <3>. QED BY <3>1, <3>2 DEF ModeTypes
  <2>2. asked' \in [Nodes -> [Chans -> Letters \cup {None}]]
    <3>1. [asked[n] EXCEPT ![c] = IF @ \in {"d", "D"} THEN @ ELSE None] \in [Chans -> Letters \cup {None}]
          BY <1>1 DEF ModeTypes
    <3>2. asked' = [asked EXCEPT ![n] = [asked[n] EXCEPT ![c] = IF @ \in {"d", "D"} THEN @ ELSE None]]
          BY DEF PulseMode
    <3>. QED BY <3>1, <3>2 DEF ModeTypes
  <2>. QED BY <2>1, <2>2 DEF ModeTypes
<1>5. ASSUME NEW m \in Nodes, NEW d \in Chans, asked'[m][d] # None
      PROVE  /\ asked'[m][d] = asked[m][d] /\ level'[m][d] = level[m][d]
             /\ iomode'[m][d] = iomode[m][d]
  <2>1. asked'[m][d] = asked[m][d]
        BY <1>2, <1>5
  <2>2. CASE m = n /\ d = c
    <3>1. asked[m][d] \in {"d", "D"}
          BY <1>2, <1>5, <2>2
    <3>2. iomode[m][d].src = "dio"
          BY <2>1, <3>1, <1>5, NibbleIs DEF SetInv, Letters
    <3>3. [iomode[m][d] EXCEPT !.src = SrcOr1(@)] = iomode[m][d]
          BY <1>1, <3>2 DEF SrcOr1, Mode
    <3>. QED BY <1>2, <2>1, <2>2, <3>3
  <2>. QED BY <1>2, <2>1, <2>2
<1>. QED BY <1>4, <1>5 DEF SetInv

\* A mode command gives its channels their nibbles and outputs, and leaves the others.
LEMMA InoutSets ==
  ASSUME ModeTypes, SetInv, ChannelsOnce, NEW t \in Tools, ModeSet(t)
  PROVE  ModeTypes' /\ SetInv'
<1>. DEFINE l == Line[t]  list == l.list  n == l.node  mask == InMask(list)
            place(c) == CHOOSE i \in DOMAIN list : list[i][1] = c
<1>1. n \in Nodes /\ l.cmd = "mode" /\ GoodList(list)
      BY ToolsAssumption DEF ToolsAssumption, ModeSet, Goes, Is, GoodLine
<1>2. \A i, j \in DOMAIN list : list[i][1] = list[j][1] => i = j
      BY <1>1 DEF ChannelsOnce
<1>3. ASSUME NEW c \in mask
      PROVE  /\ place(c) \in DOMAIN list /\ list[place(c)][1] = c /\ list[place(c)][2] \in Letters
             /\ BitsOf(Bitmap(list), c) = ModeBits(list[place(c)][2])
  <2>1. PICK i \in DOMAIN list : list[i][1] = c /\ list[i][2] # "-"
        BY DEF InMask
  <2>2. place(c) = i
        BY <1>2, <2>1
  <2>3. list[i][2] \in Letters
        BY <1>1, <2>1 DEF GoodList, GoodMode
  <2>4. BitsOf(Bitmap(list), c) = ModeBits(list[i][2])
        BY <1>2, <2>1, BitsAreIts
  <2>. QED BY <2>1, <2>2, <2>3, <2>4
<1>. DEFINE lt(c) == list[place(c)][2]
<1>4. /\ iomode' = [iomode EXCEPT ![n] = [c \in Chans |-> IF c \in mask THEN Nibble(BitsOf(Bitmap(list), c)) ELSE iomode[n][c]]]
      /\ level' = [level EXCEPT ![n] = [c \in Chans |-> IF c \in mask /\ "DIO" \notin BitsOf(Bitmap(list), c)
                                           THEN "VALUE" \in BitsOf(Bitmap(list), c) ELSE level[n][c]]]
      /\ asked' = [asked EXCEPT ![n] = [c \in Chans |-> IF c \in mask THEN lt(c) ELSE asked[n][c]]]
      BY DEF ModeSet, Inout
<1>5. \A c \in mask : lt(c) \in Letters /\ BitsOf(Bitmap(list), c) = ModeBits(lt(c))
      BY <1>3
<1>. HIDE DEF lt, mask, n, list
<1>6. /\ \A m \in Nodes, c \in Chans : m # n \/ c \notin mask =>
             iomode'[m][c] = iomode[m][c] /\ level'[m][c] = level[m][c] /\ asked'[m][c] = asked[m][c]
      BY <1>4 DEF ModeTypes
<1>7. \A c \in Chans \cap mask : asked'[n][c] = lt(c) /\ iomode'[n][c] = Nibble(ModeBits(lt(c)))
      BY <1>1, <1>4, <1>5 DEF ModeTypes
<1>8. \A c \in Chans \cap mask : "DIO" \notin ModeBits(lt(c)) => level'[n][c] = ("VALUE" \in ModeBits(lt(c)))
      BY <1>1, <1>4, <1>5 DEF ModeTypes
<1>9. ModeTypes'
  <2>1. [c \in Chans |-> IF c \in mask THEN Nibble(BitsOf(Bitmap(list), c)) ELSE iomode[n][c]] \in [Chans -> Mode]
        BY <1>1, <1>5, NibbleIs DEF ModeTypes
  <2>2. [c \in Chans |-> IF c \in mask THEN lt(c) ELSE asked[n][c]] \in [Chans -> Letters \cup {None}]
        BY <1>1, <1>5 DEF ModeTypes
  <2>3. [c \in Chans |-> IF c \in mask /\ "DIO" \notin BitsOf(Bitmap(list), c)
                         THEN "VALUE" \in BitsOf(Bitmap(list), c) ELSE level[n][c]] \in [Chans -> BOOLEAN]
    <3>1. \A c \in Chans : ("VALUE" \in BitsOf(Bitmap(list), c)) \in BOOLEAN
          BY SMT
    <3>2. \A c \in Chans : level[n][c] \in BOOLEAN
          BY <1>1 DEF ModeTypes
    <3>. QED BY <3>1, <3>2, Zenon
  <2>. QED BY <1>4, <2>1, <2>2, <2>3 DEF ModeTypes
<1>10. SetInv'
  <2> SUFFICES ASSUME NEW m \in Nodes, NEW c \in Chans, asked'[m][c] # None
      PROVE  /\ iomode'[m][c] = Nibble(ModeBits(asked'[m][c]))
             /\ asked'[m][c] = "1" => level'[m][c]
             /\ asked'[m][c] = "0" => ~level'[m][c]
      BY DEF SetInv
  <2>1. CASE m = n /\ c \in mask
    <3>1. asked'[m][c] = lt(c) /\ iomode'[m][c] = Nibble(ModeBits(lt(c)))
          BY <1>7, <2>1
    <3>2. lt(c) \in {"0", "1"} => level'[m][c] = ("VALUE" \in ModeBits(lt(c))) /\ ("VALUE" \in ModeBits(lt(c)) <=> lt(c) = "1")
          BY <1>5, <1>8, <2>1, NibbleIs
    <3>. QED BY <3>1, <3>2
  <2>2. CASE ~(m = n /\ c \in mask)
        BY <1>6, <2>2 DEF SetInv
  <2>. QED BY <2>1, <2>2
<1>. QED BY <1>9, <1>10

\* What "mode" tells of a channel is its letter.
LEMMA ModeGetTells ==
  ASSUME ModeTypes, SetInv, ToldInv, NEW t \in Tools, ModeGet(t)
  PROVE  ToldInv'
<1>. DEFINE n == Line[t].node
<1>1. n \in Nodes /\ Line[t].chans \subseteq Chans
      BY ToolsAssumption DEF ToolsAssumption, ModeGet, Goes, Is, GoodLine
<1>2. PICK pin \in [Chans -> BOOLEAN] :
        /\ \A c \in Chans : iomode[n][c].out => pin[c] = level[n][c]
        /\ told' = told \cup {<<Described(Answer(iomode[n][c], pin[c])), asked[n][c]>> : c \in Line[t].chans}
      BY DEF ModeGet
<1>3. ASSUME NEW c \in Chans, asked[n][c] # None
      PROVE  LET d == Described(Answer(iomode[n][c], pin[c])) IN
             d = asked[n][c] \/ (d = "unknown" /\ asked[n][c] \in {"i", "I"})
  <2>1. asked[n][c] \in Letters /\ iomode[n][c] = Nibble(ModeBits(asked[n][c]))
        BY <1>1, <1>3 DEF ModeTypes, SetInv
  <2>2. asked[n][c] \in {"0", "1"} => pin[c] = level[n][c]
        BY <1>2, <2>1, NibbleIs
  <2>3. (asked[n][c] = "1" => pin[c]) /\ (asked[n][c] = "0" => ~pin[c])
        BY <1>1, <1>3, <2>2 DEF SetInv
  <2>. QED BY <2>1, <2>3, DescribedIs
<1> SUFFICES ASSUME NEW r \in told' PROVE r[2] \in {None, r[1]} \/ (r[1] = "unknown" /\ r[2] \in {"i", "I"})
    BY DEF ToldInv
<1>4. CASE r \in told
      BY <1>4 DEF ToldInv
<1>5. ASSUME NEW c \in Line[t].chans, r = <<Described(Answer(iomode[n][c], pin[c])), asked[n][c]>>
      PROVE  r[2] \in {None, r[1]} \/ (r[1] = "unknown" /\ r[2] \in {"i", "I"})
      BY <1>1, <1>3, <1>5
<1>. QED BY <1>2, <1>4, <1>5

\* Each step keeps the modes.
LEMMA ModesNext ==
  ASSUME ChannelsOnce, scene \in Scenes, ModeTypes, SetInv, ToldInv, [Next]_vars
  PROVE  ModeTypes' /\ SetInv' /\ ToldInv'
<1>1. ASSUME UNCHANGED <<iomode, level, asked, told>> PROVE ModeTypes' /\ SetInv' /\ ToldInv'
      BY <1>1 DEF ModeTypes, SetInv, ToldInv
<1>2. ASSUME NEW n \in Nodes, NEW c, PulseMode(n, c), UNCHANGED <<level, told>>
      PROVE  ModeTypes' /\ SetInv' /\ ToldInv'
      BY <1>2, PulseKeepsModes DEF ToldInv
<1>3. ASSUME NEW n \in Nodes, NEW c \in Chans, HwEdge(n, c) PROVE ModeTypes' /\ SetInv' /\ ToldInv'
      BY <1>1, <1>3 DEF HwEdge, card, past
<1>4. CASE Ruler
  <2>1. CASE RulerStart \/ RulerWait \/ RulerRemote
        BY <1>1, <2>1 DEF RulerStart, RulerWait, RulerRemote, card, past
  <2>2. CASE RulerLocal
        BY <1>2, <2>2, ToolsAssumption DEF RulerLocal, PulseAt, ToolsAssumption
  <2>. QED BY <1>4, <2>1, <2>2 DEF Ruler
<1>5. CASE RulerNotOpened \/ RulerFails
      BY <1>1, <1>5 DEF RulerNotOpened, RulerFails, card
<1>6. ASSUME NEW n \in Agents, AgentOpen(n) \/ AgentNotOpened(n) \/ Agent(n) \/ AgentFails(n) \/ OtherFrame(n)
      PROVE  ModeTypes' /\ SetInv' /\ ToldInv'
  <2>1. CASE AgentOpen(n) \/ AgentNotOpened(n) \/ AgentSkip(n) \/ AgentFails(n) \/ OtherFrame(n)
        BY <1>1, <2>1 DEF AgentOpen, AgentNotOpened, AgentSkip, AgentFails, OtherFrame, card, past
  <2>2. CASE AgentPulse(n)
        BY <1>2, <2>2, ToolsAssumption DEF AgentPulse, PulseAt, ToolsAssumption
  <2>. QED BY <1>6, <2>1, <2>2 DEF Agent
<1>7. ASSUME NEW t \in Tools, Command(t) PROVE ModeTypes' /\ SetInv' /\ ToldInv'
  <2>. DEFINE n == Line[t].node
  <2>1. n \in Nodes
        BY ToolsAssumption DEF ToolsAssumption
  <2>2. CASE Refused(t) \/ Fails(t) \/ StampStart(t) \/ StampRead(t) \/ StampNone(t)
        BY <1>1, <2>2 DEF Refused, Fails, StampStart, StampRead, StampNone, card, past
  <2>3. CASE PulseNow(t)
        BY <1>2, <2>1, <2>3 DEF PulseNow
  <2>4. CASE PulseTimed(t) \/ Pps(t)
        BY <1>2, <2>1, <2>4 DEF PulseTimed, Pps, Timed, PulseAt
  <2>5. CASE PulseOffset(t)
        BY <1>1, <2>5 DEF PulseOffset
  <2>6. CASE ModeSet(t)
        BY <2>6, InoutSets DEF ModeSet, ToldInv
  <2>7. CASE ModeGet(t)
    <3>1. ToldInv'
          BY <2>7, ModeGetTells
    <3>2. UNCHANGED <<iomode, level, asked>>
          BY <2>7 DEF ModeGet, card
    <3>. QED BY <3>1, <3>2 DEF ModeTypes, SetInv
  <2>. QED BY <1>7, <2>2, <2>3, <2>4, <2>5, <2>6, <2>7 DEF Command
<1>8. CASE UNCHANGED vars
      BY <1>1, <1>8 DEF vars, card, past
<1>9. scene.tools \subseteq Tools
      BY ToolsAssumption DEF ToolsAssumption
<1>. QED BY <1>3, <1>4, <1>5, <1>6, <1>7, <1>8, <1>9 DEF Next, Step

\* A channel is in the mode it was last given and "mode" says so, for any cards, channels
\* and commands that name a channel once each, and whatever pulses are made meanwhile.
THEOREM ModesAreAsAsked == ASSUME ChannelsOnce PROVE Spec => []ModesAsAsked
<1>. DEFINE Inv == scene \in Scenes /\ ModeTypes /\ SetInv /\ ToldInv
<1>1. Init => Inv
  <2> SUFFICES ASSUME Init PROVE Inv
      OBVIOUS
  <2>1. Nibble(ModeBits("i")) \in Mode /\ Nibble(ModeBits("p")) \in Mode
        BY NibbleIs DEF Letters
  <2>. QED BY <2>1 DEF Init, ModeTypes, SetInv, ToldInv
<1>2. Inv /\ [Next]_vars => Inv'
  <2> SUFFICES ASSUME Inv, [Next]_vars PROVE Inv'
      OBVIOUS
  <2>1. scene' = scene
        BY DEF Next, vars
  <2>. QED BY <2>1, ModesNext
<1>3. Inv => ModesAsAsked
      BY DEF SetInv, ToldInv, ModesAsAsked
<1>. QED BY <1>1, <1>2, <1>3, PTL DEF Spec

-----------------------------------------------------------------------------
(* Stamps.                                                                 *)

Event == [node : Nodes, ch : Chans, t : Times]

StampTypes ==
  /\ scene \in Scenes
  /\ events \in Seq(Event) /\ Len(events) <= MaxEvents
  /\ had \in [1 .. MaxEvents -> Tools \cup {None, "ruler", "unheeded"}]
  /\ ring \in [Nodes -> [Chans -> Seq(1 .. MaxEvents)]]
  /\ exit \in [Tools -> {None, "0", "1", "run"}] /\ atStart \in [Tools -> SUBSET (1 .. MaxEvents)]
  /\ rpc \in {"no", "dead", "wait", "act"} /\ (rpc \in {"wait", "act"} => Args.in \in Chans)

\* A ring has stamps of its channel.
OwnInv == \A n \in Nodes, c \in Chans : \A e \in Range(ring[n][c]) :
  e \in 1 .. Len(events) /\ events[e].ch = c

\* What a command has read is of its channels.
HadInv == \A e \in 1 .. MaxEvents :
  /\ had[e] # None => e <= Len(events)
  /\ had[e] \in Tools => events[e].ch \in Line[had[e]].chans

\* A command finds what was there when it started, unless somebody has read it.
StartInv == \A t \in Tools :
  /\ exit[t] = None => atStart[t] = {}
  /\ exit[t] = "run" => Line[t].chans \subseteq Chans
  /\ exit[t] = "run" => \A e \in atStart[t] :
       had[e] # None \/ \E c \in Line[t].chans : e \in Range(ring[Line[t].node][c])
  /\ exit[t] = "0" => \A e \in atStart[t] : had[e] # None

Stamps == StampTypes /\ OwnInv /\ HadInv /\ StartInv

\* A sequence in two parts.
LEMMA PartsAre ==
  ASSUME NEW S, NEW q \in Seq(S), NEW k \in 1 .. Len(q)
  PROVE  /\ SubSeq(q, 1, k) \in Seq(S) /\ Len(SubSeq(q, 1, k)) = k
         /\ \A i \in 1 .. k : SubSeq(q, 1, k)[i] = q[i]
         /\ SubSeq(q, k + 1, Len(q)) \in Seq(S) /\ Len(SubSeq(q, k + 1, Len(q))) = Len(q) - k
         /\ \A i \in 1 .. Len(q) - k : SubSeq(q, k + 1, Len(q))[i] = q[k + i]
<1>1. Len(q) \in Nat /\ k \in 1 .. Len(q) /\ \A i \in 1 .. Len(q) : q[i] \in S
      BY LenProperties
<1>2. k + 1 \in Int /\ k \in Int
      BY <1>1
<1>3. /\ SubSeq(q, 1, k) \in Seq(S) /\ Len(SubSeq(q, 1, k)) = k
      /\ \A i \in 1 .. k : SubSeq(q, 1, k)[i] = q[i]
      BY <1>1, <1>2
<1>4. /\ SubSeq(q, k + 1, Len(q)) \in Seq(S) /\ Len(SubSeq(q, k + 1, Len(q))) = Len(q) - k
      /\ \A i \in 1 .. Len(q) - k : SubSeq(q, k + 1, Len(q))[i] = q[k + i]
      BY <1>1, <1>2
<1>. QED BY <1>3, <1>4

\* The stamps that are taken and those that stay.
LEMMA TakenIs ==
  ASSUME StampTypes, NEW n \in Nodes, NEW c \in Chans, ring[n][c] # <<>>, Take(n, c)
  PROVE  /\ Range(Taken(n, c)) \subseteq Range(ring[n][c])
         /\ ring[n][c][1] \in Range(ring[n][c])
         /\ Taken(n, c)[1] \in Range(Taken(n, c))
         /\ ring' \in [Nodes -> [Chans -> Seq(1 .. MaxEvents)]]
         /\ \A m \in Nodes, d \in Chans : m # n \/ d # c => ring'[m][d] = ring[m][d]
         /\ Range(ring[n][c]) = Range(Taken(n, c)) \cup Range(ring'[n][c])
<1>. DEFINE q == ring[n][c]  k == Min({NStamp, Len(q)})  rest == SubSeq(q, k + 1, Len(q))
<1>0. q \in Seq(1 .. MaxEvents)
      BY DEF StampTypes
<1>1. /\ q \in Seq(1 .. MaxEvents) /\ Len(q) \in Nat \ {0}
      /\ \A x : x \in Range(q) <=> \E i \in 1 .. Len(q) : q[i] = x
      BY <1>0, RangeIs
<1>2. NStamp \in Nat \ {0}
      BY ToolsAssumption DEF ToolsAssumption
<1>3. k \in 1 .. Len(q)
  <2>1. \E x \in {NStamp, Len(q)} : \A y \in {NStamp, Len(q)} : x <= y
        BY <1>1, <1>2
  <2>2. k \in {NStamp, Len(q)} /\ k <= Len(q)
        BY <2>1 DEF Min
  <2>. QED BY <1>1, <1>2, <2>2
<1>. HIDE DEF k
<1>4. /\ SubSeq(q, 1, k) \in Seq(1 .. MaxEvents) /\ Len(SubSeq(q, 1, k)) = k
      /\ \A i \in 1 .. k : SubSeq(q, 1, k)[i] = q[i]
      BY <1>0, <1>3, PartsAre
<1>5. /\ rest \in Seq(1 .. MaxEvents) /\ Len(rest) = Len(q) - k
      /\ \A i \in 1 .. Len(q) - k : rest[i] = q[k + i]
      BY <1>0, <1>3, PartsAre
<1>6. /\ Taken(n, c) = SubSeq(q, 1, k)
      /\ \A x : x \in Range(Taken(n, c)) <=> \E i \in 1 .. k : Taken(n, c)[i] = x
  <2>1. Taken(n, c) = SubSeq(q, 1, k)
        BY DEF Taken, k
  <2>2. Taken(n, c) \in Seq(1 .. MaxEvents) /\ Len(Taken(n, c)) = k
        BY <1>4, <2>1
  <2>. QED BY <2>1, <2>2, RangeIs
<1>7. Len(Taken(n, c)) = k
      BY <1>4, <1>6
<1>8. ring' = [ring EXCEPT ![n][c] = rest]
      BY <1>7 DEF Take
<1>. HIDE DEF rest
<1>13. \A x : x \in Range(rest) <=> \E i \in 1 .. Len(q) - k : rest[i] = x
      BY <1>5, RangeIs
<1>9. ring' \in [Nodes -> [Chans -> Seq(1 .. MaxEvents)]] /\ ring'[n][c] = rest
      /\ \A m \in Nodes, d \in Chans : m # n \/ d # c => ring'[m][d] = ring[m][d]
      BY <1>5, <1>8 DEF StampTypes
<1>. HIDE DEF q
<1>10. ASSUME NEW e \in Range(q) PROVE e \in Range(Taken(n, c)) \cup Range(rest)
  <2>1. PICK i \in 1 .. Len(q) : q[i] = e
        BY <1>1
  <2>2. CASE i <= k
    <3>1. i \in 1 .. k /\ Taken(n, c)[i] = e
          BY <1>3, <1>4, <1>6, <2>1, <2>2
    <3>. QED BY <1>6, <3>1
  <2>3. CASE i > k
    <3>1. i - k \in 1 .. Len(q) - k /\ rest[i - k] = e
          BY <1>1, <1>3, <1>5, <2>1, <2>3
    <3>. QED BY <1>13, <3>1
  <2>. QED BY <1>3, <2>1, <2>2, <2>3
<1>11. ASSUME NEW e \in Range(Taken(n, c)) \cup Range(rest) PROVE e \in Range(q)
  <2>1. CASE e \in Range(Taken(n, c))
    <3>1. PICK i \in 1 .. k : Taken(n, c)[i] = e
          BY <1>6, <2>1
    <3>2. i \in 1 .. Len(q) /\ q[i] = e
          BY <1>1, <1>3, <1>4, <1>6, <3>1
    <3>. QED BY <1>1, <3>2
  <2>2. CASE e \in Range(rest)
    <3>1. PICK i \in 1 .. Len(q) - k : rest[i] = e
          BY <1>13, <2>2
    <3>2. k + i \in 1 .. Len(q) /\ q[k + i] = e
          BY <1>1, <1>3, <1>5, <3>1
    <3>. QED BY <1>1, <3>2
  <2>. QED BY <1>11, <2>1, <2>2
<1>12. q[1] \in Range(q) /\ Taken(n, c)[1] \in Range(Taken(n, c))
  <2>1. 1 \in 1 .. Len(q) /\ 1 \in 1 .. k
        BY <1>1, <1>3
  <2>. QED BY <1>1, <1>6, <2>1
<1>. QED BY <1>9, <1>10, <1>11, <1>12 DEF q

\* An edge adds a stamp to the ring of its channel.
LEMMA EdgeKeeps ==
  ASSUME Stamps, NEW n \in Nodes, NEW c \in Chans, HwEdge(n, c), scene' = scene
  PROVE  Stamps'
<1>. DEFINE k == Len(events) + 1
<1>1. PICK x \in Times : events' = Append(events, [node |-> n, ch |-> c, t |-> x])
      BY DEF HwEdge
<1>2. events \in Seq(Event) /\ Len(events) \in Nat /\ [node |-> n, ch |-> c, t |-> x] \in Event
      BY LenProperties DEF Stamps, StampTypes, Event
<1>3. /\ events' \in Seq(Event) /\ Len(events') = k /\ events'[k].ch = c
      /\ \A e \in 1 .. Len(events) : events'[e] = events[e]
      BY <1>1, <1>2, AppendIs
<1>4. MaxEvents \in Nat /\ k \in 1 .. MaxEvents
      BY <1>2, ToolsAssumption DEF ToolsAssumption, HwEdge
<1>5. had' = had /\ exit' = exit /\ atStart' = atStart /\ rpc' = rpc /\ Args' = Args
      BY DEF HwEdge, ruler, tool, Args
<1>6. /\ ring' = [ring EXCEPT ![n][c] = Append(ring[n][c], k)] /\ ring[n][c] \in Seq(1 .. MaxEvents)
      BY DEF HwEdge, Stamps, StampTypes
<1>7. Append(ring[n][c], k) \in Seq(1 .. MaxEvents) /\ Range(Append(ring[n][c], k)) = Range(ring[n][c]) \cup {k}
      BY <1>4, <1>6, AppendIs
<1>8. /\ ring' \in [Nodes -> [Chans -> Seq(1 .. MaxEvents)]]
      /\ \A m \in Nodes, d \in Chans : Range(ring'[m][d]) = Range(ring[m][d]) \cup IF m = n /\ d = c THEN {k} ELSE {}
  <2>1. ring' \in [Nodes -> [Chans -> Seq(1 .. MaxEvents)]] /\ ring'[n][c] = Append(ring[n][c], k)
        BY <1>6, <1>7 DEF Stamps, StampTypes
  <2>2. \A m \in Nodes, d \in Chans : m # n \/ d # c => ring'[m][d] = ring[m][d]
        BY <1>6 DEF Stamps, StampTypes
  <2>. QED BY <1>7, <2>1, <2>2
<1>9. StampTypes'
      BY <1>3, <1>4, <1>5, <1>8 DEF Stamps, StampTypes
<1>10. OwnInv'
  <2> SUFFICES ASSUME NEW m \in Nodes, NEW d \in Chans, NEW e \in Range(ring'[m][d])
      PROVE  e \in 1 .. Len(events') /\ events'[e].ch = d
      BY DEF OwnInv
  <2>1. CASE e \in Range(ring[m][d])
        BY <1>2, <1>3, <2>1 DEF Stamps, OwnInv
  <2>2. CASE m = n /\ d = c /\ e = k
        BY <1>2, <1>3, <2>2
  <2>. QED BY <1>8, <2>1, <2>2
<1>11. HadInv'
  <2> SUFFICES ASSUME NEW e \in 1 .. MaxEvents
      PROVE  (had[e] # None => e <= Len(events')) /\ (had[e] \in Tools => events'[e].ch \in Line[had[e]].chans)
      BY <1>5 DEF HadInv
  <2>1. had[e] # None => e \in 1 .. Len(events)
        BY <1>2 DEF Stamps, HadInv
  <2>2. None \notin Tools
        BY ToolsAssumption DEF ToolsAssumption, None
  <2>. QED BY <1>2, <1>3, <2>1, <2>2 DEF Stamps, HadInv
<1>12. StartInv'
  <2>1. \A t \in Tools : Line[t].node \in Nodes
        BY ToolsAssumption DEF ToolsAssumption
  <2> SUFFICES ASSUME NEW t \in Tools, exit[t] = "run", NEW e \in atStart[t], had[e] = None
      PROVE  \E d \in Line[t].chans : e \in Range(ring'[Line[t].node][d])
      BY <1>5 DEF Stamps, StartInv
  <2>2. PICK d \in Line[t].chans : e \in Range(ring[Line[t].node][d])
        BY DEF Stamps, StartInv
  <2>3. d \in Chans
        BY DEF Stamps, StartInv
  <2>. QED BY <1>8, <2>1, <2>2, <2>3
<1>. QED BY <1>9, <1>10, <1>11, <1>12 DEF Stamps

\* Whoever takes stamps of a channel has them.
LEMMA TakeKeeps ==
  ASSUME Stamps, NEW n \in Nodes, NEW c \in Chans, ring[n][c] # <<>>, Take(n, c),
         UNCHANGED <<scene, events, exit, atStart>>, rpc' \in {"no", "dead", "wait", "act"}, rpc' \in {"wait", "act"} => Args.in \in Chans,
         had' \in [1 .. MaxEvents -> Tools \cup {None, "ruler", "unheeded"}],
         \A e \in 1 .. MaxEvents :
           IF e \in Range(Taken(n, c)) THEN had'[e] # None /\ (had'[e] \in Tools => c \in Line[had'[e]].chans)
                                       ELSE had'[e] = had[e]
  PROVE  Stamps'
<1>1. /\ Range(Taken(n, c)) \subseteq Range(ring[n][c])
      /\ ring' \in [Nodes -> [Chans -> Seq(1 .. MaxEvents)]]
      /\ \A m \in Nodes, d \in Chans : m # n \/ d # c => ring'[m][d] = ring[m][d]
      /\ Range(ring[n][c]) = Range(Taken(n, c)) \cup Range(ring'[n][c])
      BY TakenIs DEF Stamps
<1>2. \A m \in Nodes, d \in Chans : Range(ring'[m][d]) \subseteq Range(ring[m][d])
      BY <1>1
<1>3. StampTypes'
      BY <1>1 DEF Stamps, StampTypes, Args
<1>4. OwnInv'
      BY <1>2 DEF Stamps, OwnInv
<1>5. HadInv'
  <2> SUFFICES ASSUME NEW e \in 1 .. MaxEvents
      PROVE  (had'[e] # None => e <= Len(events)) /\ (had'[e] \in Tools => events[e].ch \in Line[had'[e]].chans)
      BY DEF HadInv
  <2>1. CASE e \in Range(Taken(n, c))
    <3>1. e \in 1 .. Len(events) /\ events[e].ch = c
          BY <1>1, <2>1 DEF Stamps, OwnInv
    <3>. QED BY <2>1, <3>1
  <2>2. CASE e \notin Range(Taken(n, c))
        BY <2>2 DEF Stamps, HadInv
  <2>. QED BY <2>1, <2>2
<1>6. StartInv'
  <2>1. \A t \in Tools : Line[t].node \in Nodes
        BY ToolsAssumption DEF ToolsAssumption
  <2>2. \A e \in 1 .. MaxEvents : had[e] # None => had'[e] # None
        OBVIOUS
  <2>3. ASSUME NEW t \in Tools, exit[t] = "run", NEW e \in atStart[t], had'[e] = None
        PROVE  \E d \in Line[t].chans : e \in Range(ring'[Line[t].node][d])
    <3>1. e \in 1 .. MaxEvents
          BY DEF Stamps, StampTypes
    <3>2. PICK d \in Line[t].chans : e \in Range(ring[Line[t].node][d])
          BY <2>2, <2>3, <3>1 DEF Stamps, StartInv
    <3>3. d \in Chans
          BY <2>3 DEF Stamps, StartInv
    <3>4. e \notin Range(Taken(n, c))
          BY <2>3, <3>1
    <3>. QED BY <1>1, <2>1, <3>2, <3>3, <3>4
  <2>4. \A t \in Tools : atStart[t] \subseteq 1 .. MaxEvents
        BY DEF Stamps, StampTypes
  <2>. QED BY <2>2, <2>3, <2>4 DEF Stamps, StartInv
<1>. QED BY <1>3, <1>4, <1>5, <1>6 DEF Stamps

\* The ruler takes stamps of its input.
LEMMA WaitKeeps ==
  ASSUME Stamps, RulerWait, scene' = scene
  PROVE  Stamps'
<1>. DEFINE c == Args.in  got == Taken(Home, c)
<1>1. Home \in Nodes /\ c \in Chans /\ ring[Home][c] # <<>> /\ Take(Home, c)
      BY ToolsAssumption DEF ToolsAssumption, RulerWait, Ready, Stamps, StampTypes
<1>2. /\ had' = [e \in 1 .. MaxEvents |-> IF e = got[1] THEN "ruler" ELSE IF e \in Range(got) THEN "unheeded" ELSE had[e]]
      /\ had \in [1 .. MaxEvents -> Tools \cup {None, "ruler", "unheeded"}]
      BY DEF RulerWait, Stamps, StampTypes
<1>3. got[1] \in Range(got)
      BY <1>1, TakenIs DEF Stamps
<1>4. "ruler" \notin Tools /\ "unheeded" \notin Tools /\ None \notin {"ruler", "unheeded"}
      BY ToolsAssumption DEF ToolsAssumption, None
<1>5. UNCHANGED <<events, exit, atStart>> /\ rpc' = "act"
      BY DEF RulerWait, tool
<1>6. had' \in [1 .. MaxEvents -> Tools \cup {None, "ruler", "unheeded"}]
      BY <1>2
<1>7. \A e \in 1 .. MaxEvents : IF e \in Range(got) THEN had'[e] \in {"ruler", "unheeded"} ELSE had'[e] = had[e]
      BY <1>2, <1>3
<1>. HIDE DEF c
<1>. QED BY <1>1, <1>4, <1>5, <1>6, <1>7, TakeKeeps DEF c

\* A command takes stamps of the first of its channels that has any.
LEMMA ReadKeeps ==
  ASSUME Stamps, NEW t \in Tools, StampRead(t), scene' = scene
  PROVE  Stamps'
<1>. DEFINE n == Line[t].node  cs == Ready(n, Line[t].chans)  c == Min(cs)
<1>1. n \in Nodes /\ Chans \subseteq Nat
      BY ToolsAssumption DEF ToolsAssumption
<1>2. cs # {} /\ cs \subseteq Line[t].chans /\ Line[t].chans \subseteq Chans
      BY DEF StampRead, AskedOf, Ready, Stamps, StartInv
<1>3. c \in cs
  <2>1. cs \in SUBSET Nat
        BY <1>1, <1>2
  <2>2. \E x \in cs : \A y \in cs : x <= y
        BY <1>2, <2>1, LeastNat
  <2>. QED BY <2>2 DEF Min
<1>. HIDE DEF c
<1>4. c \in Chans /\ c \in Line[t].chans /\ ring[n][c] # <<>> /\ Take(n, c)
      BY <1>2, <1>3 DEF Ready, StampRead, AskedOf, c
<1>5. /\ had' = [e \in 1 .. MaxEvents |-> IF e \in Range(Taken(n, c)) THEN t ELSE had[e]]
      /\ had \in [1 .. MaxEvents -> Tools \cup {None, "ruler", "unheeded"}]
      BY DEF StampRead, AskedOf, c, Stamps, StampTypes
<1>6. t # None
      BY ToolsAssumption DEF ToolsAssumption, None
<1>7. UNCHANGED <<events, exit, atStart, rpc>>
      BY DEF StampRead, ruler
<1>8. rpc' \in {"no", "dead", "wait", "act"} /\ (rpc' \in {"wait", "act"} => Args.in \in Chans)
      BY <1>7 DEF Stamps, StampTypes
<1>9. had' \in [1 .. MaxEvents -> Tools \cup {None, "ruler", "unheeded"}]
      BY <1>5
<1>. QED BY <1>1, <1>4, <1>5, <1>6, <1>7, <1>8, <1>9, TakeKeeps

\* A command that starts sees what is there, ...
LEMMA StartKeeps ==
  ASSUME Stamps, NEW t \in Tools, StampStart(t), scene' = scene
  PROVE  Stamps'
<1>. DEFINE n == Line[t].node  there == UNION {Range(ring[n][c]) : c \in Line[t].chans}
<1>1. n \in Nodes /\ Line[t].chans \subseteq Chans
      BY ToolsAssumption DEF ToolsAssumption, StampStart, Is, GoodLine
<1>2. /\ exit' = [exit EXCEPT ![t] = "run"] /\ atStart' = [atStart EXCEPT ![t] = there]
      /\ UNCHANGED <<ring, events, had, rpc>>
      BY DEF StampStart, Exit, Idle, ruler
<1>3. there \subseteq 1 .. MaxEvents
  <2>1. \A c \in Chans : ring[n][c] \in Seq(1 .. MaxEvents)
        BY <1>1 DEF Stamps, StampTypes
  <2>2. \A c \in Chans : Range(ring[n][c]) \subseteq 1 .. MaxEvents
        BY <2>1, RangeIs
  <2>. QED BY <1>1, <2>2
<1>4. StampTypes'
      BY <1>2, <1>3 DEF Stamps, StampTypes, Args
<1>5. OwnInv' /\ HadInv'
      BY <1>2 DEF Stamps, OwnInv, HadInv
<1>6. StartInv'
  <2> SUFFICES ASSUME NEW u \in Tools
      PROVE  /\ exit'[u] = None => atStart'[u] = {}
             /\ exit'[u] = "run" => Line[u].chans \subseteq Chans
             /\ exit'[u] = "run" => \A e \in atStart'[u] :
                  had[e] # None \/ \E c \in Line[u].chans : e \in Range(ring[Line[u].node][c])
             /\ exit'[u] = "0" => \A e \in atStart'[u] : had[e] # None
      BY <1>2 DEF StartInv
  <2>1. CASE u = t
    <3>1. exit'[u] = "run" /\ atStart'[u] = there
          BY <1>2, <2>1 DEF Stamps, StampTypes
    <3>2. "run" # None /\ "run" # "0"
          BY DEF None
    <3>. QED BY <1>1, <2>1, <3>1, <3>2
  <2>2. CASE u # t
    <3>1. exit'[u] = exit[u] /\ atStart'[u] = atStart[u]
          BY <1>2, <2>2 DEF Stamps, StampTypes
    <3>. QED BY <3>1 DEF Stamps, StartInv
  <2>. QED BY <2>1, <2>2
<1>. QED BY <1>4, <1>5, <1>6 DEF Stamps

\* ... and when it ends, nothing of that is left.
LEMMA ExitKeeps ==
  ASSUME Stamps, NEW t \in Tools, NEW status \in {"0", "1"}, exit' = [exit EXCEPT ![t] = status],
         exit[t] = None \/ status = "1" \/ (exit[t] = "run" /\ Ready(Line[t].node, Line[t].chans) = {}),
         UNCHANGED <<scene, ring, events, had, rpc, atStart>>
  PROVE  Stamps'
<1>1. StampTypes' /\ OwnInv' /\ HadInv'
      BY DEF Stamps, StampTypes, OwnInv, HadInv, Args
<1>2. StartInv'
  <2> SUFFICES ASSUME NEW u \in Tools
      PROVE  /\ exit'[u] = None => atStart[u] = {}
             /\ exit'[u] = "run" => Line[u].chans \subseteq Chans
             /\ exit'[u] = "run" => \A e \in atStart[u] :
                  had[e] # None \/ \E c \in Line[u].chans : e \in Range(ring[Line[u].node][c])
             /\ exit'[u] = "0" => \A e \in atStart[u] : had[e] # None
      BY DEF StartInv
  <2>1. CASE u = t
    <3>1. exit'[u] = status /\ status \notin {None, "run"}
          BY <2>1 DEF Stamps, StampTypes, None
    <3>2. ASSUME status = "0", NEW e \in atStart[u] PROVE had[e] # None
      <4>1. CASE exit[t] = None
            BY <2>1, <3>2, <4>1 DEF Stamps, StartInv
      <4>2. CASE exit[t] = "run" /\ Ready(Line[t].node, Line[t].chans) = {}
        <5>1. \A c \in Line[t].chans : ring[Line[t].node][c] = <<>>
              BY <4>2 DEF Ready
        <5>2. had[e] # None \/ \E c \in Line[t].chans : e \in Range(ring[Line[t].node][c])
              BY <2>1, <4>2 DEF Stamps, StartInv
        <5>. QED BY <5>1, <5>2, EmptyIs
      <4>. QED BY <3>2, <4>1, <4>2
    <3>. QED BY <3>1, <3>2
  <2>2. CASE u # t
    <3>1. exit'[u] = exit[u]
          BY <2>2 DEF Stamps, StampTypes
    <3>. QED BY <3>1 DEF Stamps, StartInv
  <2>. QED BY <2>1, <2>2
<1>. QED BY <1>1, <1>2 DEF Stamps

\* Each step keeps what is known of the stamps.
LEMMA StampsNext ==
  ASSUME Stamps, [Next]_vars
  PROVE  Stamps'
<1>0. scene' = scene /\ scene \in Scenes
      BY DEF Next, vars, Stamps, StampTypes
<1>1. ASSUME UNCHANGED <<ring, events, had, exit, atStart>>,
             rpc' \in {rpc, "dead"} \/ (rpc' \in {"wait", "act"} /\ Args.in \in Chans)
      PROVE  Stamps'
  <2>1. StampTypes'
        BY <1>0, <1>1 DEF Stamps, StampTypes, Args
  <2>. QED BY <1>1, <2>1 DEF Stamps, OwnInv, HadInv, StartInv
<1>2. ASSUME NEW n \in Nodes, NEW c \in Chans, HwEdge(n, c) PROVE Stamps'
      BY <1>0, <1>2, EdgeKeeps
<1>3. CASE Ruler
  <2>1. CASE RulerStart
    <3>1. rpc' = "dead" \/ (rpc' = "wait" /\ Args.in \in Chans)
          BY <2>1 DEF RulerStart, GoodRuler
    <3>. QED BY <1>1, <2>1, <3>1 DEF RulerStart, tool
  <2>2. CASE RulerWait
        BY <1>0, <2>2, WaitKeeps
  <2>3. CASE RulerLocal \/ RulerRemote
    <3>1. rpc = "act" /\ rpc' \in {"act", "wait"} /\ UNCHANGED <<ring, events, had, exit, atStart>>
          BY <2>3 DEF RulerLocal, RulerRemote, ActionDone, tool
    <3>2. Args.in \in Chans
          BY <3>1 DEF Stamps, StampTypes
    <3>. QED BY <1>1, <3>1, <3>2
  <2>. QED BY <1>3, <2>1, <2>2, <2>3 DEF Ruler
<1>4. CASE RulerNotOpened \/ RulerFails
      BY <1>1, <1>4 DEF RulerNotOpened, RulerFails, tool
<1>5. ASSUME NEW n \in Agents, AgentOpen(n) \/ AgentNotOpened(n) \/ Agent(n) \/ AgentFails(n) \/ OtherFrame(n)
      PROVE  Stamps'
  <2>1. UNCHANGED <<ring, events, had, exit, atStart, rpc>>
        BY <1>5 DEF AgentOpen, AgentNotOpened, Agent, AgentSkip, AgentPulse, AgentFails, OtherFrame, tool, ruler
  <2>. QED BY <1>1, <2>1
<1>6. ASSUME NEW t \in Tools, Command(t) PROVE Stamps'
  <2>1. CASE Refused(t) \/ Fails(t)
    <3>1. /\ exit' = [exit EXCEPT ![t] = "1"] /\ UNCHANGED <<ring, events, had, rpc, atStart>>
          BY <2>1 DEF Refused, Fails, Exit, Idle, ruler
    <3>. QED BY <1>0, <3>1, ExitKeeps
  <2>2. CASE PulseNow(t) \/ PulseTimed(t) \/ Pps(t) \/ PulseOffset(t) \/ ModeSet(t) \/ ModeGet(t)
    <3>1. /\ exit[t] = None /\ exit' = [exit EXCEPT ![t] = "0"] /\ UNCHANGED <<ring, events, had, rpc, atStart>>
          BY <2>2 DEF PulseNow, PulseTimed, Pps, Timed, PulseOffset, ModeSet, ModeGet, Goes, Plain, Exit, Idle, ruler
    <3>. QED BY <1>0, <3>1, ExitKeeps
  <2>3. CASE StampStart(t)
        BY <1>0, <2>3, StartKeeps
  <2>4. CASE StampRead(t)
        BY <1>0, <2>4, ReadKeeps
  <2>5. CASE StampNone(t)
    <3>1. /\ exit[t] = "run" /\ exit' = [exit EXCEPT ![t] = "0"] /\ UNCHANGED <<ring, events, had, rpc, atStart>>
          /\ Ready(Line[t].node, Line[t].chans) = {}
          BY <2>5 DEF StampNone, Exit, Idle, ruler, AskedOf
    <3>. QED BY <1>0, <3>1, ExitKeeps
  <2>. QED BY <1>6, <2>1, <2>2, <2>3, <2>4, <2>5 DEF Command
<1>7. CASE UNCHANGED vars
      BY <1>1, <1>7 DEF vars, tool, ruler
<1>8. scene.tools \subseteq Tools
      BY <1>0, ToolsAssumption DEF ToolsAssumption
<1>. QED BY <1>2, <1>3, <1>4, <1>5, <1>6, <1>7, <1>8 DEF Next, Step

\* When "stamp" or "stampm" ends well, every stamp that was there when it started has been
\* read, and it has read no other channel's: any number of cards, channels, commands and
\* stamps, with the ruler reading the same rings.
THEOREM StampsAreAllRead == Spec => []StampsAreRead
<1>1. Init => Stamps
  <2> SUFFICES ASSUME Init PROVE Stamps
      OBVIOUS
  <2>1. StampTypes
        BY ToolsAssumption, EmptyIs DEF ToolsAssumption, Init, StampTypes, None
  <2>2. \A n \in Nodes, c \in Chans : Range(ring[n][c]) = {}
        BY EmptyIs DEF Init
  <2>3. OwnInv
        BY <2>2 DEF OwnInv
  <2>4. HadInv
        BY ToolsAssumption DEF ToolsAssumption, Init, HadInv, None
  <2>5. StartInv
        BY DEF Init, StartInv, None
  <2>. QED BY <2>1, <2>3, <2>4, <2>5 DEF Stamps
<1>2. Stamps /\ [Next]_vars => Stamps'
      BY StampsNext
<1>3. Stamps => StampsAreRead
  <2> SUFFICES ASSUME Stamps PROVE StampsAreRead
      OBVIOUS
  <2>1. \A t \in Tools : exit[t] = "0" => \A e \in atStart[t] : had[e] # None
        BY DEF Stamps, StartInv
  <2>2. \A e \in DOMAIN events : e \in 1 .. MaxEvents
        BY LenProperties, ToolsAssumption DEF Stamps, StampTypes, ToolsAssumption
  <2>. QED BY <2>1, <2>2 DEF StampsAreRead, Stamps, HadInv
<1>. QED BY <1>1, <1>2, <1>3, PTL DEF Spec

-----------------------------------------------------------------------------
(* stamp-frame.                                                            *)

(* Types.                                                                  *)

Time == {"tx", "rx", "none", "junk"} \X Nat
Frame == [k : Nat, stamp : BOOLEAN, phase : 0 .. 1, ts : [0 .. 3 -> Time]]
Place == {"no", "send0", "stamp0", "send1", "stamp1", "recv0", "recv1", "report", "done"}

Types ==
  /\ at \in [Parties -> Place] /\ at[Listener] # "report"
  /\ f \in [Parties -> Frame] /\ stamp \in [Parties -> Time]
  /\ queue \in [Parties -> Seq(Frame)] /\ errors \in [Parties -> Seq(Time)] /\ coming \in [Parties -> Seq(Nat)]
  /\ sent \in Nat /\ mine \in [Clients -> [own : Nat, answer : Nat]]
  /\ troubles \in [n : Nat, met : SUBSET Clients]

\* The listener is no client.
LEMMA ListenerIs ==
  /\ Listener \in Parties /\ \A c \in Clients : c \in Parties /\ c # Listener
  /\ \A p \in Parties : p # Listener => p \in Clients
  /\ \A p \in Parties : SendOffset(p) \in 0 .. 3 /\ RecvOffset(p) \in 0 .. 3
BY FrameAssumption DEF FrameAssumption, Parties, SendOffset, RecvOffset

\* The times of a frame that is not used yet.
LEMMA BlankIs ==
  /\ Zero \in Time /\ Junk \in Time /\ NoTimes \in [0 .. 3 -> Time]
  /\ Blank \in Frame /\ Blank.k = 0 /\ Blank.stamp /\ Blank.phase = 0 /\ Blank.ts = NoTimes
<1>1. Zero \in Time /\ Junk \in Time
      BY DEF Zero, Junk, Time
<1>2. NoTimes \in [0 .. 3 -> Time]
      BY <1>1 DEF NoTimes
<1>. QED BY <1>2, <1>1 DEF Blank, Frame

\* One more frame, stamp or number.
LEMMA AppendTypes ==
  /\ \A s \in Seq(Frame), g \in Frame : Append(s, g) \in Seq(Frame)
  /\ \A s \in Seq(Time), x \in Time : Append(s, x) \in Seq(Time)
  /\ \A s \in Seq(Nat), x \in Nat : Append(s, x) \in Seq(Nat)
BY AppendProperties

\* One less, ...
LEMMA TailTypes ==
  /\ \A s \in Seq(Frame) : s # <<>> => Head(s) \in Frame /\ Tail(s) \in Seq(Frame)
  /\ \A s \in Seq(Time) : s # <<>> => Head(s) \in Time /\ Tail(s) \in Seq(Time)
  /\ \A s \in Seq(Nat) : s # <<>> => Head(s) \in Nat /\ Tail(s) \in Seq(Nat)
BY HeadTailProperties

\* ... or none left.
LEMMA NoneTypes == <<>> \in Seq(Frame) /\ <<>> \in Seq(Time) /\ <<>> \in Seq(Nat)
BY EmptySeq

\* What changes when something goes wrong: whoever is in an exchange meets it.
LEMMA TroubleIs ==
  ASSUME Types, Trouble
  PROVE  /\ troubles' \in [n : Nat, met : SUBSET Clients] /\ troubles.met \subseteq troubles'.met
         /\ \A c \in Clients : Running(c) => c \in troubles'.met
BY DEF Types, Trouble

\* What a frame that leaves changes.
LEMMA OutIs ==
  ASSUME Types, NEW p \in Parties, NEW g \in Frame, Out(p, g)
  PROVE  /\ sent' = sent + 1 /\ f' = [f EXCEPT ![p] = g]
         /\ coming' = [coming EXCEPT ![p] = Append(@, sent + 1)]
         /\ queue' \in [Parties -> Seq(Frame)] /\ coming' \in [Parties -> Seq(Nat)]
         /\ f' \in [Parties -> Frame] /\ sent' \in Nat
         /\ troubles' \in [n : Nat, met : SUBSET Clients]
         /\ \A q \in Parties : queue'[q] = queue[q] \/ queue'[q] = Append(queue[q], [g EXCEPT !.k = sent + 1])
         /\ queue'[p] = queue[p]
         /\ \A q \in Parties : ~Running(q) => queue'[q] = queue[q]
         /\ \/ Trouble
            \/ /\ troubles' = troubles
               /\ \A q \in Parties : q # p /\ Running(q) => queue'[q] = Append(queue[q], [g EXCEPT !.k = sent + 1])
<1>. DEFINE e == [g EXCEPT !.k = sent + 1]
<1>1. e \in Frame /\ sent + 1 \in Nat
  <2>1. sent \in Nat
        BY DEF Types
  <2>. QED BY <2>1 DEF Frame
<1>2. PICK to \in SUBSET {q \in Parties \ {p} : Running(q)} :
        /\ Arrives(e, to)
        /\ (troubles' = troubles /\ to = {q \in Parties \ {p} : Running(q)}) \/ Trouble
      BY DEF Out
<1>3. queue' = [q \in Parties |-> IF q \in to THEN Append(queue[q], e) ELSE queue[q]]
      BY <1>2 DEF Arrives
<1>4. queue' \in [Parties -> Seq(Frame)]
      BY <1>1, <1>3, AppendTypes DEF Types
<1>5. coming' \in [Parties -> Seq(Nat)] /\ f' \in [Parties -> Frame] /\ sent' \in Nat
      BY <1>1, AppendTypes DEF Types, Out
<1>6. troubles' \in [n : Nat, met : SUBSET Clients]
      BY <1>2, TroubleIs DEF Types
<1>7. \A q \in Parties : queue'[q] = queue[q] \/ queue'[q] = Append(queue[q], e)
      BY <1>3
<1>8. queue'[p] = queue[p] /\ \A q \in Parties : ~Running(q) => queue'[q] = queue[q]
      BY <1>2, <1>3
<1>9. \/ Trouble
      \/ troubles' = troubles /\ \A q \in Parties : q # p /\ Running(q) => queue'[q] = Append(queue[q], e)
      BY <1>2, <1>3
<1>. QED BY <1>4, <1>5, <1>6, <1>7, <1>8, <1>9 DEF Out

\* A frame with other times is a frame.
LEMMA FrameWith ==
  ASSUME NEW g \in Frame, NEW i \in 0 .. 3, NEW x \in Time
  PROVE  /\ [g EXCEPT !.stamp = TRUE, !.phase = 0] \in Frame
         /\ [g EXCEPT !.phase = 1, !.ts[i] = x] \in Frame
         /\ [g EXCEPT !.phase = 1, !.ts[i] = x].ts = [g.ts EXCEPT ![i] = x]
<1>. DEFINE t == [g EXCEPT !.stamp = TRUE]
            u == [g EXCEPT !.phase = 1]
            v == [g.ts EXCEPT ![i] = x]
<1>1. t \in Frame
      BY DEF Frame
<1>5. u \in Frame /\ u.ts = g.ts
      BY DEF Frame
<1>6. g.ts \in [0 .. 3 -> Time]
      BY DEF Frame
<1>7. v \in [0 .. 3 -> Time]
      BY <1>6
<1>2. [g EXCEPT !.stamp = TRUE, !.phase = 0] = [t EXCEPT !.phase = 0]
      BY DEF Frame
<1>3. [g EXCEPT !.phase = 1, !.ts[i] = x] = [u EXCEPT !.ts = v]
      BY DEF Frame
<1>. HIDE DEF t, u, v
<1>4. [t EXCEPT !.phase = 0] \in Frame /\ [u EXCEPT !.ts = v] \in Frame /\ [u EXCEPT !.ts = v].ts = v
      BY <1>1, <1>5, <1>7 DEF Frame
<1>. QED BY <1>2, <1>3, <1>4 DEF v

\* The frames that are sent are frames.
LEMMA FirstIs ==
  ASSUME Types, NEW p \in Parties
  PROVE  /\ FirstFrame(p) \in Frame /\ FirstFrame(p).stamp /\ FirstFrame(p).phase = 0
         /\ FirstFrame(p).ts = f[p].ts /\ FirstFrame(p).k = f[p].k
<1>1. f[p] \in Frame
      BY DEF Types
<1>2. 0 \in 0 .. 3
      OBVIOUS
<1>3. FirstFrame(p) \in Frame
      BY <1>1, <1>2, BlankIs, FrameWith DEF FirstFrame
<1>. QED BY <1>1, <1>3 DEF FirstFrame, Frame

\* ... the follow-up too, ...
LEMMA FollowUpIs ==
  ASSUME Types, NEW p \in Parties
  PROVE  FollowUp(p) \in Frame /\ FollowUp(p).ts = [f[p].ts EXCEPT ![SendOffset(p)] = stamp[p]]
<1>1. f[p] \in Frame /\ stamp[p] \in Time
      BY DEF Types
<1>. QED BY <1>1, FrameWith, ListenerIs DEF FollowUp

\* ... and what the receiver makes of it.
LEMMA FollowedIs ==
  ASSUME Types, NEW p \in Parties, NEW g \in Frame
  PROVE  Followed(p, g) \in Frame /\ Followed(p, g).ts = [g.ts EXCEPT ![RecvOffset(p)] = stamp[p]]
<1>1. stamp[p] \in Time /\ g.ts \in [0 .. 3 -> Time]
      BY DEF Types, Frame
<1>2. [g.ts EXCEPT ![RecvOffset(p)] = stamp[p]] \in [0 .. 3 -> Time]
      BY <1>1
<1>. QED BY <1>1, <1>2 DEF Followed, Frame

\* At first everything is in its type.
LEMMA TypesInit == FrameInit => Types
<1> SUFFICES ASSUME FrameInit PROVE Types
    OBVIOUS
<1>1. "no" \in Place
      BY DEF Place
<1>. QED BY <1>1, BlankIs, NoneTypes, ListenerIs DEF FrameInit, Types

\* Each step keeps the types.
LEMMA TypesNext == Types /\ [FrameNext]_frameVars => Types'
<1> SUFFICES ASSUME Types, [FrameNext]_frameVars PROVE Types'
    OBVIOUS
<1>. USE ListenerIs
<1>1. CASE OthersFrame
  <2>. DEFINE g == [Blank EXCEPT !.stamp = FALSE]
  <2>1. g \in Frame
        BY BlankIs DEF Frame
  <2>2. queue' \in [Parties -> Seq(Frame)]
        BY <1>1, <2>1, AppendTypes DEF OthersFrame, Arrives, Types
  <2>. QED BY <1>1, <2>2, TroubleIs DEF OthersFrame, Types
<1>2. ASSUME NEW p \in Parties, HwStamp(p) PROVE Types'
  <2>1. Head(coming[p]) \in Nat /\ Tail(coming[p]) \in Seq(Nat)
        BY <1>2, TailTypes DEF HwStamp, Types
  <2>2. <<"tx", Head(coming[p])>> \in Time
        BY <2>1 DEF Time
  <2>. QED BY <1>2, <2>1, <2>2, AppendTypes DEF HwStamp, Types
<1>3. ASSUME NEW p \in Parties, HwStampLost(p) PROVE Types'
  <2>1. Tail(coming[p]) \in Seq(Nat)
        BY <1>3, TailTypes DEF HwStampLost, Types
  <2>. QED BY <1>3, <2>1, TroubleIs DEF HwStampLost, Types
<1>4. ASSUME NEW p \in Parties, Open(p) PROVE Types'
  <2>1. troubles' \in [n : Nat, met : SUBSET Clients]
        BY <1>4 DEF Open, Types
  <2>2. at' \in [Parties -> Place] /\ at'[Listener] # "report"
        BY <1>4 DEF Open, Goto, Types, Place
  <2>. QED BY <1>4, <2>1, <2>2 DEF Open, Types
<1>5. ASSUME NEW p \in Parties, SendFirst(p) PROVE Types'
  <2>1. /\ sent' \in Nat /\ sent' = sent + 1 /\ f' \in [Parties -> Frame] /\ queue' \in [Parties -> Seq(Frame)]
        /\ coming' \in [Parties -> Seq(Nat)] /\ troubles' \in [n : Nat, met : SUBSET Clients]
        BY <1>5, FirstIs, OutIs DEF SendFirst
  <2>2. mine' \in [Clients -> [own : Nat, answer : Nat]]
    <3>1. \A c \in Clients : mine[c] \in [own : Nat, answer : Nat] /\ [mine[c] EXCEPT !.answer = sent + 1] \in [own : Nat, answer : Nat]
          BY <2>1 DEF Types
    <3>2. [own |-> sent + 1, answer |-> 0] \in [own : Nat, answer : Nat]
          BY <2>1
    <3>. QED BY <1>5, <3>1, <3>2 DEF SendFirst
  <2>. QED BY <1>5, <2>1, <2>2 DEF SendFirst, Goto, Types, Place
<1>6. ASSUME NEW p \in Parties, SendSecond(p) PROVE Types'
  <2>1. /\ sent' \in Nat /\ f' \in [Parties -> Frame] /\ queue' \in [Parties -> Seq(Frame)]
        /\ coming' \in [Parties -> Seq(Nat)] /\ troubles' \in [n : Nat, met : SUBSET Clients]
        BY <1>6, FollowUpIs, OutIs DEF SendSecond
  <2>. QED BY <1>6, <2>1 DEF SendSecond, Goto, Types, Place
<1>7. ASSUME NEW p \in Parties, TakeStamp(p) PROVE Types'
  <2>1. Head(errors[p]) \in Time /\ Tail(errors[p]) \in Seq(Time)
        BY <1>7, TailTypes DEF TakeStamp, Types
  <2>. QED BY <1>7, <2>1 DEF TakeStamp, Goto, Types, Place
<1>8. ASSUME NEW p \in Parties, DropStamp(p) PROVE Types'
  <2>1. Tail(errors[p]) \in Seq(Time)
        BY <1>8, TailTypes DEF DropStamp, Types
  <2>. QED BY <1>8, <2>1 DEF DropStamp, Goto, Types, Place, AfterSend
<1>9. ASSUME NEW p \in Parties, NoStamp(p) \/ NoSecondStamp(p) PROVE Types'
  <2>1. troubles' \in [n : Nat, met : SUBSET Clients]
        BY <1>9, TroubleIs DEF NoStamp, NoSecondStamp, Overdue, Types
  <2>2. at' \in [Parties -> Place] /\ at'[Listener] # "report"
        BY <1>9 DEF NoStamp, NoSecondStamp, Goto, Types, Place, AfterSend
  <2>3. stamp' \in [Parties -> Time]
        BY <1>9, BlankIs DEF NoStamp, NoSecondStamp, Types
  <2>. QED BY <1>9, <2>1, <2>2, <2>3 DEF NoStamp, NoSecondStamp, Types
<1>10. ASSUME NEW p \in Parties, RecvFirst(p) PROVE Types'
  <2>. DEFINE g == Head(queue[p])
  <2>1. g \in Frame /\ Tail(queue[p]) \in Seq(Frame)
        BY <1>10, TailTypes DEF RecvFirst, Read, Types
  <2>2. <<"rx", g.k>> \in Time
        BY <2>1 DEF Time, Frame
  <2>. QED BY <1>10, <2>1, <2>2 DEF RecvFirst, Read, Goto, Types, Place
<1>11. ASSUME NEW p \in Parties, RecvSecond(p) PROVE Types'
  <2>1. Head(queue[p]) \in Frame /\ Tail(queue[p]) \in Seq(Frame)
        BY <1>11, TailTypes DEF RecvSecond, Read, Types
  <2>2. Followed(p, Head(queue[p])) \in Frame
        BY <2>1, FollowedIs
  <2>3. AfterRecv(p) \in Place /\ (p = Listener => AfterRecv(p) # "report")
        BY DEF AfterRecv, Place
  <2>. QED BY <1>11, <2>1, <2>2, <2>3 DEF RecvSecond, Read, Goto, Types
<1>12. ASSUME NEW p \in Parties, GoesWrong(p) PROVE Types'
  <2>1. troubles' \in [n : Nat, met : SUBSET Clients]
        BY <1>12, TroubleIs DEF GoesWrong, NotOpened, SendFirstFails, SendSecondFails, RecvSecondFails
  <2>2. CASE RecvSecondFails(p)
    <3>1. AfterRecv(p) \in Place /\ (p = Listener => AfterRecv(p) # "report")
          BY DEF AfterRecv, Place
    <3>2. Followed(p, f[p]) \in Frame
          BY FollowedIs DEF Types
    <3>. QED BY <2>1, <2>2, <3>1, <3>2 DEF RecvSecondFails, Goto, Types
  <2>3. CASE NotOpened(p)
        BY <2>1, <2>3 DEF NotOpened, Goto, Types, Place
  <2>4. CASE SendFirstFails(p)
        BY <2>1, <2>4, FirstIs, BlankIs DEF SendFirstFails, Goto, Types, Place
  <2>5. CASE SendSecondFails(p)
        BY <2>1, <2>5, FollowUpIs DEF SendSecondFails, Goto, Types, Place, AfterSend
  <2>. QED BY <1>12, <2>2, <2>3, <2>4, <2>5 DEF GoesWrong
<1>13. ASSUME NEW c \in Clients, Report(c) PROVE Types'
       BY <1>13, NoneTypes DEF Report, Goto, Types, Place
<1>14. CASE UNCHANGED frameVars
       BY <1>14 DEF frameVars, Types
<1>. QED BY <1>1, <1>2, <1>3, <1>4, <1>5, <1>6, <1>7, <1>8, <1>9, <1>10, <1>11, <1>12, <1>13, <1>14
         DEF FrameNext, Turn, Send

-----------------------------------------------------------------------------
(* One exchange.                                                           *)

\* The sending side: the stamp of a frame has not been fetched yet, or there
\* is none to be fetched.
Quiet(p) == Len(errors[p]) = 0 /\ Len(coming[p]) = 0
Expects(p, k) ==
  \/ Len(errors[p]) = 0 /\ Len(coming[p]) = 1 /\ coming[p][1] = k
  \/ Len(errors[p]) = 1 /\ errors[p][1] = <<"tx", k>> /\ Len(coming[p]) = 0

\* p has sent the frame k with these times, and not its follow-up.
SentOne(p, k, tm) ==
  /\ f[p].ts = tm
  /\ \/ at[p] = "stamp0" /\ Expects(p, k)
     \/ at[p] = "send1" /\ Quiet(p) /\ stamp[p] = <<"tx", k>>

\* p has nothing more to send.
Listens(p) ==
  \/ at[p] = "stamp1" /\ \E k \in Nat : Expects(p, k)
  \/ at[p] \in {"recv0", "recv1"} /\ Quiet(p)

\* The receiving side: what was sent to p and not read yet.
First(g, k, tm) == g.k = k /\ IsFirst(g) /\ g.ts = tm
HasNone(p) == Len(queue[p]) = 0
HasOne(p, k, tm) ==
  \/ at[p] # "recv1" /\ Len(queue[p]) = 1 /\ First(queue[p][1], k, tm)
  \/ at[p] = "recv1" /\ Len(queue[p]) = 0 /\ stamp[p] = <<"rx", k>>
HasBoth(p, k, tm, us) ==
  \/ at[p] # "recv1" /\ Len(queue[p]) = 2 /\ First(queue[p][1], k, tm) /\ queue[p][2].ts = us
  \/ at[p] = "recv1" /\ Len(queue[p]) = 1 /\ stamp[p] = <<"rx", k>> /\ queue[p][1].ts = us

\* The times as they fill up: o is the client's frame, a is the answer to it.
Asked(o) == [NoTimes EXCEPT ![0] = <<"tx", o>>]
Got(o) == [Asked(o) EXCEPT ![1] = <<"rx", o>>]
Told(o, a) == [Got(o) EXCEPT ![2] = <<"tx", a>>]
Full(o, a) == [Told(o, a) EXCEPT ![3] = <<"rx", a>>]

\* The exchange from the client's opening to its report.
Begins(c) ==
  /\ at[c] = "send0" /\ f[c].ts = NoTimes /\ Quiet(c) /\ HasNone(c)
  /\ at[Listener] # "recv1" /\ Listens(Listener) /\ HasNone(Listener)
Asks(c, o) ==
  /\ SentOne(c, o, NoTimes) /\ HasNone(c)
  /\ Listens(Listener) /\ HasOne(Listener, o, NoTimes)
Awaits(c, o) ==
  /\ at[c] # "recv1" /\ Listens(c) /\ HasNone(c)
  /\ \/ Listens(Listener) /\ HasBoth(Listener, o, NoTimes, Asked(o))
     \/ at[Listener] = "send0" /\ Quiet(Listener) /\ HasNone(Listener) /\ f[Listener].ts = Got(o)
Answered(c, o, a) ==
  /\ Listens(c) /\ HasOne(c, a, Got(o))
  /\ SentOne(Listener, a, Got(o)) /\ HasNone(Listener)
Ends(c, o, a) ==
  /\ at[Listener] # "recv1" /\ Listens(Listener) /\ HasNone(Listener)
  /\ \/ Listens(c) /\ HasBoth(c, a, Got(o), Told(o, a))
     \/ at[c] = "report" /\ HasNone(c) /\ f[c].ts = Full(o, a)
Stage(c, o, a) == Begins(c) \/ Asks(c, o) \/ Awaits(c, o) \/ Answered(c, o, a) \/ Ends(c, o, a)

\* A client that has met no trouble so far.
Calm(c) == Running(c) /\ c \notin troubles.met

\* It is the only one, with the listener ready for it.
AloneInv == \A c \in Clients : Calm(c) =>
  at[Listener] \notin {"no", "done"} /\ \A d \in Clients : d # c => ~Running(d)

\* It is at a stage of its exchange.
StageInv == \A c \in Clients : Calm(c) => \E o, a \in Nat :
  /\ mine[c].own = o /\ mine[c].answer = a
  /\ at[c] # "send0" => o \in 1 .. sent
  /\ Stage(c, o, a)

\* A client that has not begun has nothing in its hands.
FreshInv == \A c \in Clients : at[c] = "no" => f[c].ts = NoTimes /\ Quiet(c) /\ HasNone(c)

-----------------------------------------------------------------------------
(* Steps within a stage.                                                   *)

\* What q does or has done to it leaves its side of each stage as it is.
Kept(q) ==
  /\ Quiet(q) => Quiet(q)'
  /\ at[q] \in {"send0", "report"} => at'[q] = at[q] /\ f'[q] = f[q]
  /\ HasNone(q) => HasNone(q)' /\ (at[q] # "recv1" => at'[q] # "recv1")
  /\ Listens(q) => Listens(q)'
  /\ \A k, tm : SentOne(q, k, tm) => SentOne(q, k, tm)'
  /\ \A k, tm : HasOne(q, k, tm) => HasOne(q, k, tm)'
  /\ \A k, tm, us : HasBoth(q, k, tm, us) => HasBoth(q, k, tm, us)'

\* Both sides as they are, the stage is as it is.
LEMMA KeptStage ==
  ASSUME NEW c \in Clients, NEW o, NEW a, Stage(c, o, a), Kept(c), Kept(Listener)
  PROVE  Stage(c, o, a)'
<1>1. CASE Begins(c)
      BY <1>1 DEF Begins, Stage, Kept
<1>2. CASE Asks(c, o)
      BY <1>2 DEF Asks, Stage, Kept
<1>3. CASE Awaits(c, o)
      BY <1>3 DEF Awaits, Stage, Kept
<1>4. CASE Answered(c, o, a)
      BY <1>4 DEF Answered, Stage, Kept
<1>5. CASE Ends(c, o, a)
      BY <1>5 DEF Ends, Stage, Kept
<1>. QED BY <1>1, <1>2, <1>3, <1>4, <1>5 DEF Stage

\* Who does nothing, and is sent nothing, ...
Still(q) ==
  at'[q] = at[q] /\ f'[q] = f[q] /\ stamp'[q] = stamp[q] /\ queue'[q] = queue[q]
  /\ errors'[q] = errors[q] /\ coming'[q] = coming[q]
LEMMA StillIsKept == ASSUME NEW q, Still(q) PROVE Kept(q)
BY DEF Still, Kept, Quiet, Listens, Expects, SentOne, HasNone, HasOne, HasBoth

\* ... whose stamp comes, ...
LEMMA StampIsKept ==
  ASSUME Types, NEW p \in Parties, HwStamp(p)
  PROVE  Kept(p)
<1>1. /\ coming[p] \in Seq(Nat) /\ errors[p] \in Seq(Time) /\ coming[p] # <<>>
      /\ coming'[p] = Tail(coming[p]) /\ errors'[p] = Append(errors[p], <<"tx", Head(coming[p])>>)
      /\ at'[p] = at[p] /\ f'[p] = f[p] /\ stamp'[p] = stamp[p] /\ queue'[p] = queue[p]
      BY DEF HwStamp, Types
<1>2. /\ Len(coming[p]) \in Nat \ {0} /\ Head(coming[p]) = coming[p][1] /\ Head(coming[p]) \in Nat
      /\ Len(Tail(coming[p])) = Len(coming[p]) - 1
      BY <1>1, HeadTailIs
<1>3. <<"tx", Head(coming[p])>> \in Time
      BY <1>2 DEF Time
<1>4. /\ Len(errors[p]) \in Nat /\ Len(errors'[p]) = Len(errors[p]) + 1
      /\ Len(errors[p]) = 0 => errors'[p][1] = <<"tx", Head(coming[p])>>
      BY <1>1, <1>3, AppendIs, LenProperties
<1>5. ~Quiet(p)
      BY <1>2 DEF Quiet
<1>6. \A k : Expects(p, k) => Expects(p, k)'
      BY <1>1, <1>2, <1>4 DEF Expects
<1>7. Listens(p) => Listens(p)'
      BY <1>1, <1>5, <1>6 DEF Listens
<1>8. \A k, tm : SentOne(p, k, tm) => SentOne(p, k, tm)'
      BY <1>1, <1>5, <1>6 DEF SentOne
<1>. QED BY <1>1, <1>5, <1>7, <1>8 DEF Kept, HasNone, HasOne, HasBoth

\* ... who fetches it, ...
LEMMA FetchIsKept ==
  ASSUME Types, NEW p \in Parties, TakeStamp(p) \/ DropStamp(p)
  PROVE  Kept(p)
<1>1. /\ coming[p] \in Seq(Nat) /\ errors[p] \in Seq(Time) /\ errors[p] # <<>>
      /\ errors'[p] = Tail(errors[p]) /\ coming'[p] = coming[p]
      /\ f'[p] = f[p] /\ queue'[p] = queue[p]
      /\ \/ at[p] = "stamp0" /\ at'[p] = "send1" /\ stamp'[p] = Head(errors[p])
         \/ at[p] = "stamp1" /\ at'[p] = "recv0" /\ stamp'[p] = stamp[p]
      BY DEF TakeStamp, DropStamp, Types, Goto, AfterSend
<1>2. /\ Len(errors[p]) \in Nat \ {0} /\ Head(errors[p]) = errors[p][1]
      /\ Len(Tail(errors[p])) = Len(errors[p]) - 1
      BY <1>1, HeadTailIs
<1>3. ~Quiet(p)
      BY <1>2 DEF Quiet
<1>4. \A k : Expects(p, k) => Quiet(p)' /\ Head(errors[p]) = <<"tx", k>>
      BY <1>1, <1>2 DEF Expects, Quiet
<1>5. Listens(p) => Listens(p)'
      BY <1>1, <1>3, <1>4 DEF Listens
<1>6. \A k, tm : SentOne(p, k, tm) => SentOne(p, k, tm)'
      BY <1>1, <1>3, <1>4 DEF SentOne
<1>. QED BY <1>1, <1>3, <1>5, <1>6 DEF Kept, HasNone, HasOne, HasBoth

\* ... and who waits for it in vain, which is trouble if it was to come.
LEMMA NoStampIsKept ==
  ASSUME Types, NEW p \in Parties, NoStamp(p) \/ NoSecondStamp(p), ~Trouble
  PROVE  Kept(p)
<1>1. /\ Len(errors[p]) = 0 /\ Len(coming[p]) = 0 /\ coming[p] = <<>>
      /\ errors'[p] = errors[p] /\ coming'[p] = coming[p] /\ f'[p] = f[p] /\ queue'[p] = queue[p]
      /\ \/ at[p] = "stamp0" /\ at'[p] = "send1"
         \/ at[p] = "stamp1" /\ at'[p] = "recv0" /\ stamp'[p] = stamp[p]
      BY EmptyIs DEF NoStamp, NoSecondStamp, Overdue, Types, Goto, AfterSend
<1>2. \A k : ~Expects(p, k)
      BY <1>1 DEF Expects
<1>3. ~Listens(p) /\ \A k, tm : ~SentOne(p, k, tm)
      BY <1>1, <1>2 DEF Listens, SentOne
<1>. QED BY <1>1, <1>3 DEF Kept, HasNone, HasOne, HasBoth, Quiet

\* Who reads the first of two frames.
LEMMA FirstIsKept ==
  ASSUME Types, NEW p \in Parties, RecvFirst(p)
  PROVE  Kept(p)
<1>. DEFINE g == Head(queue[p])
<1>1. /\ queue[p] \in Seq(Frame) /\ queue[p] # <<>> /\ queue'[p] = Tail(queue[p])
      /\ errors'[p] = errors[p] /\ coming'[p] = coming[p] /\ stamp'[p] = <<"rx", g.k>>
      /\ at[p] = "recv0" /\ at'[p] = IF IsFirst(g) THEN "recv1" ELSE "recv0"
      BY DEF RecvFirst, Read, Types, Goto
<1>2. /\ Len(queue[p]) \in Nat \ {0} /\ g = queue[p][1] /\ Len(Tail(queue[p])) = Len(queue[p]) - 1
      /\ \A i \in 1 .. Len(queue[p]) - 1 : Tail(queue[p])[i] = queue[p][i + 1]
      BY <1>1, HeadTailIs
<1>3. ~HasNone(p)
      BY <1>2 DEF HasNone
<1>4. Listens(p) => Listens(p)'
      BY <1>1 DEF Listens, Quiet, Expects
<1>5. \A k, tm : HasOne(p, k, tm) => HasOne(p, k, tm)'
      BY <1>1, <1>2 DEF HasOne, First
<1>6. \A k, tm, us : HasBoth(p, k, tm, us) => HasBoth(p, k, tm, us)'
  <2>1. SUFFICES ASSUME NEW k, NEW tm, NEW us, HasBoth(p, k, tm, us) PROVE HasBoth(p, k, tm, us)'
        OBVIOUS
  <2>2. Len(queue[p]) = 2 /\ First(g, k, tm) /\ queue[p][2].ts = us
        BY <1>1, <1>2, <2>1 DEF HasBoth
  <2>3. 1 \in 1 .. Len(queue[p]) - 1 /\ 1 + 1 = 2
        BY <2>2
  <2>4. Len(queue'[p]) = 1 /\ queue'[p][1] = queue[p][2]
        BY <1>1, <1>2, <2>2, <2>3
  <2>. QED BY <1>1, <2>2, <2>4 DEF HasBoth, First
<1>7. \A k, tm : ~SentOne(p, k, tm)
      BY <1>1 DEF SentOne
<1>. QED BY <1>1, <1>3, <1>4, <1>5, <1>6, <1>7 DEF Kept, Quiet

-----------------------------------------------------------------------------
(* Steps from stage to stage.                                              *)

\* A frame that leaves is heard by the other, and its stamp is to be fetched.
LEMMA OutMoves ==
  ASSUME Types, NEW p \in Parties, NEW q \in Parties, q # p, Running(q), NEW g \in Frame, Out(p, g), ~Trouble
  PROVE  /\ f'[p] = g /\ f'[q] = f[q] /\ coming'[q] = coming[q]
         /\ Len(queue'[p]) = Len(queue[p])
         /\ Len(queue'[q]) = Len(queue[q]) + 1
         /\ \A i \in 1 .. Len(queue[q]) : queue'[q][i] = queue[q][i]
         /\ queue'[q][Len(queue[q]) + 1] = [g EXCEPT !.k = sent + 1]
         /\ errors' = errors /\ Quiet(p) => \A k : k = sent + 1 => Expects(p, k)'
<1>. DEFINE e == [g EXCEPT !.k = sent + 1]
<1>1. sent \in Nat /\ queue[q] \in Seq(Frame) /\ coming[p] \in Seq(Nat)
      BY DEF Types
<1>2. e \in Frame
      BY <1>1 DEF Frame
<1>3. /\ f'[p] = g /\ f'[q] = f[q] /\ coming'[q] = coming[q] /\ coming'[p] = Append(coming[p], sent + 1)
      /\ queue'[p] = queue[p] /\ queue'[q] = Append(queue[q], e)
  <2>1. /\ f' = [f EXCEPT ![p] = g] /\ coming' = [coming EXCEPT ![p] = Append(@, sent + 1)]
        /\ queue'[p] = queue[p] /\ queue'[q] = Append(queue[q], e)
        BY OutIs
  <2>2. f \in [Parties -> Frame] /\ coming \in [Parties -> Seq(Nat)]
        BY DEF Types
  <2>. QED BY <2>1, <2>2
<1>4. /\ Len(Append(queue[q], e)) = Len(queue[q]) + 1 /\ Len(queue[q]) \in Nat
      /\ \A i \in 1 .. Len(queue[q]) + 1 : Append(queue[q], e)[i] = IF i <= Len(queue[q]) THEN queue[q][i] ELSE e
      BY <1>1, <1>2, AppendIs, LenProperties
<1>5. /\ Len(Append(coming[p], sent + 1)) = Len(coming[p]) + 1 /\ Len(coming[p]) \in Nat
      /\ Len(coming[p]) = 0 => Append(coming[p], sent + 1)[1] = sent + 1
      BY <1>1, AppendIs, LenProperties
<1>6. errors' = errors /\ Quiet(p) => \A k : k = sent + 1 => Expects(p, k)'
      BY <1>3, <1>5 DEF Quiet, Expects
<1>. HIDE DEF e
<1>7. /\ \A i \in 1 .. Len(queue[q]) : queue'[q][i] = queue[q][i]
      /\ queue'[q][Len(queue[q]) + 1] = e /\ Len(queue'[q]) = Len(queue[q]) + 1
      BY <1>3, <1>4
<1>. QED BY <1>3, <1>6, <1>7 DEF e

\* The first of two frames.
LEMMA FirstMoves ==
  ASSUME Types, NEW p \in Parties, NEW q \in Parties, q # p, Running(q), SendFirst(p), ~Trouble
  PROVE  /\ at[p] = "send0" /\ at'[p] # "recv1" /\ at'[q] = at[q] /\ sent' = sent + 1
         /\ HasNone(p) => HasNone(p)'
         /\ Listens(q) => Listens(q)'
         /\ \A k, tm : k = sent + 1 /\ f[p].ts = tm =>
              /\ Quiet(p) => SentOne(p, k, tm)'
              /\ HasNone(q) /\ at[q] # "recv1" => HasOne(q, k, tm)'
<1>. DEFINE g == FirstFrame(p)
<1>1. /\ at[p] = "send0" /\ at' = [at EXCEPT ![p] = "stamp0"] /\ Out(p, g)
      /\ stamp' = stamp /\ errors' = errors
      BY DEF SendFirst, Goto
<1>2. g \in Frame /\ g.stamp /\ g.phase = 0 /\ g.ts = f[p].ts
      BY FirstIs
<1>3. at'[p] = "stamp0" /\ at'[q] = at[q] /\ sent' = sent + 1 /\ sent \in Nat
      BY <1>1 DEF Types, Out
<1>. HIDE DEF g
<1>4. /\ f'[p] = g /\ f'[q] = f[q] /\ coming'[q] = coming[q]
      /\ Len(queue'[p]) = Len(queue[p])
      /\ Len(queue'[q]) = Len(queue[q]) + 1
      /\ queue'[q][Len(queue[q]) + 1] = [g EXCEPT !.k = sent + 1]
      /\ Quiet(p) => \A k : k = sent + 1 => Expects(p, k)'
      BY <1>1, <1>2, OutMoves
<1>5. HasNone(p) => HasNone(p)'
      BY <1>4 DEF HasNone
<1>6. Listens(q) => Listens(q)'
      BY <1>1, <1>3, <1>4 DEF Listens, Quiet, Expects
<1>7. ASSUME NEW k, NEW tm, k = sent + 1, f[p].ts = tm
      PROVE  /\ Quiet(p) => SentOne(p, k, tm)'
             /\ HasNone(q) /\ at[q] # "recv1" => HasOne(q, k, tm)'
  <2>1. Quiet(p) => SentOne(p, k, tm)'
        BY <1>2, <1>3, <1>4, <1>7 DEF SentOne
  <2>. DEFINE e == [g EXCEPT !.k = sent + 1]
  <2>2. e.k = k /\ e.stamp /\ e.phase = 0 /\ e.ts = tm
        BY <1>2, <1>7 DEF Frame
  <2>4. queue'[q][Len(queue[q]) + 1] = e
        BY <1>4
  <2>. HIDE DEF e
  <2>3. HasNone(q) /\ at[q] # "recv1" => HasOne(q, k, tm)'
    <3>1. HasNone(q) => Len(queue'[q]) = 1 /\ queue'[q][1] = e
          BY <1>4, <2>4 DEF HasNone
    <3>. QED BY <1>3, <2>2, <3>1 DEF HasOne, First, IsFirst
  <2>. QED BY <2>1, <2>3
<1>. QED BY <1>1, <1>3, <1>5, <1>6, <1>7

\* The follow-up, with the time at which the first was sent.
LEMMA SecondMoves ==
  ASSUME Types, NEW p \in Parties, NEW q \in Parties, q # p, Running(q), SendSecond(p), ~Trouble
  PROVE  /\ at[p] = "send1" /\ at'[p] = "stamp1" /\ at'[q] = at[q]
         /\ HasNone(p) => HasNone(p)'
         /\ Listens(q) => Listens(q)'
         /\ \A k, tm : SentOne(p, k, tm) => Listens(p)'
         /\ \A j, us, k, tm : SentOne(p, k, tm) /\ HasOne(q, j, us) =>
              HasBoth(q, j, us, [tm EXCEPT ![SendOffset(p)] = <<"tx", k>>])'
<1>. DEFINE g == FollowUp(p)
<1>1. /\ at[p] = "send1" /\ at' = [at EXCEPT ![p] = "stamp1"] /\ Out(p, g)
      /\ stamp' = stamp /\ errors' = errors
      BY DEF SendSecond, Goto
<1>2. g \in Frame /\ g.ts = [f[p].ts EXCEPT ![SendOffset(p)] = stamp[p]]
      BY FollowUpIs
<1>3. at'[p] = "stamp1" /\ at'[q] = at[q] /\ sent \in Nat
      BY <1>1 DEF Types
<1>. HIDE DEF g
<1>4. /\ f'[p] = g /\ f'[q] = f[q] /\ coming'[q] = coming[q]
      /\ Len(queue'[p]) = Len(queue[p])
      /\ Len(queue'[q]) = Len(queue[q]) + 1
      /\ \A i \in 1 .. Len(queue[q]) : queue'[q][i] = queue[q][i]
      /\ queue'[q][Len(queue[q]) + 1] = [g EXCEPT !.k = sent + 1]
      /\ Quiet(p) => \A k : k = sent + 1 => Expects(p, k)'
      BY <1>1, <1>2, OutMoves
<1>5. HasNone(p) => HasNone(p)'
      BY <1>4 DEF HasNone
<1>6. Listens(q) => Listens(q)'
      BY <1>1, <1>3, <1>4 DEF Listens, Quiet, Expects
<1>7. \A k, tm : SentOne(p, k, tm) => Quiet(p) /\ f[p].ts = tm /\ stamp[p] = <<"tx", k>>
      BY <1>1 DEF SentOne
<1>8. Quiet(p) => Listens(p)'
  <2>1. sent + 1 \in Nat
        BY <1>3
  <2>. QED BY <1>3, <1>4, <2>1 DEF Listens
<1>9. ASSUME NEW j, NEW us, NEW k, NEW tm, SentOne(p, k, tm), HasOne(q, j, us)
      PROVE  HasBoth(q, j, us, [tm EXCEPT ![SendOffset(p)] = <<"tx", k>>])'
  <2>. DEFINE vs == [tm EXCEPT ![SendOffset(p)] = <<"tx", k>>]
              e == [g EXCEPT !.k = sent + 1]
  <2>1. g.ts = vs
        BY <1>2, <1>7, <1>9
  <2>2. e.ts = g.ts
        BY <1>2 DEF Frame
  <2>. HIDE DEF vs, e
  <2>3. queue'[q][Len(queue[q]) + 1] = e
        BY <1>4 DEF e
  <2>4. CASE at[q] = "recv1"
    <3>1. Len(queue[q]) = 0 /\ stamp[q] = <<"rx", j>>
          BY <1>9, <2>4 DEF HasOne
    <3>2. Len(queue'[q]) = 1 /\ queue'[q][1].ts = vs
          BY <1>4, <2>1, <2>2, <2>3, <3>1
    <3>. QED BY <1>1, <1>3, <2>4, <3>1, <3>2 DEF HasBoth, vs
  <2>5. CASE at[q] # "recv1"
    <3>1. Len(queue[q]) = 1 /\ First(queue[q][1], j, us) /\ 1 \in 1 .. Len(queue[q])
          BY <1>9, <2>5 DEF HasOne
    <3>2. Len(queue'[q]) = 2 /\ queue'[q][2].ts = vs /\ queue'[q][1] = queue[q][1]
          BY <1>4, <2>1, <2>2, <2>3, <3>1
    <3>3. First(queue'[q][1], j, us)
          BY <3>1, <3>2
    <3>4. First(queue[q][1], j, us)'
          BY <3>3 DEF First
    <3>. QED BY <1>3, <2>5, <3>2, <3>4 DEF HasBoth, vs
  <2>. QED BY <2>4, <2>5
<1>. QED BY <1>1, <1>3, <1>5, <1>6, <1>7, <1>8, <1>9

\* The follow-up is read.
LEMMA FollowMoves ==
  ASSUME Types, NEW p \in Parties, RecvSecond(p)
  PROVE  /\ at[p] = "recv1" /\ at'[p] = AfterRecv(p)
         /\ ~HasNone(p) /\ \A k, tm : ~HasOne(p, k, tm)
         /\ Listens(p) => Quiet(p)'
         /\ \A k, tm, us : HasBoth(p, k, tm, us) =>
              HasNone(p)' /\ f'[p].ts = [us EXCEPT ![RecvOffset(p)] = <<"rx", k>>]
<1>. DEFINE g == Head(queue[p])
<1>1. /\ queue[p] \in Seq(Frame) /\ queue[p] # <<>> /\ queue'[p] = Tail(queue[p])
      /\ f'[p] = Followed(p, g) /\ stamp[p] \in Time
      /\ at[p] = "recv1" /\ at'[p] = AfterRecv(p) /\ errors' = errors /\ coming' = coming
      BY DEF RecvSecond, Read, Types, Goto
<1>2. /\ Len(queue[p]) \in Nat \ {0} /\ g = queue[p][1] /\ g \in Frame
      /\ Len(Tail(queue[p])) = Len(queue[p]) - 1
      BY <1>1, HeadTailIs
<1>3. Followed(p, g).ts = [g.ts EXCEPT ![RecvOffset(p)] = stamp[p]]
      BY <1>2, FollowedIs
<1>. HIDE DEF g
<1>4. ~HasNone(p) /\ \A k, tm : ~HasOne(p, k, tm)
      BY <1>1, <1>2 DEF HasNone, HasOne
<1>5. Listens(p) => Quiet(p)'
      BY <1>1 DEF Listens, Quiet
<1>6. ASSUME NEW k, NEW tm, NEW us, HasBoth(p, k, tm, us)
      PROVE  HasNone(p)' /\ f'[p].ts = [us EXCEPT ![RecvOffset(p)] = <<"rx", k>>]
  <2>1. Len(queue[p]) = 1 /\ stamp[p] = <<"rx", k>> /\ g.ts = us
        BY <1>1, <1>2, <1>6 DEF HasBoth
  <2>2. HasNone(p)'
        BY <1>1, <1>2, <2>1 DEF HasNone
  <2>. QED BY <1>1, <1>3, <2>1, <2>2
<1>. QED BY <1>1, <1>4, <1>5, <1>6

-----------------------------------------------------------------------------
(* The stages, one after the other.                                        *)

\* The client asks.
LEMMA ClientBegins ==
  ASSUME Types, NEW c \in Clients, NEW o, NEW a, Stage(c, o, a), Running(Listener), SendFirst(c), ~Trouble
  PROVE  \A k : k = sent + 1 => Stage(c, k, 0)'
<1>1. c \in Parties /\ Listener \in Parties /\ Listener # c
      BY ListenerIs
<1>2. at[c] = "send0"
      BY DEF SendFirst
<1>3. Begins(c)
      BY <1>2 DEF Stage, Asks, Awaits, Answered, Ends, SentOne, Listens
<1>4. \A k : k = sent + 1 => Asks(c, k)'
  <2>1. \A k, tm : k = sent + 1 /\ f[c].ts = tm =>
          /\ Quiet(c) => SentOne(c, k, tm)'
          /\ HasNone(Listener) /\ at[Listener] # "recv1" => HasOne(Listener, k, tm)'
        BY <1>1, FirstMoves
  <2>2. (HasNone(c) => HasNone(c)') /\ (Listens(Listener) => Listens(Listener)')
        BY <1>1, FirstMoves
  <2>. QED BY <1>3, <2>1, <2>2 DEF Begins, Asks
<1>. QED BY <1>4 DEF Stage

\* The listener answers.
LEMMA ListenerBegins ==
  ASSUME Types, NEW c \in Clients, NEW o, NEW a, Stage(c, o, a), Running(c), SendFirst(Listener), ~Trouble
  PROVE  /\ f[Listener].ts = Got(o)
         /\ \A k : k = sent + 1 => Stage(c, o, k)'
<1>1. c \in Parties /\ Listener \in Parties /\ Listener # c
      BY ListenerIs
<1>2. at[Listener] = "send0"
      BY DEF SendFirst
<1>3. Awaits(c, o) /\ f[Listener].ts = Got(o) /\ HasNone(Listener) /\ Quiet(Listener)
      BY <1>2 DEF Stage, Begins, Asks, Awaits, Answered, Ends, SentOne, Listens
<1>4. \A k : k = sent + 1 => Answered(c, o, k)'
  <2>1. \A k, tm : k = sent + 1 /\ f[Listener].ts = tm =>
          /\ Quiet(Listener) => SentOne(Listener, k, tm)'
          /\ HasNone(c) /\ at[c] # "recv1" => HasOne(c, k, tm)'
        BY <1>1, FirstMoves
  <2>2. (HasNone(Listener) => HasNone(Listener)') /\ (Listens(c) => Listens(c)')
        BY <1>1, FirstMoves
  <2>. QED BY <1>3, <2>1, <2>2 DEF Awaits, Answered
<1>. QED BY <1>3, <1>4 DEF Stage

\* The client tells when it asked, ...
LEMMA ClientTells ==
  ASSUME Types, NEW c \in Clients, NEW o, NEW a, Stage(c, o, a), Running(Listener), SendSecond(c), ~Trouble
  PROVE  Stage(c, o, a)'
<1>1. c \in Parties /\ Listener \in Parties /\ Listener # c /\ SendOffset(c) = 0
      BY ListenerIs DEF SendOffset
<1>2. at[c] = "send1"
      BY DEF SendSecond
<1>3. Asks(c, o)
      BY <1>2 DEF Stage, Begins, Awaits, Answered, Ends, Listens
<1>4. /\ at'[c] = "stamp1" /\ (HasNone(c) => HasNone(c)') /\ (Listens(Listener) => Listens(Listener)')
      /\ \A k, tm : SentOne(c, k, tm) => Listens(c)'
      /\ \A j, us, k, tm : SentOne(c, k, tm) /\ HasOne(Listener, j, us) =>
           HasBoth(Listener, j, us, [tm EXCEPT ![SendOffset(c)] = <<"tx", k>>])'
      BY <1>1, SecondMoves
<1>5. HasBoth(Listener, o, NoTimes, [NoTimes EXCEPT ![SendOffset(c)] = <<"tx", o>>])'
      BY <1>3, <1>4 DEF Asks
<1>6. HasBoth(Listener, o, NoTimes, Asked(o))'
      BY <1>1, <1>5 DEF Asked
<1>7. Awaits(c, o)'
      BY <1>3, <1>4, <1>6 DEF Asks, Awaits
<1>. QED BY <1>7 DEF Stage

\* ... and so does the listener.
LEMMA ListenerTells ==
  ASSUME Types, NEW c \in Clients, NEW o, NEW a, Stage(c, o, a), Running(c), SendSecond(Listener), ~Trouble
  PROVE  Stage(c, o, a)'
<1>1. c \in Parties /\ Listener \in Parties /\ Listener # c /\ SendOffset(Listener) = 2
      BY ListenerIs DEF SendOffset
<1>2. at[Listener] = "send1"
      BY DEF SendSecond
<1>3. Answered(c, o, a)
      BY <1>2 DEF Stage, Begins, Asks, Awaits, Ends, Listens
<1>4. /\ at'[Listener] = "stamp1" /\ (HasNone(Listener) => HasNone(Listener)') /\ (Listens(c) => Listens(c)')
      /\ \A k, tm : SentOne(Listener, k, tm) => Listens(Listener)'
      /\ \A j, us, k, tm : SentOne(Listener, k, tm) /\ HasOne(c, j, us) =>
           HasBoth(c, j, us, [tm EXCEPT ![SendOffset(Listener)] = <<"tx", k>>])'
      BY <1>1, SecondMoves
<1>5. HasBoth(c, a, Got(o), [Got(o) EXCEPT ![SendOffset(Listener)] = <<"tx", a>>])'
      BY <1>3, <1>4 DEF Answered
<1>6. HasBoth(c, a, Got(o), Told(o, a))'
      BY <1>1, <1>5 DEF Told
<1>7. Ends(c, o, a)'
      BY <1>3, <1>4, <1>6 DEF Answered, Ends
<1>. QED BY <1>7 DEF Stage

\* The listener has read the follow-up, ...
LEMMA ListenerReads ==
  ASSUME Types, NEW c \in Clients, NEW o, NEW a, Stage(c, o, a), Kept(c), RecvSecond(Listener)
  PROVE  Stage(c, o, a)'
<1>1. Listener \in Parties /\ RecvOffset(Listener) = 1 /\ AfterRecv(Listener) = "send0"
      BY ListenerIs DEF RecvOffset, AfterRecv
<1>2. /\ at[Listener] = "recv1" /\ at'[Listener] = "send0"
      /\ ~HasNone(Listener) /\ \A k, tm : ~HasOne(Listener, k, tm)
      /\ Listens(Listener) => Quiet(Listener)'
      /\ \A k, tm, us : HasBoth(Listener, k, tm, us) =>
           HasNone(Listener)' /\ f'[Listener].ts = [us EXCEPT ![RecvOffset(Listener)] = <<"rx", k>>]
      BY <1>1, FollowMoves
<1>3. Awaits(c, o) /\ Listens(Listener) /\ HasBoth(Listener, o, NoTimes, Asked(o))
      BY <1>2 DEF Stage, Begins, Asks, Awaits, Answered, Ends
<1>4. HasNone(Listener)' /\ f'[Listener].ts = Got(o)
      BY <1>1, <1>2, <1>3 DEF Got
<1>5. Awaits(c, o)'
      BY <1>2, <1>3, <1>4 DEF Awaits, Kept
<1>. QED BY <1>5 DEF Stage

\* ... and so has the client.
LEMMA ClientReads ==
  ASSUME Types, NEW c \in Clients, NEW o, NEW a, Stage(c, o, a), Kept(Listener), RecvSecond(c)
  PROVE  Stage(c, o, a)'
<1>1. c \in Parties /\ RecvOffset(c) = 3 /\ AfterRecv(c) = "report"
      BY ListenerIs DEF RecvOffset, AfterRecv
<1>2. /\ at[c] = "recv1" /\ at'[c] = "report"
      /\ ~HasNone(c) /\ \A k, tm : ~HasOne(c, k, tm)
      /\ \A k, tm, us : HasBoth(c, k, tm, us) =>
           HasNone(c)' /\ f'[c].ts = [us EXCEPT ![RecvOffset(c)] = <<"rx", k>>]
      BY <1>1, FollowMoves
<1>3. Ends(c, o, a) /\ HasBoth(c, a, Got(o), Told(o, a))
      BY <1>2 DEF Stage, Begins, Asks, Awaits, Answered, Ends
<1>4. HasNone(c)' /\ f'[c].ts = Full(o, a)
      BY <1>1, <1>2, <1>3 DEF Full
<1>5. Ends(c, o, a)'
      BY <1>2, <1>3, <1>4 DEF Ends, Kept
<1>. QED BY <1>5 DEF Stage

-----------------------------------------------------------------------------
(* Who is about.                                                           *)

\* A program begins by opening, and goes on until it reports.
LEMMA PlacesNext ==
  ASSUME Types, [FrameNext]_frameVars, NEW p \in Parties
  PROVE  \/ at'[p] = at[p] \/ Open(p) \/ NotOpened(p)
         \/ Running(p) /\ (Running(p)' \/ (p \in Clients /\ Report(p)))
<1>1. ASSUME NEW q \in Parties, HwStamp(q) \/ HwStampLost(q) PROVE at' = at
      BY <1>1 DEF HwStamp, HwStampLost
<1>2. ASSUME NEW q \in Parties, q # p, Open(q) \/ NotOpened(q) PROVE at'[p] = at[p]
      BY <1>2 DEF Open, NotOpened, Goto, Types
<1>3. ASSUME NEW q \in Parties, Turn(q) \/ SendFirstFails(q) \/ SendSecondFails(q) \/ RecvSecondFails(q)
      PROVE  at'[p] = at[p] \/ (Running(p) /\ Running(p)')
  <2>1. \/ at' = at
        \/ /\ at[q] \notin {"no", "done"}
           /\ \E s \in Place \ {"no", "done"} : at' = [at EXCEPT ![q] = s]
        BY <1>3 DEF Turn, Send, SendFirst, TakeStamp, NoStamp, SendSecond, DropStamp, NoSecondStamp, RecvFirst,
           RecvSecond, SendFirstFails, SendSecondFails, RecvSecondFails, Goto, AfterSend, AfterRecv, Place
  <2>. QED BY <2>1 DEF Types, Running
<1>4. ASSUME NEW c \in Clients, Report(c) PROVE at'[p] = at[p] \/ (Running(p) /\ p \in Clients /\ Report(p))
      BY <1>4 DEF Report, Goto, Types, Running
<1>5. CASE OthersFrame \/ UNCHANGED frameVars
      BY <1>5 DEF OthersFrame, frameVars
<1>. QED BY <1>1, <1>2, <1>3, <1>4, <1>5 DEF FrameNext, GoesWrong

\* Trouble that was met stays met.
LEMMA MetGrows ==
  ASSUME Types, [FrameNext]_frameVars
  PROVE  troubles.met \subseteq troubles'.met
<1>1. ASSUME Trouble PROVE troubles.met \subseteq troubles'.met
      BY <1>1, TroubleIs
<1>2. ASSUME NEW p \in Parties, Open(p) PROVE troubles.met \subseteq troubles'.met
      BY <1>2 DEF Open, Types
<1>3. ASSUME NEW p \in Parties, NEW g, Out(p, g) PROVE troubles' = troubles \/ Trouble
      BY <1>3 DEF Out
<1>4. ASSUME NEW p \in Parties, Turn(p) PROVE troubles' = troubles \/ Trouble
      BY <1>3, <1>4 DEF Turn, Send, SendFirst, TakeStamp, NoStamp, SendSecond, DropStamp, NoSecondStamp, RecvFirst,
         RecvSecond, Overdue
<1>5. ASSUME NEW p \in Parties, HwStamp(p) \/ HwStampLost(p) \/ GoesWrong(p) PROVE troubles' = troubles \/ Trouble
      BY <1>5 DEF HwStamp, HwStampLost, GoesWrong, NotOpened, SendFirstFails, SendSecondFails, RecvSecondFails
<1>6. ASSUME NEW c \in Clients, Report(c) PROVE troubles' = troubles
      BY <1>6 DEF Report
<1>7. CASE OthersFrame \/ UNCHANGED frameVars
      BY <1>1, <1>7 DEF OthersFrame, frameVars
<1>. QED BY <1>1, <1>2, <1>4, <1>5, <1>6, <1>7 DEF FrameNext

\* A calm client opens while nobody else is about and the listener is ready.
LEMMA CalmBegins ==
  ASSUME Types, [FrameNext]_frameVars, NEW c \in Clients, Calm(c)', ~Calm(c)
  PROVE  /\ Open(c) /\ at' = [at EXCEPT ![c] = "send0"]
         /\ at[Listener] = "recv0" /\ queue[Listener] = <<>> /\ errors[Listener] = <<>> /\ coming[Listener] = <<>>
         /\ \A d \in Clients : ~Running(d)
<1>1. c \in Parties /\ c # Listener
      BY ListenerIs
<1>2. ~Running(c) /\ Running(c)' /\ c \notin troubles'.met
      BY MetGrows DEF Calm
<1>3. Open(c)
      BY <1>1, <1>2, PlacesNext DEF NotOpened, Goto, Types, Running
<1>4. \/ troubles' = [n |-> troubles.n + 1, met |-> troubles.met \cup {c} \cup {d \in Clients : Running(d)}]
      \/ /\ at[Listener] = "recv0" /\ queue[Listener] = <<>>
         /\ errors[Listener] = <<>> /\ coming[Listener] = <<>>
         /\ \A d \in Clients : ~Running(d)
      BY <1>1, <1>3 DEF Open
<1>5. troubles' # [n |-> troubles.n + 1, met |-> troubles.met \cup {c} \cup {d \in Clients : Running(d)}]
      BY <1>2
<1>6. at' = [at EXCEPT ![c] = "send0"]
      BY <1>1, <1>3 DEF Open, Goto
<1>. QED BY <1>3, <1>4, <1>5, <1>6

\* A client that is calm stays the only one.
LEMMA AloneNext == Types /\ AloneInv /\ [FrameNext]_frameVars => AloneInv'
<1> SUFFICES ASSUME Types, AloneInv, [FrameNext]_frameVars, NEW c \in Clients, Calm(c)'
             PROVE  at'[Listener] \notin {"no", "done"} /\ \A d \in Clients : d # c => ~Running(d)'
    BY DEF AloneInv
<1>1. at \in [Parties -> Place] /\ c \in Parties /\ Listener \in Parties /\ Listener # c /\ Listener \notin Clients
      BY ListenerIs, FrameAssumption DEF Types, FrameAssumption
<1>2. CASE ~Calm(c)
  <2>1. /\ at' = [at EXCEPT ![c] = "send0"] /\ at[Listener] = "recv0"
        /\ \A d \in Clients : ~Running(d)
        BY <1>2, CalmBegins
  <2>2. \A d \in Clients : d \in Parties
        BY ListenerIs
  <2>. QED BY <1>1, <2>1, <2>2 DEF Running
<1>3. CASE Calm(c)
  <2>1. at[Listener] \notin {"no", "done"} /\ Running(c) /\ \A d \in Clients : d # c => ~Running(d)
        BY <1>3 DEF AloneInv, Calm
  <2>2. at'[Listener] \notin {"no", "done"}
    <3>1. \/ at'[Listener] = at[Listener] \/ Open(Listener) \/ NotOpened(Listener)
          \/ Running(Listener)'
          BY <1>1, PlacesNext
    <3>2. ~Open(Listener) /\ ~NotOpened(Listener)
          BY <2>1 DEF Open, NotOpened
    <3>. QED BY <2>1, <3>1, <3>2 DEF Running
  <2>3. ASSUME NEW d \in Clients, d # c PROVE ~Running(d)'
    <3>1. d \in Parties /\ d # Listener /\ ~Running(d)
          BY <2>1, <2>3, ListenerIs
    <3>2. at'[d] = at[d] \/ Open(d) \/ NotOpened(d)
          BY <3>1, PlacesNext
    <3>3. ~Open(d)
      <4>1. SUFFICES ASSUME Open(d) PROVE FALSE
            OBVIOUS
      <4>2. troubles' = [n |-> troubles.n + 1, met |-> troubles.met \cup {d} \cup {e \in Clients : Running(e)}]
            BY <2>1, <3>1, <4>1 DEF Open
      <4>3. c \in troubles'.met
            BY <2>1, <4>2
      <4>. QED BY <4>3 DEF Calm
    <3>. QED BY <1>1, <3>1, <3>2, <3>3 DEF NotOpened, Goto, Running
  <2>. QED BY <2>2, <2>3
<1>. QED BY <1>2, <1>3

\* A client that has not begun is left alone.
LEMMA FreshNext == Types /\ FreshInv /\ [FrameNext]_frameVars => FreshInv'
<1> SUFFICES ASSUME Types, FreshInv, [FrameNext]_frameVars, NEW c \in Clients, at'[c] = "no"
             PROVE  (f[c].ts = NoTimes /\ Quiet(c) /\ HasNone(c))'
    BY DEF FreshInv
<1>1. c \in Parties /\ at \in [Parties -> Place]
      BY ListenerIs DEF Types
<1>2. at[c] = "no"
      BY <1>1, PlacesNext DEF Open, NotOpened, Report, Goto, Running
<1>3. f[c].ts = NoTimes /\ Quiet(c) /\ HasNone(c) /\ ~Running(c) /\ coming[c] = <<>>
  <2>1. coming[c] \in Seq(Nat)
        BY <1>1 DEF Types
  <2>. QED BY <1>2, <2>1, RangeIs DEF FreshInv, Running, Quiet
<1>4. ASSUME f'[c] = f[c], queue'[c] = queue[c], errors'[c] = errors[c], coming'[c] = coming[c]
      PROVE  (f[c].ts = NoTimes /\ Quiet(c) /\ HasNone(c))'
      BY <1>3, <1>4 DEF Quiet, HasNone
<1>5. CASE OthersFrame
      BY <1>1, <1>3, <1>4, <1>5 DEF OthersFrame, Arrives
<1>6. ASSUME NEW p \in Parties, HwStamp(p) \/ HwStampLost(p) PROVE f'[c] = f[c] /\ queue'[c] = queue[c] /\ errors'[c] = errors[c] /\ coming'[c] = coming[c]
  <2>1. p # c
        BY <1>3, <1>6 DEF HwStamp, HwStampLost
  <2>. QED BY <1>1, <1>6, <2>1 DEF HwStamp, HwStampLost, Types
<1>7. ASSUME NEW p \in Parties, Open(p) \/ NotOpened(p) PROVE f'[c] = f[c] /\ queue'[c] = queue[c] /\ errors'[c] = errors[c] /\ coming'[c] = coming[c]
      BY <1>7 DEF Open, NotOpened
<1>8. ASSUME NEW p \in Parties, Turn(p) \/ SendFirstFails(p) \/ SendSecondFails(p) \/ RecvSecondFails(p)
      PROVE  f'[c] = f[c] /\ queue'[c] = queue[c] /\ errors'[c] = errors[c] /\ coming'[c] = coming[c]
  <2>1. p # c
        BY <1>2, <1>8 DEF Turn, Send, SendFirst, TakeStamp, NoStamp, SendSecond, DropStamp, NoSecondStamp, RecvFirst,
           RecvSecond, SendFirstFails, SendSecondFails, RecvSecondFails
  <2>2. CASE SendFirst(p) \/ SendSecond(p)
    <3>1. PICK g \in Frame : Out(p, g)
          BY <2>2, FirstIs, FollowUpIs DEF SendFirst, SendSecond
    <3>2. f' = [f EXCEPT ![p] = g] /\ coming' = [coming EXCEPT ![p] = Append(@, sent + 1)] /\ queue'[c] = queue[c]
          BY <1>1, <1>3, <3>1, OutIs
    <3>. QED BY <1>1, <2>1, <2>2, <3>2 DEF Types, SendFirst, SendSecond
  <2>3. CASE TakeStamp(p) \/ NoStamp(p) \/ DropStamp(p) \/ NoSecondStamp(p)
        BY <1>1, <2>1, <2>3 DEF Types, TakeStamp, NoStamp, DropStamp, NoSecondStamp
  <2>4. CASE RecvFirst(p) \/ RecvSecond(p)
        BY <1>1, <2>1, <2>4 DEF Types, RecvFirst, RecvSecond, Read
  <2>5. CASE SendFirstFails(p) \/ SendSecondFails(p) \/ RecvSecondFails(p)
        BY <1>1, <2>1, <2>5 DEF Types, SendFirstFails, SendSecondFails, RecvSecondFails
  <2>. QED BY <1>8, <2>2, <2>3, <2>4, <2>5 DEF Turn, Send
<1>9. ASSUME NEW d \in Clients, Report(d) PROVE f'[c] = f[c] /\ queue'[c] = queue[c] /\ errors'[c] = errors[c] /\ coming'[c] = coming[c]
  <2>1. d # c /\ d \in Parties
        BY <1>2, <1>9, ListenerIs DEF Report
  <2>. QED BY <1>1, <1>9, <2>1 DEF Report, Types
<1>10. CASE UNCHANGED frameVars
       BY <1>4, <1>10 DEF frameVars
<1>. QED BY <1>4, <1>5, <1>6, <1>7, <1>8, <1>9, <1>10 DEF FrameNext, GoesWrong

\* A client that is calm goes from stage to stage.
LEMMA StageGoesOn ==
  ASSUME Types, AloneInv, [FrameNext]_frameVars, NEW c \in Clients, Calm(c), Calm(c)',
         NEW o \in Nat, NEW a \in Nat, mine[c].own = o, mine[c].answer = a,
         at[c] # "send0" => o \in 1 .. sent, Stage(c, o, a)
  PROVE  \E k, m \in Nat : /\ mine'[c].own = k /\ mine'[c].answer = m
                           /\ at'[c] # "send0" => k \in 1 .. sent'
                           /\ Stage(c, k, m)'
<1>. DEFINE Goal == \E k, m \in Nat : /\ mine'[c].own = k /\ mine'[c].answer = m
                                      /\ at'[c] # "send0" => k \in 1 .. sent'
                                      /\ Stage(c, k, m)'
<1>. SUFFICES Goal
     OBVIOUS
<1>1. /\ c \in Parties /\ Listener \in Parties /\ Listener # c /\ Running(c) /\ Running(Listener)
      /\ \A p \in Parties : p # c /\ p # Listener => ~Running(p) /\ p \in Clients
  <2>1. at[Listener] \notin {"no", "done"} /\ Running(c) /\ \A d \in Clients : d # c => ~Running(d)
        BY DEF AloneInv, Calm
  <2>. QED BY <2>1, ListenerIs DEF Running
<1>2. ~Trouble
  <2>1. SUFFICES ASSUME Trouble PROVE FALSE
        OBVIOUS
  <2>. QED BY <1>1, <2>1, TroubleIs DEF Calm
<1>3. sent \in Nat /\ at \in [Parties -> Place]
      BY DEF Types
<1>. HIDE DEF Goal
<1>4. ASSUME Stage(c, o, a)', mine' = mine, sent' \in {sent, sent + 1}, at[c] = "send0" => at'[c] = "send0" PROVE Goal
      BY <1>3, <1>4 DEF Goal
<1>5. ASSUME Kept(c), Kept(Listener), mine' = mine, sent' = sent PROVE Goal
  <2>1. Stage(c, o, a)'
        BY <1>5, KeptStage
  <2>2. at[c] = "send0" => at'[c] = "send0"
        BY <1>5 DEF Kept
  <2>. QED BY <1>4, <1>5, <2>1, <2>2
<1>6. CASE UNCHANGED frameVars
  <2>1. Still(c) /\ Still(Listener) /\ mine' = mine /\ sent' = sent
        BY <1>6 DEF frameVars, Still
  <2>. QED BY <1>5, <2>1, StillIsKept
\* One of the two goes on by itself.
<1>7. ASSUME NEW p \in Parties,
             HwStamp(p) \/ TakeStamp(p) \/ DropStamp(p) \/ NoStamp(p) \/ NoSecondStamp(p) \/ RecvFirst(p)
      PROVE  Goal
  <2>1. Kept(p)
        BY <1>2, <1>7, StampIsKept, FetchIsKept, NoStampIsKept, FirstIsKept
  <2>2. mine' = mine /\ sent' = sent
        BY <1>7 DEF HwStamp, TakeStamp, DropStamp, NoStamp, NoSecondStamp, RecvFirst
  <2>3. ASSUME NEW q \in Parties, q # p PROVE Still(q)
    <3>1. CASE HwStamp(p)
          BY <2>3, <3>1 DEF Types, HwStamp, Still
    <3>2. CASE TakeStamp(p) \/ DropStamp(p)
          BY <2>3, <3>2 DEF Types, TakeStamp, DropStamp, Goto, Still
    <3>3. CASE NoStamp(p) \/ NoSecondStamp(p)
          BY <2>3, <3>3 DEF Types, NoStamp, NoSecondStamp, Goto, Still
    <3>4. CASE RecvFirst(p)
          BY <2>3, <3>4 DEF Types, RecvFirst, Read, Goto, Still
    <3>. QED BY <1>7, <3>1, <3>2, <3>3, <3>4
  <2>4. \A q \in Parties : Kept(q)
        BY <2>1, <2>3, StillIsKept
  <2>. QED BY <1>1, <1>5, <2>2, <2>4
<1>8. ASSUME NEW p \in Parties, Open(p) PROVE FALSE
  <2>1. p # c /\ p # Listener
        BY <1>1, <1>8 DEF Open, Running
  <2>2. c \in troubles'.met
        BY <1>1, <1>8, <2>1 DEF Open
  <2>. QED BY <2>2 DEF Calm
<1>9. ASSUME NEW p \in Parties, SendFirst(p) PROVE Goal
  <2>1. p = c \/ p = Listener
        BY <1>1, <1>9 DEF SendFirst, Running
  <2>2. sent' = sent + 1 /\ sent + 1 \in Nat /\ c # Listener
        BY <1>1, <1>3, <1>9 DEF SendFirst, Out
  <2>3. CASE p = c
    <3>1. mine'[c].own = sent + 1 /\ mine'[c].answer = 0
          BY <1>9, <2>3 DEF SendFirst
    <3>2. \A k : k = sent + 1 => Stage(c, k, 0)'
          BY <1>1, <1>2, <1>9, <2>3, ClientBegins
    <3>3. PICK k \in Nat : k = sent + 1
          BY <2>2
    <3>4. Stage(c, k, 0)' /\ mine'[c].own = k /\ mine'[c].answer = 0 /\ k \in 1 .. sent'
          BY <1>3, <2>2, <3>1, <3>2, <3>3
    <3>. QED BY <3>4 DEF Goal
  <2>4. CASE p = Listener
    <3>1. /\ f[Listener].ts = Got(o)
          /\ \A k : k = sent + 1 => Stage(c, o, k)'
          BY <1>1, <1>2, <1>9, <2>4, ListenerBegins
    <3>2. Got(o)[1] = <<"rx", o>>
          BY BlankIs DEF Got, Asked
    <3>3. mine'[c] = [mine[c] EXCEPT !.answer = sent + 1]
          BY <1>1, <1>9, <2>4, <3>1, <3>2 DEF SendFirst
    <3>4. mine'[c].own = o /\ mine'[c].answer = sent + 1
          BY <3>3 DEF Types
    <3>5. PICK k \in Nat : k = sent + 1
          BY <2>2
    <3>6. at'[c] = at[c]
          BY <1>1, <1>3, <1>9, <2>4 DEF SendFirst, Goto
    <3>7. Stage(c, o, k)' /\ mine'[c].answer = k /\ (at'[c] # "send0" => o \in 1 .. sent')
          BY <1>3, <2>2, <3>1, <3>4, <3>5, <3>6
    <3>. QED BY <3>4, <3>7 DEF Goal
  <2>. QED BY <2>1, <2>3, <2>4
<1>10. ASSUME NEW p \in Parties, SendSecond(p) PROVE Goal
  <2>1. p = c \/ p = Listener
        BY <1>1, <1>10 DEF SendSecond, Running
  <2>2. sent' = sent + 1 /\ mine' = mine /\ at[p] = "send1" /\ at' = [at EXCEPT ![p] = "stamp1"]
        BY <1>10 DEF SendSecond, Out, Goto
  <2>3. Stage(c, o, a)'
        BY <1>1, <1>2, <1>10, <2>1, ClientTells, ListenerTells
  <2>4. at[c] = "send0" => at'[c] = "send0"
        BY <1>1, <1>3, <2>2
  <2>. QED BY <1>4, <2>2, <2>3, <2>4
<1>11. ASSUME NEW p \in Parties, RecvSecond(p) PROVE Goal
  <2>1. p = c \/ p = Listener
        BY <1>1, <1>11 DEF RecvSecond, Running
  <2>2. mine' = mine /\ sent' = sent /\ at[p] = "recv1" /\ at' = [at EXCEPT ![p] = AfterRecv(p)]
        BY <1>11 DEF RecvSecond, Goto
  <2>3. ASSUME NEW q \in Parties, q # p PROVE Kept(q)
    <3>1. Still(q)
          BY <1>11, <2>3 DEF Types, RecvSecond, Read, Goto, Still
    <3>. QED BY <3>1, StillIsKept
  <2>4. Stage(c, o, a)'
        BY <1>1, <1>11, <2>1, <2>3, ClientReads, ListenerReads
  <2>5. at[c] = "send0" => at'[c] = "send0"
        BY <1>1, <1>3, <2>2
  <2>. QED BY <1>4, <2>2, <2>4, <2>5
<1>12. ASSUME NEW d \in Clients, Report(d) PROVE FALSE
  <2>1. d = c
        BY <1>1, <1>12, ListenerIs DEF Report, Running
  <2>. QED BY <1>1, <1>3, <1>12, <2>1 DEF Report, Goto, Calm, Running
<1>13. ASSUME NEW p \in Parties, OthersFrame \/ HwStampLost(p) \/ GoesWrong(p) PROVE FALSE
       BY <1>2, <1>13 DEF OthersFrame, HwStampLost, GoesWrong, NotOpened, SendFirstFails, SendSecondFails, RecvSecondFails
<1>. QED BY <1>1, <1>6, <1>7, <1>8, <1>9, <1>10, <1>11, <1>12, <1>13 DEF FrameNext, Turn, Send

\* Each step keeps StageInv.
LEMMA StageNext == Types /\ AloneInv /\ FreshInv /\ StageInv /\ [FrameNext]_frameVars => StageInv'
<1> SUFFICES ASSUME Types, AloneInv, FreshInv, StageInv, [FrameNext]_frameVars, NEW c \in Clients, Calm(c)'
             PROVE  \E k, m \in Nat : /\ mine'[c].own = k /\ mine'[c].answer = m
                                      /\ at'[c] # "send0" => k \in 1 .. sent'
                                      /\ Stage(c, k, m)'
    BY DEF StageInv
<1>1. CASE Calm(c)
  <2>1. PICK o \in Nat, a \in Nat : /\ mine[c].own = o /\ mine[c].answer = a
                                    /\ at[c] # "send0" => o \in 1 .. sent
                                    /\ Stage(c, o, a)
        BY <1>1 DEF StageInv
  <2>. QED BY <1>1, <2>1, StageGoesOn
<1>2. CASE ~Calm(c)
  <2>1. c \in Parties /\ Listener \in Parties /\ Listener # c /\ at \in [Parties -> Place]
        BY ListenerIs DEF Types
  <2>2. /\ Open(c) /\ at' = [at EXCEPT ![c] = "send0"]
        /\ at[Listener] = "recv0" /\ queue[Listener] = <<>> /\ errors[Listener] = <<>> /\ coming[Listener] = <<>>
        BY <1>2, CalmBegins
  <2>3. f[c].ts = NoTimes /\ Quiet(c) /\ HasNone(c)
        BY <2>2 DEF FreshInv, Open
  <2>4. f' = f /\ queue' = queue /\ errors' = errors /\ coming' = coming /\ mine' = mine
        BY <2>2 DEF Open
  <2>5. at'[c] = "send0" /\ at'[Listener] = "recv0"
        BY <2>1, <2>2
  <2>6. Begins(c)'
        BY <2>2, <2>3, <2>4, <2>5, EmptyIs DEF Begins, Quiet, HasNone, Listens
  <2>7. mine'[c].own \in Nat /\ mine'[c].answer \in Nat
        BY <2>4 DEF Types
  <2>. QED BY <2>5, <2>6, <2>7 DEF Stage
<1>. QED BY <1>1, <1>2

-----------------------------------------------------------------------------
(* What was reported stays right.                                          *)

\* The listener will not answer the frame k any more.
Behind(k) ==
  /\ k \in 1 .. sent /\ \A i \in 1 .. Len(queue[Listener]) : queue[Listener][i].k # k
  /\ at[Listener] \in {"recv1", "send0"} => stamp[Listener] # <<"rx", k>>

\* It answers with the time at which it received.
ReceiptInv == at[Listener] = "send0" => f[Listener].ts[1] = stamp[Listener]

\* What calm clients reported is right, and remains so.
PastInv == \A r \in reports : r.calm =>
  r.by \in Clients /\ at[r.by] = "done" /\ Right(r) /\ Behind(mine[r.by].own)

\* What an action of another changes of the listener's.
LEMMA ListenerSpared ==
  ASSUME Types, [FrameNext]_frameVars,
         ~TakeStamp(Listener), ~NoStamp(Listener), ~SendFirst(Listener), ~SendSecond(Listener), ~RecvFirst(Listener),
         ~RecvSecond(Listener), ~SendFirstFails(Listener), ~SendSecondFails(Listener), ~RecvSecondFails(Listener)
  PROVE  /\ f'[Listener] = f[Listener] /\ stamp'[Listener] = stamp[Listener]
         /\ at'[Listener] = at[Listener] \/ at'[Listener] \notin {"recv1", "send0"}
<1>1. Listener \in Parties /\ Listener \notin Clients
      BY FrameAssumption, ListenerIs DEF FrameAssumption
<1>2. ASSUME NEW p \in Parties, HwStamp(p) \/ HwStampLost(p) \/ Open(p) \/ NotOpened(p)
      PROVE  /\ f' = f /\ stamp' = stamp
             /\ at'[Listener] = at[Listener] \/ at'[Listener] \notin {"recv1", "send0"}
      BY <1>1, <1>2 DEF HwStamp, HwStampLost, Open, NotOpened, Goto, Types
<1>3. ASSUME NEW p \in Parties, SendFirst(p) \/ SendSecond(p)
      PROVE  f'[Listener] = f[Listener] /\ stamp' = stamp /\ at'[Listener] = at[Listener]
  <2>1. p # Listener
        BY <1>3
  <2>2. f' = [f EXCEPT ![p] = FirstFrame(p)] \/ f' = [f EXCEPT ![p] = FollowUp(p)]
        BY <1>3 DEF SendFirst, SendSecond, Out
  <2>. QED BY <1>1, <1>3, <2>1, <2>2 DEF SendFirst, SendSecond, Goto, Types
<1>4. ASSUME NEW p \in Parties, DropStamp(p) \/ NoSecondStamp(p)
      PROVE  /\ f' = f /\ stamp' = stamp
             /\ at'[Listener] = at[Listener] \/ at'[Listener] \notin {"recv1", "send0"}
      BY <1>1, <1>4 DEF DropStamp, NoSecondStamp, Goto, AfterSend, Types
<1>5. ASSUME NEW p \in Parties, p # Listener, TakeStamp(p) \/ NoStamp(p) \/ RecvFirst(p) \/ RecvSecond(p)
      PROVE  f'[Listener] = f[Listener] /\ stamp'[Listener] = stamp[Listener] /\ at'[Listener] = at[Listener]
      BY <1>1, <1>5 DEF TakeStamp, NoStamp, RecvFirst, RecvSecond, Goto, Types
<1>6. ASSUME NEW p \in Parties, p # Listener, SendFirstFails(p) \/ SendSecondFails(p) \/ RecvSecondFails(p)
      PROVE  f'[Listener] = f[Listener] /\ stamp'[Listener] = stamp[Listener] /\ at'[Listener] = at[Listener]
      BY <1>1, <1>6 DEF SendFirstFails, SendSecondFails, RecvSecondFails, Goto, Types
<1>7. ASSUME NEW c \in Clients, Report(c)
      PROVE  f' = f /\ stamp' = stamp /\ at'[Listener] = at[Listener]
      BY <1>1, <1>7 DEF Report, Goto, Types
<1>8. CASE OthersFrame \/ UNCHANGED frameVars
      BY <1>8 DEF OthersFrame, frameVars
<1>9. ASSUME NEW p \in Parties, Turn(p) \/ GoesWrong(p)
      PROVE  /\ f'[Listener] = f[Listener] /\ stamp'[Listener] = stamp[Listener]
             /\ at'[Listener] = at[Listener] \/ at'[Listener] \notin {"recv1", "send0"}
      BY <1>2, <1>3, <1>4, <1>5, <1>6, <1>9 DEF Turn, Send, GoesWrong
<1>. QED BY <1>2, <1>7, <1>8, <1>9 DEF FrameNext

\* Each step keeps ReceiptInv.
LEMMA ReceiptNext == Types /\ ReceiptInv /\ [FrameNext]_frameVars => ReceiptInv'
<1> SUFFICES ASSUME Types, ReceiptInv, [FrameNext]_frameVars, at'[Listener] = "send0"
             PROVE  f'[Listener].ts[1] = stamp'[Listener]
    BY DEF ReceiptInv
<1>1. Listener \in Parties /\ at \in [Parties -> Place] /\ RecvOffset(Listener) = 1
      BY ListenerIs DEF Types, RecvOffset
<1>2. ASSUME NEW g \in Frame, f' = [f EXCEPT ![Listener] = Followed(Listener, g)], stamp' = stamp
      PROVE  f'[Listener].ts[1] = stamp'[Listener]
  <2>1. f'[Listener] = Followed(Listener, g) /\ g.ts \in [0 .. 3 -> Time]
        BY <1>1, <1>2 DEF Types, Frame
  <2>2. f'[Listener].ts = [g.ts EXCEPT ![1] = stamp[Listener]]
        BY <1>1, <2>1, FollowedIs
  <2>. QED BY <1>2, <2>1, <2>2
<1>3. CASE RecvSecond(Listener)
  <2>1. Head(queue[Listener]) \in Frame
        BY <1>1, <1>3, TailTypes DEF RecvSecond, Read, Types
  <2>. QED BY <1>2, <1>3, <2>1 DEF RecvSecond
<1>4. CASE RecvSecondFails(Listener)
  <2>1. f[Listener] \in Frame
        BY <1>1 DEF Types
  <2>2. f' = [f EXCEPT ![Listener] = Followed(Listener, f[Listener])]
        BY <1>4 DEF RecvSecondFails
  <2>. QED BY <1>2, <1>4, <2>1, <2>2 DEF RecvSecondFails
<1>5. CASE TakeStamp(Listener) \/ NoStamp(Listener) \/ SendFirst(Listener) \/ SendSecond(Listener) \/ RecvFirst(Listener)
           \/ SendFirstFails(Listener) \/ SendSecondFails(Listener)
      BY <1>1, <1>5 DEF TakeStamp, NoStamp, SendFirst, SendSecond, RecvFirst, SendFirstFails, SendSecondFails, Goto, AfterSend
<1>6. CASE ~(\/ TakeStamp(Listener) \/ NoStamp(Listener) \/ SendFirst(Listener) \/ SendSecond(Listener) \/ RecvFirst(Listener)
             \/ RecvSecond(Listener) \/ SendFirstFails(Listener) \/ SendSecondFails(Listener) \/ RecvSecondFails(Listener))
  <2>1. /\ f'[Listener] = f[Listener] /\ stamp'[Listener] = stamp[Listener]
        /\ at'[Listener] = at[Listener] \/ at'[Listener] \notin {"recv1", "send0"}
        BY <1>6, ListenerSpared
  <2>. QED BY <2>1 DEF ReceiptInv
<1>. QED BY <1>3, <1>4, <1>5, <1>6

\* What is in the listener's socket, and what is new there.
LEMMA SocketNext ==
  ASSUME Types, [FrameNext]_frameVars, NEW i \in 1 .. Len(queue'[Listener])
  PROVE  \/ \E j \in 1 .. Len(queue[Listener]) : queue'[Listener][i] = queue[Listener][j]
         \/ queue'[Listener][i].k = 0
         \/ queue'[Listener][i].k = sent + 1
<1>. DEFINE q == queue[Listener]
            Goal == \/ \E j \in 1 .. Len(q) : queue'[Listener][i] = q[j]
                    \/ queue'[Listener][i].k = 0
                    \/ queue'[Listener][i].k = sent + 1
<1>1. Listener \in Parties /\ q \in Seq(Frame) /\ Len(q) \in Nat /\ Listener \notin Clients
  <2>1. q \in Seq(Frame) /\ Listener \in Parties
        BY ListenerIs DEF Types
  <2>. QED BY <2>1, LenProperties, FrameAssumption DEF FrameAssumption
<1>. SUFFICES Goal
     OBVIOUS
<1>. HIDE DEF q, Goal
<1>2. ASSUME queue'[Listener] = q PROVE Goal
      BY <1>2 DEF Goal
<1>3. ASSUME NEW e \in Frame, e.k = 0 \/ e.k = sent + 1, queue'[Listener] = Append(q, e) PROVE Goal
  <2>1. /\ Len(Append(q, e)) = Len(q) + 1
        /\ \A j \in 1 .. Len(q) + 1 : Append(q, e)[j] = IF j <= Len(q) THEN q[j] ELSE e
        BY <1>1, AppendIs
  <2>2. i \in 1 .. Len(q) + 1 /\ queue'[Listener][i] = IF i <= Len(q) THEN q[i] ELSE e
        BY <1>3, <2>1
  <2>3. CASE i <= Len(q)
    <3>1. i \in 1 .. Len(q)
          BY <1>1, <2>2, <2>3
    <3>. QED BY <2>2, <2>3, <3>1 DEF Goal
  <2>4. CASE ~(i <= Len(q))
    <3>1. queue'[Listener][i] = e
          BY <2>2, <2>4
    <3>. QED BY <1>3, <3>1 DEF Goal
  <2>. QED BY <2>3, <2>4
<1>4. ASSUME q # <<>>, queue'[Listener] = Tail(q) PROVE Goal
  <2>1. /\ Len(Tail(q)) = Len(q) - 1 /\ \A j \in 1 .. Len(q) - 1 : Tail(q)[j] = q[j + 1]
        BY <1>1, <1>4, HeadTailIs
  <2>2. i \in 1 .. Len(q) - 1 /\ i + 1 \in 1 .. Len(q)
        BY <1>1, <1>4, <2>1
  <2>. QED BY <1>4, <2>1, <2>2 DEF Goal
<1>5. CASE OthersFrame
  <2>. DEFINE e == [Blank EXCEPT !.stamp = FALSE]
  <2>1. e \in Frame /\ e.k = 0
        BY BlankIs DEF Frame
  <2>2. queue'[Listener] = q \/ queue'[Listener] = Append(q, e)
        BY <1>1, <1>5 DEF OthersFrame, Arrives, q
  <2>. HIDE DEF e
  <2>. QED BY <1>2, <1>3, <2>1, <2>2
<1>6. ASSUME NEW p \in Parties, SendFirst(p) \/ SendSecond(p) PROVE Goal
  <2>1. PICK g \in Frame : Out(p, g)
        BY <1>6, FirstIs, FollowUpIs DEF SendFirst, SendSecond
  <2>. DEFINE e == [g EXCEPT !.k = sent + 1]
  <2>2. e \in Frame /\ e.k = sent + 1
    <3>1. sent \in Nat
          BY DEF Types
    <3>. QED BY <3>1 DEF Frame
  <2>3. queue'[Listener] = q \/ queue'[Listener] = Append(q, e)
        BY <1>1, <2>1, OutIs DEF q
  <2>. HIDE DEF e
  <2>. QED BY <1>2, <1>3, <2>2, <2>3
<1>7. ASSUME NEW p \in Parties, RecvFirst(p) \/ RecvSecond(p) PROVE Goal
  <2>1. queue[p] # <<>> /\ queue' = [queue EXCEPT ![p] = Tail(@)]
        BY <1>7 DEF RecvFirst, RecvSecond, Read
  <2>. QED BY <1>1, <1>2, <1>4, <2>1 DEF Types, q
<1>8. ASSUME NEW p \in Parties, HwStamp(p) \/ HwStampLost(p) \/ Open(p) \/ TakeStamp(p) \/ NoStamp(p)
                                \/ DropStamp(p) \/ NoSecondStamp(p) \/ GoesWrong(p)
      PROVE  Goal
  <2>1. queue' = queue
        BY <1>8 DEF HwStamp, HwStampLost, Open, TakeStamp, NoStamp, DropStamp, NoSecondStamp, GoesWrong, NotOpened,
           SendFirstFails, SendSecondFails, RecvSecondFails
  <2>. QED BY <1>2, <2>1 DEF q
<1>9. ASSUME NEW c \in Clients, Report(c) PROVE Goal
  <2>1. queue'[Listener] = q
        BY <1>1, <1>9 DEF Report, Types, q
  <2>. QED BY <1>2, <2>1
<1>10. CASE UNCHANGED frameVars
       BY <1>2, <1>10 DEF frameVars, q
<1>. QED BY <1>5, <1>6, <1>7, <1>8, <1>9, <1>10 DEF FrameNext, Turn, Send

\* A frame that the listener is done with stays so.
LEMMA BehindNext ==
  ASSUME Types, [FrameNext]_frameVars, NEW k, Behind(k)
  PROVE  Behind(k)'
<1>1. /\ Listener \in Parties /\ sent \in Nat /\ k \in 1 .. sent
      /\ queue[Listener] \in Seq(Frame) /\ at \in [Parties -> Place] /\ stamp \in [Parties -> Time]
      BY ListenerIs DEF Types, Behind
<1>2. sent' \in {sent, sent + 1}
  <2>1. ASSUME NEW p \in Parties, Turn(p) \/ GoesWrong(p) \/ HwStamp(p) \/ HwStampLost(p) \/ Open(p)
        PROVE  sent' \in {sent, sent + 1}
        BY <2>1 DEF Turn, Send, SendFirst, TakeStamp, NoStamp, SendSecond, DropStamp, NoSecondStamp, RecvFirst,
           RecvSecond, GoesWrong, NotOpened, SendFirstFails, SendSecondFails, RecvSecondFails, HwStamp, HwStampLost,
           Open, Out
  <2>2. ASSUME NEW c \in Clients, Report(c) PROVE sent' = sent
        BY <2>2 DEF Report
  <2>3. CASE OthersFrame \/ UNCHANGED frameVars
        BY <2>3 DEF OthersFrame, frameVars
  <2>. QED BY <2>1, <2>2, <2>3 DEF FrameNext
<1>3. k \in 1 .. sent'
      BY <1>1, <1>2
<1>4. \A i \in 1 .. Len(queue'[Listener]) : queue'[Listener][i].k # k
      BY <1>1, SocketNext DEF Behind
<1>5. at'[Listener] \in {"recv1", "send0"} => stamp'[Listener] # <<"rx", k>>
  <2>1. CASE RecvFirst(Listener)
    <3>1. queue[Listener] # <<>> /\ stamp'[Listener] = <<"rx", Head(queue[Listener]).k>>
          BY <1>1, <2>1 DEF RecvFirst, Read
    <3>2. Head(queue[Listener]) = queue[Listener][1] /\ 1 \in 1 .. Len(queue[Listener])
          BY <1>1, <3>1, HeadTailIs
    <3>3. Head(queue[Listener]).k # k
          BY <3>2 DEF Behind
    <3>. QED BY <3>1, <3>3
  <2>2. CASE RecvSecond(Listener) \/ RecvSecondFails(Listener)
        BY <2>2 DEF RecvSecond, RecvSecondFails, Behind
  <2>3. CASE TakeStamp(Listener) \/ NoStamp(Listener) \/ SendFirst(Listener) \/ SendSecond(Listener)
             \/ SendFirstFails(Listener) \/ SendSecondFails(Listener)
        BY <1>1, <2>3 DEF TakeStamp, NoStamp, SendFirst, SendSecond, SendFirstFails, SendSecondFails, Goto, AfterSend
  <2>4. CASE ~(\/ TakeStamp(Listener) \/ NoStamp(Listener) \/ SendFirst(Listener) \/ SendSecond(Listener)
               \/ RecvFirst(Listener) \/ RecvSecond(Listener) \/ SendFirstFails(Listener)
               \/ SendSecondFails(Listener) \/ RecvSecondFails(Listener))
    <3>1. /\ stamp'[Listener] = stamp[Listener]
          /\ at'[Listener] = at[Listener] \/ at'[Listener] \notin {"recv1", "send0"}
          BY <2>4, ListenerSpared
    <3>. QED BY <3>1 DEF Behind
  <2>. QED BY <2>1, <2>2, <2>3, <2>4
<1>. QED BY <1>3, <1>4, <1>5 DEF Behind

\* Who is done begins no other exchange, nor is answered again.
LEMMA MineNext ==
  ASSUME Types, ReceiptInv, [FrameNext]_frameVars, NEW c \in Clients, at[c] = "done", Behind(mine[c].own)
  PROVE  mine'[c] = mine[c]
<1>1. c # Listener /\ Listener \in Parties /\ mine \in [Clients -> [own : Nat, answer : Nat]]
      BY ListenerIs DEF Types
<1>2. ASSUME NEW p \in Parties, SendFirst(p) PROVE mine'[c] = mine[c]
  <2>1. p # c
        BY <1>2 DEF SendFirst
  <2>2. ~(p = Listener /\ f[p].ts[1] = <<"rx", mine[c].own>>)
        BY <1>2 DEF SendFirst, ReceiptInv, Behind
  <2>. QED BY <1>1, <1>2, <2>1, <2>2 DEF SendFirst
<1>3. ASSUME NEW p \in Parties, \/ HwStamp(p) \/ HwStampLost(p) \/ Open(p) \/ GoesWrong(p) \/ RecvFirst(p) \/ RecvSecond(p)
                                \/ TakeStamp(p) \/ NoStamp(p) \/ SendSecond(p) \/ DropStamp(p) \/ NoSecondStamp(p)
      PROVE  mine' = mine
      BY <1>3 DEF TakeStamp, NoStamp, SendSecond, DropStamp, NoSecondStamp, RecvFirst,
           RecvSecond, GoesWrong, NotOpened, SendFirstFails, SendSecondFails, RecvSecondFails, HwStamp, HwStampLost, Open
<1>4. ASSUME NEW d \in Clients, Report(d) PROVE mine' = mine
      BY <1>4 DEF Report
<1>5. CASE OthersFrame \/ UNCHANGED frameVars
      BY <1>5 DEF OthersFrame, frameVars
<1>. QED BY <1>2, <1>3, <1>4, <1>5 DEF FrameNext, Turn, Send

\* The times of a whole exchange.
LEMMA FullIs ==
  ASSUME NEW o \in Nat, NEW a \in Nat
  PROVE  Full(o, a) = [i \in 0 .. 3 |-> CASE i = 0 -> <<"tx", o>> [] i = 1 -> <<"rx", o>>
                                          [] i = 2 -> <<"tx", a>> [] OTHER -> <<"rx", a>>]
<1>1. NoTimes = [i \in 0 .. 3 |-> Zero]
      BY DEF NoTimes
<1>2. Asked(o) = [i \in 0 .. 3 |-> IF i = 0 THEN <<"tx", o>> ELSE Zero]
      BY <1>1 DEF Asked
<1>3. Got(o) = [i \in 0 .. 3 |-> IF i = 0 THEN <<"tx", o>> ELSE IF i = 1 THEN <<"rx", o>> ELSE Zero]
      BY <1>2 DEF Got
<1>4. Told(o, a) = [i \in 0 .. 3 |-> IF i = 0 THEN <<"tx", o>> ELSE IF i = 1 THEN <<"rx", o>>
                                     ELSE IF i = 2 THEN <<"tx", a>> ELSE Zero]
      BY <1>3 DEF Told
<1>. QED BY <1>4 DEF Full

\* What a calm client reports is right, and stays right.
LEMMA PastNext ==
  Types /\ StageInv /\ ReceiptInv /\ PastInv /\ [FrameNext]_frameVars => PastInv'
<1> SUFFICES ASSUME Types, StageInv, ReceiptInv, PastInv, [FrameNext]_frameVars, NEW r \in reports', r.calm
             PROVE  r.by \in Clients /\ at'[r.by] = "done" /\ Right(r)' /\ Behind(mine[r.by].own)'
    BY DEF PastInv
<1>1. at \in [Parties -> Place]
      BY DEF Types
<1>2. CASE r \in reports
  <2>1. r.by \in Clients /\ at[r.by] = "done" /\ Right(r) /\ Behind(mine[r.by].own)
        BY <1>2 DEF PastInv
  <2>2. mine'[r.by] = mine[r.by]
        BY <2>1, MineNext
  <2>3. \A k : Behind(k) => Behind(k)'
        BY BehindNext
  <2>4. PICK k : k = mine[r.by].own
        OBVIOUS
  <2>5. Behind(k)'
        BY <2>1, <2>3, <2>4
  <2>6. Behind(mine[r.by].own)'
        BY <2>2, <2>4, <2>5 DEF Behind
  <2>7. Right(r)'
        BY <2>1, <2>2 DEF Right
  <2>8. at'[r.by] = "done"
    <3>1. r.by \in Parties
          BY <2>1, ListenerIs
    <3>2. at'[r.by] = at[r.by] \/ Open(r.by) \/ NotOpened(r.by) \/ Running(r.by)
          BY <3>1, PlacesNext
    <3>. QED BY <2>1, <3>2 DEF Open, NotOpened, Running
  <2>. QED BY <2>1, <2>6, <2>7, <2>8
<1>3. CASE r \notin reports
  <2>1. PICK c \in Clients : Report(c) /\ r = [by |-> c, ts |-> f[c].ts, calm |-> c \notin troubles.met]
    <3>1. ASSUME NEW p \in Parties, HwStamp(p) \/ HwStampLost(p) \/ Open(p) \/ Turn(p) \/ GoesWrong(p)
          PROVE  reports' = reports
          BY <3>1 DEF Turn, Send, SendFirst, TakeStamp, NoStamp, SendSecond, DropStamp, NoSecondStamp, RecvFirst,
             RecvSecond, GoesWrong, NotOpened, SendFirstFails, SendSecondFails, RecvSecondFails, HwStamp, HwStampLost, Open
    <3>2. CASE OthersFrame \/ UNCHANGED frameVars
          BY <1>3, <3>2 DEF OthersFrame, frameVars
    <3>3. PICK c \in Clients : Report(c)
          BY <1>3, <3>1, <3>2 DEF FrameNext
    <3>. DEFINE x == [by |-> c, ts |-> f[c].ts, calm |-> c \notin troubles.met]
    <3>4. reports' = reports \cup {x}
          BY <3>3 DEF Report
    <3>5. r = x
      <4>. HIDE DEF x
      <4>. QED BY <1>3, <3>4
    <3>. QED BY <3>3, <3>5
  <2>2. c \in Parties /\ Listener \in Parties /\ Listener # c
        BY ListenerIs
  <2>3. at[c] = "report" /\ at'[c] = "done" /\ mine' = mine /\ sent' = sent
        BY <1>1, <2>1, <2>2 DEF Report, Goto
  <2>4. Calm(c) /\ r.by = c /\ r.ts = f[c].ts
        BY <2>1, <2>3 DEF Calm, Running
  <2>5. PICK o \in Nat, a \in Nat : mine[c].own = o /\ mine[c].answer = a /\ o \in 1 .. sent /\ Stage(c, o, a)
        BY <2>3, <2>4 DEF StageInv
  <2>6. Ends(c, o, a) /\ f[c].ts = Full(o, a)
        BY <2>3, <2>5 DEF Stage, Begins, Asks, Awaits, Answered, Ends, SentOne, Listens
  <2>7. Right(r)'
        BY <2>3, <2>4, <2>5, <2>6, FullIs DEF Right
  <2>8. Behind(o)
    <3>1. Len(queue[Listener]) = 0
          BY <2>6 DEF Ends, HasNone
    <3>2. at[Listener] \notin {"recv1", "send0"}
          BY <2>6 DEF Ends, Listens
    <3>. QED BY <2>5, <3>1, <3>2 DEF Behind
  <2>9. Behind(o)'
        BY <2>8, BehindNext
  <2>10. Behind(mine[r.by].own)'
        BY <2>3, <2>4, <2>5, <2>9 DEF Behind
  <2>. QED BY <2>3, <2>4, <2>7, <2>10
<1>. QED BY <1>2, <1>3

-----------------------------------------------------------------------------
\* report_times prints the four times of one exchange, unless something went wrong
\* while it went on: any number of clients, frames and troubles.
THEOREM ReportsAreRight == FrameSpec => []ReportIsRight
<1>. DEFINE Inv == Types /\ AloneInv /\ FreshInv /\ StageInv /\ ReceiptInv /\ PastInv
<1>1. FrameInit => Inv
  <2> SUFFICES ASSUME FrameInit PROVE Inv
      OBVIOUS
  <2>1. \A c \in Clients : ~Running(c) /\ c \in Parties
        BY ListenerIs DEF FrameInit, Running
  <2>2. AloneInv /\ StageInv
        BY <2>1 DEF AloneInv, StageInv, Calm
  <2>3. FreshInv
        BY <2>1, BlankIs, EmptyIs DEF FrameInit, FreshInv, Quiet, HasNone
  <2>4. ReceiptInv /\ PastInv
        BY ListenerIs DEF FrameInit, ReceiptInv, PastInv
  <2>. QED BY <2>2, <2>3, <2>4, TypesInit
<1>2. Inv /\ [FrameNext]_frameVars => Inv'
      BY TypesNext, AloneNext, FreshNext, StageNext, ReceiptNext, PastNext
<1>3. Inv => ReportIsRight
      BY DEF PastInv, ReportIsRight
<1>. QED BY <1>1, <1>2, <1>3, PTL DEF FrameSpec
=============================================================================
