----------------------------- MODULE MCNicTools -----------------------------
(***************************************************************************)
(* Two cards with two channels, a second of a hundred units and a cycle of *)
(* four.  A ruler listens to the input 0 of the first, and the commands    *)
(* disturb it and each other.                                              *)
(*                                                                         *)
(* stamp-frame needs only a network interface that stamps, and nothing of  *)
(* the card's I/O.  It is played by itself, in the scene called Quiet.     *)
(***************************************************************************)
EXTENDS DioTools, StampFrame, TLC

Dec(sec, frac) == [sec |-> sec, frac |-> frac, more |-> FALSE]
Do(remote, ch, delay) == [remote |-> remote, ch |-> ch, delay |-> delay]
Good == [in |-> 0, actions |-> <<Do(FALSE, 1, Dec(Absent, <<0, 8>>)), Do(TRUE, 1, Dec(1, <<0, 5>>)), Do(FALSE, 0, Dec(0, <<5>>))>>]
Far == [in |-> 0, actions |-> <<Do(TRUE, 1, Dec(0, <<>>)), Do(TRUE, 0, Dec(1, <<5>>))>>]
Bad == [in |-> 0, actions |-> <<Do(TRUE, 9, Dec(1, <<>>))>>]

MCLine ==
  "set"  :> [cmd |-> "mode", node |-> "here", list |-> <<<<0, "P">>, <<1, "d">>>>]
  @@ "zero" :> [cmd |-> "mode", node |-> "here", list |-> <<<<0, "-">>, <<1, "1">>>>]
  @@ "get"  :> [cmd |-> "get", node |-> "here", chans |-> {0, 1}]
  @@ "bad"  :> [cmd |-> "mode", node |-> "here", list |-> <<<<1, "c">>, <<0, "D">>>>]
  @@ "now"  :> [cmd |-> "pulse", node |-> "here", ch |-> 1, when |-> "now", others |-> <<Dec(Absent, <<1>>)>>]
  @@ "at"   :> [cmd |-> "pulse", node |-> "here", ch |-> 1, when |-> "at", at |-> Dec(2, <<0, 1>>),
                others |-> <<Dec(0, <<1>>), Dec(1, <<>>)>>]
  @@ "pps"  :> [cmd |-> "pps", node |-> "here", ch |-> 1, when |-> "rel", at |-> Dec(2, <<>>),
                others |-> <<Dec(Absent, <<1>>), Dec(1, <<>>)>>]
  @@ "crap" :> [cmd |-> "pulse", node |-> "here", ch |-> 1, when |-> "at", at |-> [sec |-> 1, frac |-> <<2>>, more |-> TRUE],
                others |-> <<Dec(0, <<1>>)>>]
  @@ "off"  :> [cmd |-> "offset", node |-> "here", chans |-> {1}, value |-> -9]
  @@ "all"  :> [cmd |-> "stampm", node |-> "here", chans |-> {0, 1}, wait |-> TRUE]
  @@ "wait" :> [cmd |-> "stamp", node |-> "here", chans |-> {0}, wait |-> TRUE]
Scene(r, cmds, edges) == [ruler |-> r, tools |-> cmds, edges |-> edges]
Quiet == Scene(Bad, {}, {})
MCScenes == { Quiet,
  Scene(Good, {}, {<<"here", 0>>}), Scene(Far, {"wait"}, {<<"here", 0>>}),
  Scene(Good, {"all"}, {<<"here", 0>>, <<"here", 1>>}), Scene(Good, {"off"}, {<<"here", 0>>}),
  Scene(Bad, {"all", "wait"}, {<<"here", 0>>, <<"here", 1>>}),
  Scene(Bad, {"set", "zero", "get", "bad", "crap", "now"}, {}), Scene(Bad, {"set", "at", "off", "pps", "get"}, {})}
MCTimes == {<<0, 20>>, <<0, 50>>, <<0, 95>>}

DioPlays == scene # Quiet /\ UNCHANGED frameVars
FramesPlay == scene = Quiet /\ UNCHANGED vars
allVars == <<vars, frameVars>>
MCInit == Init /\ FrameInit /\ (scene = Quiet => \A n \in Nodes, c \in Chans : iomode[n][c].out)
MCNext == (DioPlays /\ Next) \/ (FramesPlay /\ FrameNext)
MCSpec ==
  /\ MCInit /\ [][MCNext]_allVars
  /\ WF_allVars(DioPlays /\ Ruler /\ UNCHANGED scene)
  /\ \A n \in Agents : WF_allVars(DioPlays /\ Agent(n) /\ UNCHANGED scene)
  /\ \A p \in Parties : WF_allVars(FramesPlay /\ HwStamp(p)) /\ WF_allVars(FramesPlay /\ Turn(p))
  /\ \A c \in Clients : WF_allVars(FramesPlay /\ Report(c))
=============================================================================
