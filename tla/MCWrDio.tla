------------------------------- MODULE MCWrDio -------------------------------
(***************************************************************************)
(* The calls the users of WrDio issue in the instances.                    *)
(***************************************************************************)
EXTENDS WrDio

Wait(c)   == [channels |-> {c}, many |-> FALSE, wait |-> TRUE]
Poll(cs)  == [channels |-> cs, many |-> TRUE, wait |-> FALSE]
At0(k, v) == [ch |-> 0, kind |-> k, value |-> v]

\* A reader that waits, and one that polls all channels.
Readers  == {Wait(0), Poll(Channels)}
Waiter   == {Wait(0)}
NoReader == {}

\* How many stamps the channels take.
OneBusy  == [c \in Channels |-> IF c = 0 THEN 3 ELSE 1]
Five     == [c \in Channels |-> 5]

NoPulses == <<>>
\* A loop of three pulses, disturbed by a single pulse and one at once.
OneLoop  == <<At0("loop", 3), At0("at", 0), At0("now", 0)>>
\* A loop that is turned off.
LoopOff  == <<At0("loop", 2), At0("loop", 0)>>
=============================================================================
