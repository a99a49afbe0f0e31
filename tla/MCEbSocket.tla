----------------------------- MODULE MCEbSocket -----------------------------
(***************************************************************************)
(* Two devices.  a and w are for the first, and w expects no answer; b is  *)
(* for the second and asks for error status too.  Between them they are    *)
(* refused for every reason.                                               *)
(***************************************************************************)
EXTENDS EbSocket, TLC

MCDeviceList == <<"d1", "d2">>
MCDeviceOf == [c \in Cycles |-> IF c = "b" THEN "d2" ELSE "d1"]
MCShape == [c \in Cycles |-> [reads |-> IF c = "w" THEN 0 ELSE 1,
                              stats |-> IF c = "b" THEN 1 ELSE 0]]
MCFault == [c \in Cycles |-> CASE c = "w" -> {"EMPTY", "OVERFLOW"}
                               [] c = "b" -> {"WIDTH"}
                               [] OTHER   -> {"OOM"}]
=============================================================================
