------------------------------ MODULE MCEbOpen ------------------------------
(* A client that opens devices of every kind, and a server.                *)
EXTENDS EbOpen
MCKinds == <<"dev", "udp", "tcp", "tunnel">>
W(d) == [data |-> d, addr |-> {4}]
MCWidths == [n \in Nodes |-> IF n = "c" THEN W({1, 2, 4}) ELSE W({2, 8})]
MCMaxSockets(n) == IF n = "c" THEN 1 ELSE 2
MCPools(n) == IF n = "c" THEN {7, 9} ELSE {8, 9}
Open(kind, w, k) == [kind |-> kind, to |-> "s", widths |-> W(w), attempts |-> k, passive |-> FALSE]
MCOpens(n) == IF n = "c" THEN {Open("udp", {2, 4}, 2), Open("tcp", {2, 4}, 2), Open("tcp", {1}, 1),
                               Open("udp", {4}, 0), Open("dev", {2}, 1)}
              ELSE {[kind |-> "dev", to |-> "c", widths |-> W({1}), attempts |-> 0, passive |-> TRUE]}
=============================================================================
