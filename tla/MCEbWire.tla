------------------------------ MODULE MCEbWire ------------------------------
(* A 32-bit bus with three virtual devices, two of which overlap, status    *)
(* words that report two operations, records of at most two words a kind.   *)
EXTENDS EbWire

Op(kind, addr, sizes, endian) ==
  [kind |-> kind, cfg |-> FALSE, addr |-> addr, sizes |-> sizes, endian |-> endian, wide |-> FALSE]
MCHandlers == {[first |-> 8, last |-> 15, read |-> TRUE, write |-> TRUE],
               [first |-> 12, last |-> 19, read |-> TRUE, write |-> FALSE]}
Word == {4}
MCOps == {Op("write", 8, Word, "none"), Op("write", 12, Word, "none"), Op("read", 8, Word, "none"),
          Op("read", 13, {1}, "big"), Op("write", 14, {2, 8}, "little"),
          [Op("read", 4, Word, "none") EXCEPT !.cfg = TRUE]}
MCBad == {<<Op("read", 8, {8}, "big")>>, <<Op("read", 9, {2}, "big")>>,
          <<Op("write", 8, {1, 2}, "none")>>, <<[Op("write", 8, Word, "none") EXCEPT !.wide = TRUE]>>}
Short == {<<Op("write", 8, Word, "none")>>, <<Op("write", 13, {1}, "big"), Op("read", 13, {1}, "big")>>}
Few == {o \in MCOps : o.addr \in {4, 8}}
MCOpSeqs(c) == IF c = 1 THEN Short \cup {<<>>} ELSE MCBad \cup [1 .. 2 -> MCOps] \cup [1 .. 3 -> Few]
=============================================================================
