----------------------------- MODULE MCPackets ------------------------------
(* Small buffers for Packets, and every text that fits them.                *)
EXTENDS Packets

MCChars == {"a", Space, NUL}

MCTexts == UNION {[1 .. n -> {"a", Space}] : n \in 0 .. ConfLen - 1}
MCArgvs == [1 .. PathLen -> {"a", NUL}]
MCArgcs == -1 .. 5

(* Two modules that do not overlap, in either order.                        *)
MCModule == [start : 0 .. 5, size : 0 .. 3]
MCModuleLists ==
    {l \in [1 .. 2 -> MCModule] :
        \/ l[1].start + l[1].size <= l[2].start
        \/ l[2].start + l[2].size <= l[1].start}
MCEpcs == 0 .. 9

MCNames == [1 .. NameBytes + 1 -> {"a", NUL}]

(* Two packets of every kind, whole, cut short behind the header or in the  *)
(* name, or as long as the buffer; the second with a name of one character, *)
(* or that fills its field, or nearly.                                      *)
MCSizes(kind) ==
    IF kind \in {"reset", "excep"} THEN {Shape[kind].size}
    ELSE {3, 70, Shape[kind].size, BufPairs}
MCPacket(lengths) ==
    UNION {[kind : {kind}, size : MCSizes(kind),
            length : {n \in lengths : n <= Shape[kind].room}] :
              kind \in DOMAIN Shape}
MCSendLists ==
    {<<p, q>> : p \in MCPacket({0}), q \in MCPacket({0, 1, 63, 64, 127, 128})}
=============================================================================
