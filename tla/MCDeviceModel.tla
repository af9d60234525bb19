--------------------------- MODULE MCDeviceModel ---------------------------
(***************************************************************************)
(* One module of every kind, a few of its cells hot.                       *)
(***************************************************************************)
EXTENDS DeviceModel

L(code, text) == [code |-> code, text |-> text]

MCTypes == DOMAIN Kind

MCHot ==
    [XL     |-> {<<"OUT", 2>>, <<"ROLL_POS", 4>>, <<"FAULTS", 0>>, <<"BLAD_POS", 0>>},
     LE2    |-> {<<"OUT", 15>>, <<"DIM", 1>>, <<"FLAG_LOC", 3>>,
                 <<"COUNTER_VAL", 4>>},
     Touch  |-> {<<"RGB_MASK", 1>>, <<"RGB", 1>>, <<"AD_2", 0>>},
     Mini   |-> {<<"OUT", 1>>, <<"OUT", 2>>, <<"INP", 2>>},
     Out    |-> {<<"OUT", 3>>, <<"OUT", 4>>, <<"ROLL_POS", 1>>},
     Dimm   |-> {<<"OUT", 0>>, <<"DIM", 3>>, <<"TEMP_PWR", 0>>},
     IO2    |-> {<<"INP", 1>>, <<"OUT", 1>>, <<"ROLL_POS", -1>>},
     In     |-> {<<"INP", 0>>, <<"INP", 7>>},
     In1f   |-> {<<"INP", 1>>, <<"GEN_3", 0>>},
     Detect |-> {<<"MOV", 0>>, <<"LUM", 0>>},
     Nature |-> {<<"WIND", 0>>, <<"RAIN", 0>>},
     Sensor |-> {<<"TEMP_ROOM", 0>>, <<"T_SETP_0", 0>>},
     Ekey   |-> {<<"KEY_ID", 0>>},
     GSM    |-> {<<"MODE", 0>>}]

\* Labels: an output twice, a blank one, a flag in two languages, codes the
\* module has no member for; whole, and cut after the first line.  On the output
\* module also a code that wraps to its last output, alone and made good later.
WholeBook ==
    [t \in MCTypes |->
        CASE t = "Touch" -> <<L(11, "press"), L(123, "flag"), L(51, "pin")>>
          [] t = "XL"  -> <<L(70, "lamp"), L(64, "east auf"), L(62, ""), L(64, "east ab"), L(75, "aout"), L(51, "pin")>>
          [] t = "LE2" -> <<L(70, "lamp"), L(123, "flag"), L(110, "counter"), L(123, "drapeau")>>
          [] t = "Mini" -> <<L(11, "press"), L(44, "corner"), L(40, "none"), L(61, "lamp")>>
          [] t \in {"Out", "Dimm"} -> <<L(64, "blind"), L(60, "lamp"), L(63, "lamp")>>
          [] t \in {"IO2", "In", "In1f"} -> <<L(11, "press"), L(39, "none"), L(17, "pin")>>
          [] OTHER -> <<L(136, "area")>>]
Wrapping == <<L(60, "lamp"), L(59, "wrapped"), L(67, "blind")>>
MCBooks ==
    [t \in MCTypes |-> {WholeBook[t], SubSeq(WholeBook[t], 1, 1)}
                        \cup (IF t = "Out" THEN {Wrapping, SubSeq(Wrapping, 1, 2)} ELSE {})]

Setting(sw, ad, covers) == [switches |-> sw, analog |-> ad, shutters |-> covers]
MCSettings ==
    [t \in MCTypes |->
        CASE t \in {"XL", "LE2"} -> {Setting({9}, {}, {0, 4})}
          [] t \in {"Out", "IO2"} -> {Setting({1}, {}, {0, 1})}
          [] t \in {"In", "In1f"} -> {Setting({0, 7}, {0, 6}, {})}
          [] OTHER -> {Setting({1}, {}, {})}]

MCCounters == [t \in MCTypes |-> IF t = "LE2" THEN {{}, {1, 4}} ELSE {{}}]
=============================================================================
