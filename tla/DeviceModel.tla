----------------------------- MODULE DeviceModel -----------------------------
(***************************************************************************)
(* One module behind the router: the member lists build_module creates,    *)
(* what the definitions and the settings make of them (_parse.py), and the *)
(* two ways its values change afterwards, apply_status and                 *)
(* _apply_module_event, with the listeners they fire (model.py).           *)
(*                                                                         *)
(* A member is <<list, index>>, a value an attribute <<list, index>>; the  *)
(* lists "tilt", "rgb" and "user" hold the second values of covers, colour *)
(* LEDs and fingers.  A place in the compact status is a cell <<field, n>>,*)
(* n a bit or byte from the field's offset in MStatIdx; the hub (external) *)
(* owns the cells, and Hot are those that change.                              *)
(***************************************************************************)
EXTENDS Integers, Sequences, FiniteSets, Lists

CONSTANTS
    Types,          \* module types of this instance
    Hot,            \* per type, the cells that may change
    Books,          \* per type, the sequences of label lines its definitions may hold
    SettingsOf,     \* per type, the settings it may have
    CounterSets,    \* per type, which logic units may be counters
    MaxChanges,     \* bound on changes of cells and short presses
    MaxEvents,      \* bound on events on their way
    MaxRaises       \* bound on listeners that raise

VARIABLES
    type,       \* the module's type
    stage,      \* "built", "named" (definitions), "configured" (settings), "live";
                \* "failed" when the first status raised
    labelled,   \* parse_definitions found lines
    shutters,   \* SHUTTER_STAT of the settings that were parsed
    member,     \* [name, type, nmbr] of the members the parsers configure
    flags,      \* nmbr of each flag, in order of its labels
    logic,      \* nmbr of each discovered counter; empty before the first status
    value,      \* the attributes' values
    cell,       \* the hub's hot cells
    counters,   \* the logic units that are counters
    events,     \* pushed by the hub and not applied yet
    fired,      \* members whose listeners the last step fired
    deaf,       \* members one of whose listeners raised in the last step
    unannounced,\* cells that changed without an event, or whose event was cut short
    clean,      \* nothing happened since the last complete status
    raises, changes

config == <<type, labelled, shutters, member, flags, counters>>
heard  == <<fired, deaf, clean, raises>>
vars   == <<config, stage, logic, value, cell, events, heard, unannounced, changes>>

-------------------------------------------------------------------------------
(***************************************************************************)
(* _module_kind and build_module.                                          *)
(***************************************************************************)
\* The type codes of MODULE_CODES, by the behaviour they get.
Kind == [XL |-> "controller", LE2 |-> "controller", Touch |-> "controller",
         Mini |-> "mini", Out |-> "out", Dimm |-> "dimm", IO2 |-> "io2",
         In |-> "in", In1f |-> "in", Detect |-> "detect", Nature |-> "nature",
         Sensor |-> "sensor", Ekey |-> "ekey", GSM |-> "gsm"]

\* "default" stands for the names _set_default_names gives, none of which is a label.
ASSUME DeviceAssumption ==
    /\ {MaxChanges, MaxEvents, MaxRaises} \subseteq Nat
    /\ Types \subseteq DOMAIN Kind
    /\ \A t \in Types : \A book \in Books[t] :
        /\ book \in Seq([code : Nat, text : STRING])
        /\ \A i \in 1..Len(book) : book[i].text # "default"
    /\ \A t \in Types : \A units \in CounterSets[t] : units \subseteq 0..9

Is(kind) == Kind[type] = kind
HasAnalogPins == type \in {"LE2", "Touch"}      \* typ[1] > 2

\* How many members of a list build_module creates.
Sizes ==
    [controller |-> [inputs |-> 18, outputs |-> 16, analog_outputs |-> 1, covers |-> 5,
                     dimmers |-> 2, leds |-> 9, setvalues |-> 2, sensors |-> 6, diags |-> 2],
     mini   |-> [inputs |-> 6, outputs |-> 2, color_leds |-> 5, setvalues |-> 2,
                 sensors |-> 4, diags |-> 1],
     out    |-> [outputs |-> 8, covers |-> 4, diags |-> 1],
     dimm   |-> [outputs |-> 4, dimmers |-> 4, diags |-> 2],
     io2    |-> [outputs |-> 2, inputs |-> 2, covers |-> 1, diags |-> 1],
     in     |-> [inputs |-> 8, diags |-> 1],
     detect |-> [sensors |-> 2, diags |-> 1],
     nature |-> [sensors |-> 6, diags |-> 1],
     sensor |-> [sensors |-> 1, setvalues |-> 1, diags |-> 1],
     ekey   |-> [sensors |-> 2, fingers |-> 1, diags |-> 1],
     gsm    |-> [diags |-> 1]]

Size(list) ==
    CASE list = "analogins"  -> IF HasAnalogPins THEN 2 ELSE IF type = "In1f" THEN 6 ELSE 0
      [] list = "color_leds" /\ type = "Touch" -> 5
      [] OTHER -> IF list \in DOMAIN Sizes[Kind[type]] THEN Sizes[Kind[type]][list] ELSE 0

MembersOf(lists) == UNION {{<<list, i>> : i \in 0..(Size(list) - 1)} : list \in lists}

\* The members whose role the parsers configure, as build_module creates them.
Configured == MembersOf({"inputs", "analogins", "outputs", "analog_outputs", "dimmers", "covers"})

BuiltType(m) ==
    CASE m[1] = "inputs"  -> 1
      [] m[1] = "outputs" -> IF Is("dimm") THEN 2 ELSE 1
      [] m[1] = "dimmers" -> IF Is("dimm") THEN 2 ELSE -1
      [] m[1] = "covers"  -> 0
      [] m[1] = "analogins" -> IF Is("in") THEN -3 ELSE 3
      [] m[1] = "analog_outputs" -> 8

Built ==
    [m \in Configured |-> [name |-> "", type |-> BuiltType(m),
                           nmbr |-> IF m[1] = "covers" THEN -1 ELSE m[2]]]

\* The values a module has besides: modes, health, LEDs, readings.
StaticAttributes ==
    Configured
        \cup MembersOf({"leds", "color_leds", "sensors", "setvalues", "fingers", "diags"})
        \cup {<<"mode", 0>>, <<"health", 0>>}
        \cup {<<"tilt", i>> : i \in 0..(Size("covers") - 1)}
        \cup {<<"rgb", i>> : i \in 0..(Size("color_leds") - 1)}
        \cup {<<"user", i>> : i \in 0..(Size("fingers") - 1)}

\* The member whose listeners hear of an attribute.
MemberOf(a) ==
    CASE a[1] = "tilt" -> <<"covers", a[2]>>
      [] a[1] = "rgb"  -> <<"color_leds", a[2]>>
      [] a[1] = "user" -> <<"fingers", a[2]>>
      [] OTHER -> a

-------------------------------------------------------------------------------
(***************************************************************************)
(* parse_definitions.  A label line is [code, text]; lines of the other    *)
(* types fill command lists no value depends on.  A code a module has no   *)
(* member for raises IndexError inside the line and is skipped; on an      *)
(* output module the codes 52..59 are indexes Python counts from the end.  *)
(***************************************************************************)
OtherDescriptors == (18..29) \cup (101..108) \cup (110..136) \cup (140..172)

\* _process_descriptor_label and _set_input_label: the member a label is for.
Target(l) ==
    LET c == l.code IN
    CASE c \in 10..17 -> <<"inputs", c - 10>>
      [] c \in 40..49 -> <<"inputs", IF ~Is("mini") THEN c - 32 ELSE IF c \in 44..47 THEN c - 42 ELSE -1>>
      [] c \in 50..51 -> <<IF Is("controller") THEN "analogins" ELSE "none", c - 50>>
      [] c \in OtherDescriptors -> <<"none", c>>
      [] OTHER -> <<"outputs", IF Is("out") /\ c \in 52..59 THEN c - 52 ELSE c - 60>>

\* The labels written into the members, the last one of a member last.
Labelled(book) ==
    [m \in Configured |->
        LET mine == {i \in 1..Len(book) : Target(book[i]) = m}
            last == CHOOSE i \in mine : \A j \in mine : j <= i
            code  == book[last].code
            isOut == m[1] = "outputs" /\ Is("out")
        IN  IF mine = {} THEN member[m]
            ELSE [name |-> book[last].text,
                  type |-> IF m[1] = "inputs" \/ isOut THEN 1 ELSE member[m].type,
                  nmbr |-> IF isOut THEN code - 60 ELSE member[m].nmbr]]

\* Flags are appended, a label repeated in a second language once more.  (A GSM
\* module's descriptor lines are messages: its books hold none of these codes.)
FlagsOf(book) ==
    LET mine == Entries(book, {i \in 1..Len(book) : book[i].code \in 120..135})
    IN  [i \in 1..Len(mine) |-> mine[i].code - 119]

\* outputs[15] of a controller becomes the analogue output.
WithAnalogOut(mem) ==
    LET written == mem[<<"outputs", 15>>].name
        name    == IF written = "" THEN "default" ELSE written
    IN  IF ~Is("controller") THEN mem
        ELSE [mem EXCEPT ![<<"analog_outputs", 0>>].name = name,
                         ![<<"outputs", 15>>].name = name, ![<<"outputs", 15>>].type = -10]

\* Fault: default-named members are numbered from one.
FaultWithDefaults(mem) ==
    [m \in Configured |->
        IF m[1] \in {"inputs", "outputs"} /\ mem[m].name = ""
        THEN [name |-> "default", type |-> -mem[m].type, nmbr |-> m[2] + 1]
        ELSE mem[m]]

\* _set_default_names.
WithDefaults(mem) ==
    [m \in Configured |->
        IF m[1] \in {"inputs", "outputs"} /\ mem[m].name = ""
        THEN [name |-> "default", type |-> -mem[m].type, nmbr |-> m[2]]
        ELSE mem[m]]

\* The output behind dimmer i, and _make_dimmer.
Backing(i) == <<"outputs", IF Is("controller") THEN 10 + i ELSE i>>

WithDimmers(mem) ==
    LET Role(out) == IF out.type < 0 THEN -2 ELSE 2
        backing == {Backing(d[2]) : d \in MembersOf({"dimmers"})}
    IN  [m \in Configured |->
            IF m[1] = "dimmers" THEN
                LET out == mem[Backing(m[2])] IN [name |-> out.name, type |-> Role(out), nmbr |-> m[2]]
            ELSE IF m \in backing THEN [mem[m] EXCEPT !.type = Role(mem[m])]
            ELSE mem[m]]

\* Fault: the dimmers are made before the defaults are named.
FaultNamed(book) == WithDefaults(WithDimmers(WithAnalogOut(Labelled(book))))

Named(book) == WithDimmers(WithDefaults(WithAnalogOut(Labelled(book))))

\* Fault: the members are new every time.
FaultExtended(list, n) ==
    [a \in DOMAIN value \cup {<<list, i>> : i \in 1..n} |-> IF a \in DOMAIN value /\ a[1] # list THEN value[a] ELSE 0]

\* The values with those of n new members of a list, 0 as they are created.
Extended(list, n) ==
    [a \in DOMAIN value \cup {<<list, i>> : i \in 1..n} |-> IF a \in DOMAIN value THEN value[a] ELSE 0]

\* An empty block changes nothing; an answer cut between two lines is read as it is.
ReadDefinitions ==
    /\ stage = "built"
    /\ stage' = "named"
    /\ \/ /\ labelled' = FALSE
          /\ UNCHANGED <<member, flags>>
       \/ \E book \in Books[type] :
            /\ labelled' = TRUE
            /\ member' = Named(book)
            /\ flags' = FlagsOf(book)
    /\ value' = Extended("flags", Len(flags'))
    /\ UNCHANGED <<type, shutters, counters, logic, cell, events, heard, unannounced, changes>>

-------------------------------------------------------------------------------
(***************************************************************************)
(* parse_settings.  Settings are [switches, analog, shutters], the bits    *)
(* set in INP_STATE, AD_STATE and SHUTTER_STAT.                            *)
(***************************************************************************)
\* Fault: a controller's covers are not shifted behind its first two.
FaultSettingsPlace(c) == c

SettingsPlace(c) == IF ~Is("controller") THEN c ELSE IF c < 2 THEN c + 3 ELSE c - 2

IsAnalog(n, s) == type = "In1f" /\ n \in s.analog

Typed(s) ==
    LET covers == {c \in 0..(Size("covers") - 1) : SettingsPlace(c) \in s.shutters} IN
    [m \in Configured |->
        CASE m[1] = "inputs" /\ IsAnalog(m[2], s)      -> [member[m] EXCEPT !.type = 3]
          [] m[1] = "inputs" /\ ~IsAnalog(m[2], s)
                 /\ m[2] \in s.switches                -> [member[m] EXCEPT !.type = 2 * @]
          [] m[1] = "analogins"
                 /\ \E n \in s.analog : IsAnalog(n, s) /\ (n - 2) % 6 = m[2]
                                                       -> [member[m] EXCEPT !.type = 3]
          [] m[1] = "outputs" /\ m[2] \div 2 \in covers -> [member[m] EXCEPT !.type = -10]
          [] m[1] = "covers" /\ m[2] \in covers        -> [member[m] EXCEPT !.nmbr = m[2], !.type = 1]
          [] OTHER -> member[m]]

\* An empty block changes nothing; a cut one fails the build (SystemBuild).
ReadSettings ==
    /\ stage = "named"
    /\ stage' = "configured"
    /\ \/ UNCHANGED <<member, shutters>>
       \/ \E s \in SettingsOf[type] : member' = Typed(s) /\ shutters' = s.shutters
    /\ UNCHANGED <<type, labelled, flags, counters, logic, value, cell, events, heard,
                   unannounced, changes>>

-------------------------------------------------------------------------------
(***************************************************************************)
(* The status parsers: the reads of a status, in the order of the code.    *)
(* Scaling and signs are left out.                                         *)
(***************************************************************************)
Cell(field, n) == IF <<field, n>> \in Hot[type] THEN cell[<<field, n>>] ELSE 0
Read(list, i, field, n) == [to |-> <<list, i>>, from |-> <<field, n>>, is |-> Cell(field, n)]

\* Members read from fields of their own, and from consecutive bits or bytes.
Column(list, fields) == [i \in 1..Len(fields) |-> Read(list, i - 1, fields[i], 0)]
Row(list, field, off) == [i \in 1..Size(list) |-> Read(list, i - 1, field, off + i - 1)]
Front(s) == SubSeq(s, 1, Len(s) - 1)

InputReads ==
    LET row == Row("inputs", "INP", 0)
    IN  Entries(row, {i \in 1..Len(row) : member[row[i].to].type # 3})

\* Fault: the flags' numbers are taken as bits.
FaultFlagReads == [i \in 1..Len(flags) |-> Read("flags", i, "FLAG_LOC", flags[i])]

FlagReads == [i \in 1..Len(flags) |-> Read("flags", i, "FLAG_LOC", flags[i] - 1)]

\* _apply_color_leds: the switch, then the colour.
ColourReads ==
    [k \in 1..(2 * Size("color_leds")) |->
        LET n == (k - 1) \div 2
        IN  IF k % 2 = 1 THEN Read("color_leds", n, "RGB_MASK", n) ELSE Read("rgb", n, "RGB", n)]

\* A configured cover's position and tilt, at the place of its motor.
StatusPlace(c) ==
    CASE Is("controller") -> IF c - 2 < 0 THEN c - 2 + 5 ELSE c - 2
      [] Is("io2") -> -1
      [] OTHER -> c

CoverReads ==
    LET reads == [k \in 1..(2 * Size("covers")) |->
                    LET c == (k - 1) \div 2
                    IN  IF k % 2 = 1 THEN Read("covers", c, "ROLL_POS", StatusPlace(c))
                                     ELSE Read("tilt", c, "BLAD_POS", StatusPlace(c))]
    IN  Entries(reads, {k \in 1..Len(reads) : member[<<"covers", (k - 1) \div 2>>].nmbr >= 0})

Setpoints == Column("setvalues", SubSeq(<<"T_SETP_0", "T_SETP_1">>, 1, Size("setvalues")))
Status == <<Read("diags", 0, "MODULE_STAT", 0)>>
PowerTemp == <<Read("diags", 1, "TEMP_PWR", 0)>>

ControllerReads ==
    Column("sensors", <<"MOV", "TEMP_ROOM", "TEMP_EXT", "HUM", "LUM", "AQI">>) \o Setpoints
        \o Front(Row("outputs", "OUT", 0)) \o Column("analog_outputs", <<"AOUT_1">>)
        \o Row("dimmers", "DIM", 0) \o Row("leds", "OUT", 15) \o ColourReads \o CoverReads
        \o InputReads \o FlagReads
        \o (IF HasAnalogPins THEN Column("analogins", <<"AD_1", "AD_2">>) ELSE <<>>)
        \o Status \o PowerTemp

MiniReads ==
    Column("sensors", <<"MOV", "TEMP_ROOM", "LUM", "AQI">>) \o Setpoints
        \o Row("outputs", "OUT", 0) \o ColourReads \o InputReads \o FlagReads \o Status

OutReads  == Row("outputs", "OUT", 0) \o CoverReads \o Status
DimmReads == Row("outputs", "OUT", 0) \o Row("dimmers", "DIM", 0) \o Status \o PowerTemp
Io2Reads  == InputReads \o Row("outputs", "OUT", 0) \o CoverReads \o Status

InReads ==
    InputReads
        \o Column("analogins", SubSeq(<<"AD_1", "AD_2", "GEN_1", "GEN_2", "GEN_3", "GEN_4">>,
                                      1, Size("analogins")))
        \o Status

DetectReads == Column("sensors", <<"MOV", "LUM">>) \o Status

\* The wind is smoothed: every status takes the reading a step nearer to the cell.
Smoothed(old, new) == IF new > old THEN old + 1 ELSE IF new < old THEN old - 1 ELSE old

NatureReads ==
    LET reads == Column("sensors", <<"TEMP_ROOM", "HUM", "LUM", "WIND", "RAIN", "WINDP">>)
    IN  [reads EXCEPT ![4].is = Smoothed(value[<<"sensors", 3>>], @)] \o Status

SensorReads == Column("sensors", <<"TEMP_ROOM">>) \o Setpoints \o Status

\* KEY_ID holds the user and the finger; a disabled finger has 128 added.
KeyPair(k) == [none |-> <<0, 0>>, one |-> <<1, 1>>, barred |-> <<1, 129>>][k]

EkeyReads ==
    LET key == IF <<"KEY_ID", 0>> \in Hot[type] THEN KeyPair(cell[<<"KEY_ID", 0>>]) ELSE <<0, 0>>
        Take(i, v) == [to |-> <<"sensors", i>>, from |-> <<"KEY_ID", 0>>, is |-> v]
    IN  (IF key[2] > 10 THEN <<Take(0, -key[1]), Take(1, key[2] - 128)>>
                        ELSE <<Take(0, key[1]), Take(1, key[2])>>)
        \o Status

\* Counters are looked for by the first status only, one stand-in if there are none.
IsFirstStatus == logic = <<>>

Discovered ==
    LET found == Entries([i \in 1..10 |-> i - 1], {i \in 1..10 : i - 1 \in counters})
    IN  IF ~IsFirstStatus THEN logic ELSE IF found = <<>> THEN <<0>> ELSE found

\* apply_status: the mode and the counters, then the parser of the module's kind.
Reads ==
    <<Read("mode", 0, "MODE", 0)>>
        \o [i \in 1..Len(Discovered) |-> Read("logic", i, "COUNTER_VAL", Discovered[i])]
        \o (CASE Is("controller") -> ControllerReads
              [] Is("mini")   -> MiniReads
              [] Is("out")    -> OutReads
              [] Is("dimm")   -> DimmReads
              [] Is("io2")    -> Io2Reads
              [] Is("in")     -> InReads
              [] Is("detect") -> DetectReads
              [] Is("nature") -> NatureReads
              [] Is("sensor") -> SensorReads
              [] Is("ekey")   -> EkeyReads
              [] Is("gsm")    -> <<>>)

-------------------------------------------------------------------------------
(***************************************************************************)
(* Steps of a status or an event, in their order: attributes set and the   *)
(* member notified.  A listener that raises ends them after its own step.  *)
(***************************************************************************)
\* Of the steps that set an attribute the last one tells.
Applied(old, steps) ==
    LET setting(a) == {i \in 1..Len(steps) : a \in DOMAIN steps[i].set}
        last(a)    == CHOOSE i \in setting(a) : \A j \in setting(a) : j <= i
    IN  [a \in DOMAIN old \cup UNION {DOMAIN steps[i].set : i \in 1..Len(steps)} |->
            IF setting(a) = {} THEN old[a] ELSE steps[last(a)].set[a]]

Members(steps) == {steps[i].who : i \in 1..Len(steps)}

Run(old, steps) ==
    \/ /\ value' = Applied(old, steps)
       /\ fired' = Members(steps)
       /\ deaf' = {}
       /\ UNCHANGED raises
    \/ /\ raises < MaxRaises
       /\ raises' = raises + 1
       /\ \E k \in 1..Len(steps) :
            /\ value' = Applied(old, SubSeq(steps, 1, k))
            /\ fired' = Members(SubSeq(steps, 1, k - 1))
            /\ deaf' = {steps[k].who}

StatusSteps(reads) ==
    [i \in 1..Len(reads) |-> [who |-> MemberOf(reads[i].to), set |-> [a \in {reads[i].to} |-> reads[i].is]]]

\* Every output's bit can be taken: 1 << nmbr raises ValueError for a wrapped number.
Shiftable == \A o \in MembersOf({"outputs"}) : member[o].nmbr >= 0

\* async_build_system distributes its first status before anyone listens.
BuildStatus ==
    /\ stage = "configured"
    /\ Shiftable
    /\ stage' = "live"
    /\ logic' = Discovered
    /\ value' = Applied(value, StatusSteps(Reads))
    /\ UNCHANGED <<type, labelled, shutters, member, flags, counters, cell, events, heard,
                   unannounced, changes>>

\* The ValueError leaves async_build_system, and the router it was building is lost.
BuildFails ==
    /\ stage = "configured"
    /\ ~Shiftable
    /\ stage' = "failed"
    /\ UNCHANGED <<config, logic, value, cell, events, heard, unannounced, changes>>

\* The cells whose attributes the events on their way will set: an older one undoes
\* what a status said.  A colour comes with its LED switched on.
CellsOf(pushed) ==
    LET cells == {pushed[i].cell : i \in 1..Len(pushed)}
    IN  cells \cup {<<"RGB_MASK", c[2]>> : c \in {d \in cells : d[1] = "RGB"}}

\* A polled status: attributes that differ are set and announced.  (\E binds what TLC
\* is to evaluate once.)
PollStatus ==
    /\ stage = "live"
    /\ logic' = Discovered
    /\ \E reads \in {Reads}, old \in {Extended("logic", Len(logic'))} :
        LET news == {i \in 1..Len(reads) : old[reads[i].to] # reads[i].is}
        IN  Run(old, StatusSteps(Entries(reads, news)))
    /\ clean' = (deaf' = {})
    /\ unannounced' = IF clean' THEN {c \in unannounced : c \in CellsOf(events)} ELSE unannounced
    /\ UNCHANGED <<config, stage, cell, events, changes>>

-------------------------------------------------------------------------------
(***************************************************************************)
(* _apply_module_event.  An event is [kind, args, cell], cell the one whose*)
(* change it tells (for the properties only).                              *)
(***************************************************************************)
Step(who, set) == [who |-> who, set |-> set]
Sets(list, i, v) == Step(<<list, i>>, [a \in {<<list, i>>} |-> v])

\* A press code; after a short press (1) and the end of a long one (3) inactive.
ButtonSteps(n, code) ==
    IF code \in {1, 3} THEN <<Sets("inputs", n - 1, code), Sets("inputs", n - 1, 0)>>
                       ELSE <<Sets("inputs", n - 1, code)>>

\* Fault: of a cover's two outputs the first belongs to the cover before.
FaultCoverIndex(n) ==
    IF n - 1 < Size("outputs") /\ member[<<"outputs", n - 1>>].type = -10 THEN (n \div 2) - 1 ELSE -1

\* The cover behind output n, -1 if it is none.
CoverIndex(n) ==
    IF n - 1 < Size("outputs") /\ member[<<"outputs", n - 1>>].type = -10 THEN ((n + 1) \div 2) - 1 ELSE -1

OutputSteps(n, v) ==
    IF n > 15 THEN <<Sets("leds", n - 16, v)>>
    ELSE IF Is("mini") /\ n > 2 THEN <<Step(<<"leds", n - 3>>, <<>>)>>
    ELSE <<Sets("outputs", n - 1, v)>>
            \o (IF CoverIndex(n) >= 0 THEN <<Step(<<"covers", CoverIndex(n)>>, <<>>)>> ELSE <<>>)

RgbSteps(n, mode, colour) ==
    IF mode # 2 THEN <<Sets("color_leds", n, mode)>>
    ELSE <<Step(<<"color_leds", n>>,
                [a \in {<<"color_leds", n>>, <<"rgb", n>>} |-> IF a[1] = "rgb" THEN colour ELSE 1])>>

\* Fault: the finger member is updated without a notification.
FaultFingerSteps(user, finger) ==
    <<Sets("sensors", 0, IF finger <= 10 THEN user ELSE -user),
      Sets("sensors", 1, IF finger <= 10 THEN finger ELSE finger - 128),
      Step(<<"sensors", 1>>, [a \in {<<"user", 0>>, <<"fingers", 0>>} |-> IF a[1] = "user" THEN user ELSE finger])>>

FingerSteps(user, finger) ==
    <<Sets("sensors", 0, IF finger <= 10 THEN user ELSE -user),
      Sets("sensors", 1, IF finger <= 10 THEN finger ELSE finger - 128),
      Step(<<"fingers", 0>>, [a \in {<<"user", 0>>, <<"fingers", 0>>} |-> IF a[1] = "user" THEN user ELSE finger])>>

\* The first flag of the number.
FlagSteps(n, v) ==
    LET of == {i \in 1..Len(flags) : flags[i] = n}
    IN  IF of = {} THEN <<>> ELSE <<Sets("flags", CHOOSE i \in of : \A j \in of : i <= j, v)>>

EventSteps(e) ==
    LET a == e.args IN
    CASE e.kind = "BUTTON"  -> ButtonSteps(a[1], a[2])
      [] e.kind = "SWITCH"  -> <<Sets("inputs", a[1] - 1, a[2])>>
      [] e.kind = "OUTPUT"  -> OutputSteps(a[1], a[2])
      [] e.kind = "RGB"     -> RgbSteps(a[1], a[2], a[3])
      [] e.kind = "FINGER"  -> FingerSteps(a[1], a[2])
      [] e.kind = "DIM_VAL" -> <<Sets("dimmers", a[1], a[2])>>
      [] e.kind = "COV_VAL" -> <<Sets("covers", a[1], a[2])>>
      [] e.kind = "BLD_VAL" -> <<Step(<<"covers", a[1]>>, [x \in {<<"tilt", a[1]>>} |-> a[2]])>>
      [] e.kind = "MOVE"    -> <<Sets("sensors", a[1], IF a[2] > 0 THEN 1 ELSE 0)>>
      [] e.kind = "FLAG"    -> FlagSteps(a[1], a[2])
      [] e.kind = "CNT_VAL" -> <<Sets("logic", a[1] + 1, a[2])>>
      [] e.kind = "SYS_ERR" -> <<Sets("health", 0, a[1])>>

\* apply_event: a member that does not exist, or a listener that raises, ends the
\* steps of this event and is logged.
ApplyEvent ==
    /\ stage = "live"
    /\ events # <<>>
    /\ LET steps  == EventSteps(Head(events))
           found(i) == \E a \in DOMAIN value : MemberOf(a) = steps[i].who
       IN  \E n \in 0..Len(steps) :
            /\ \A i \in 1..n : found(i)
            /\ n < Len(steps) => ~found(n + 1)
            /\ Run(value, SubSeq(steps, 1, n))
    /\ events' = Tail(events)
    /\ unannounced' = unannounced \cup (IF deaf' = {} THEN {} ELSE {Head(events).cell})
    /\ clean' = FALSE
    /\ UNCHANGED <<config, stage, logic, cell, changes>>

-------------------------------------------------------------------------------
(***************************************************************************)
(* The hub (external): the cells change, and the event that tells of it is *)
(* pushed or lost.                                                         *)
(***************************************************************************)
Levels(c) == CASE c[1] = "KEY_ID" -> {"none", "one", "barred"}
               [] c[1] = "MOV"    -> 0..2
               [] OTHER           -> 0..1

Event(kind, args, c) == {[kind |-> kind, args |-> args, cell |-> c]}
CoverAt(p) == CHOOSE c \in 0..(Size("covers") - 1) : StatusPlace(c) = p

\* The event telling that cell c is v now; the empty set if there is none.
EventOf(c, v) ==
    LET n == c[2] IN
    CASE c[1] = "INP" -> IF member[<<"inputs", n>>].type \in {2, -2}
                         THEN Event("SWITCH", <<n + 1, v>>, c)
                         ELSE Event("BUTTON", <<n + 1, IF v = 1 THEN 2 ELSE 3>>, c)
      [] c[1] = "OUT" -> Event("OUTPUT", <<n + 1, v>>, c)
      [] c[1] = "DIM" -> Event("DIM_VAL", <<n, v>>, c)
      [] c[1] = "MOV" -> Event("MOVE", <<0, v>>, c)
      [] c[1] = "ROLL_POS" -> Event("COV_VAL", <<CoverAt(n), v>>, c)
      [] c[1] = "BLAD_POS" -> Event("BLD_VAL", <<CoverAt(n), v>>, c)
      [] c[1] = "RGB_MASK" -> Event("RGB", <<n, v, 0>>, c)
      [] c[1] = "RGB" /\ Cell("RGB_MASK", n) = 1 -> Event("RGB", <<n, 2, v>>, c)
      [] c[1] = "KEY_ID" -> Event("FINGER", KeyPair(v), c)
      [] c[1] = "FLAG_LOC" -> Event("FLAG", <<n + 1, v>>, c)
      [] c[1] = "COUNTER_VAL" /\ n \in counters ->
            Event("CNT_VAL", <<Cardinality({k \in counters : k < n}), v>>, c)
      [] c[1] = "FAULTS" -> Event("SYS_ERR", <<v>>, c)
      [] OTHER -> {}

Quiet == fired' = {} /\ deaf' = {} /\ clean' = FALSE /\ UNCHANGED raises

HubChange(c) ==
    /\ stage = "live"
    /\ changes < MaxChanges
    /\ changes' = changes + 1
    /\ \E v \in Levels(c) \ {cell[c]} :
        /\ cell' = [cell EXCEPT ![c] = v]
        /\ \/ \E e \in EventOf(c, v) :
                /\ Len(events) < MaxEvents
                /\ events' = Append(events, e)
                /\ unannounced' = unannounced \ {c}
           \/ /\ unannounced' = unannounced \cup {c}
              /\ UNCHANGED events
    /\ Quiet
    /\ UNCHANGED <<config, stage, logic, value>>

\* A short press is over before the next status.
ShortPress(c) ==
    /\ stage = "live"
    /\ c[1] = "INP" /\ cell[c] = 0 /\ member[<<"inputs", c[2]>>].type \notin {2, -2}
    /\ changes < MaxChanges /\ Len(events) < MaxEvents
    /\ changes' = changes + 1
    /\ \E e \in Event("BUTTON", <<c[2] + 1, 1>>, c) : events' = Append(events, e)
    /\ Quiet
    /\ UNCHANGED <<config, stage, logic, value, cell, unannounced>>

-------------------------------------------------------------------------------
Init ==
    /\ type \in Types
    /\ stage = "built" /\ labelled = FALSE /\ shutters = {}
    /\ member = Built
    /\ flags = <<>> /\ logic = <<>>
    /\ value = [a \in StaticAttributes |-> IF a[1] = "setvalues" THEN 20 ELSE 0]
    /\ counters \in CounterSets[type]
    /\ cell = [c \in Hot[type] |-> IF c[1] = "KEY_ID" THEN "none" ELSE 0]
    /\ events = <<>> /\ fired = {} /\ deaf = {} /\ unannounced = {}
    /\ clean = FALSE /\ raises = 0 /\ changes = 0

Next ==
    \/ ReadDefinitions \/ ReadSettings \/ BuildStatus \/ BuildFails
    \/ PollStatus
    \/ ApplyEvent
    \/ \E c \in Hot[type] : HubChange(c) \/ ShortPress(c)

Spec == Init /\ [][Next]_vars

-------------------------------------------------------------------------------
(***************************************************************************)
(* Properties.                                                             *)
(***************************************************************************)
Attributes ==
    StaticAttributes \cup {<<"flags", i>> : i \in 1..Len(flags)}
        \cup {<<"logic", i>> : i \in 1..Len(logic)}

\* An output that a label with a code below 60 wrapped to.
IsWrapped(m, nmbr) == Is("out") /\ m[1] = "outputs" /\ nmbr = m[2] - 8

\* Every attribute has a value, every member of a module in use keeps its place in
\* its list (before, an output may be wrapped), and a counter is discovered once.
TypeOK ==
    /\ type \in Types /\ stage \in {"built", "named", "configured", "live", "failed"}
    /\ DOMAIN value = Attributes
    /\ \A m \in Configured : \/ member[m].nmbr = m[2]
                             \/ m[1] = "covers" /\ member[m].nmbr = -1
                             \/ stage # "live" /\ IsWrapped(m, member[m].nmbr)
    /\ \A i, j \in 1..Len(logic) : logic[i] = logic[j] => i = j
    /\ fired \cup deaf \subseteq {MemberOf(a) : a \in Attributes}

\* A dimmer carries its output's name and role, and is disabled exactly when the
\* output has no label: _make_dimmer after _set_default_names.
DimmersFollowOutputs ==
    labelled =>
        \A d \in MembersOf({"dimmers"}) :
            LET dim == member[d] out == member[Backing(d[2])] IN
            /\ dim.name = out.name /\ dim.type = out.type
            /\ (dim.type < 0) <=> (out.name = "default")

\* The motor that the status parser reads a cover from, as SHUTTER_STAT counts motors.
\* On an IO2 module that parser and parse_settings count differently: the status is
\* read one byte before the first motor's, the settings have the cover at bit 0.
MotorOf(c) == IF Is("io2") THEN StatusPlace(c) + 1 ELSE StatusPlace(c)

\* A cover is configured exactly when the settings flag the motor whose position
\* the status parser will read for it, and then it alone hides its two outputs:
\* parse_settings and the status parsers compute the motor's place separately, and
\* on an IO2 module one place apart.
CoversOwnOutputs ==
    stage \in {"configured", "live"} =>
        /\ \A c \in 0..(Size("covers") - 1) :
            member[<<"covers", c>>].nmbr = c <=> MotorOf(c) \in shutters
        /\ \A o \in MembersOf({"outputs"}) \ {<<"outputs", 15>>} :
            member[o].type = -10
                <=> <<"covers", o[2] \div 2>> \in Configured /\ member[<<"covers", o[2] \div 2>>].nmbr >= 0

\* No value changes behind its listeners' backs: whatever an event or a status
\* changes, the listeners of that member are called, even when a listener of
\* another member raises halfway.
EveryChangeIsHeard ==
    [][stage = "live" =>
        \A a \in DOMAIN value : value'[a] # value[a] => MemberOf(a) \in fired' \cup deaf']_vars

\* The steps of PollStatus.
Polled == stage = "live" /\ UNCHANGED <<events, changes>>

\* A status that says nothing new notifies nobody, the smoothed wind excepted:
\* what makes it right for async_refresh_system to skip an unchanged status.
ReparseIsQuiet ==
    [][Polled /\ clean =>
        fired' \cup deaf' \subseteq (IF Is("nature") THEN {<<"sensors", 3>>} ELSE {})]_vars

\* The attributes a poll may correct although no event is on its way: their cell
\* changed without an event or its event was cut short; the wind; the level of a
\* movement; a button held down; the second of two flags of one number.
Corrected(r) ==
    \/ r.from \in unannounced
    \/ r.from[1] = "WIND" \/ (r.from[1] = "MOV" /\ r.is > 1)
    \/ r.to[1] = "inputs" /\ value[r.to] = 2
    \/ r.to[1] = "flags" /\ \E i \in 1..(r.to[2] - 1) : flags[i] = flags[r.to[2]]

\* Polls and events agree: with no event on its way a status changes nothing but
\* such attributes.  The two paths find a member by separate index arithmetic.
PollAgreesWithEvents ==
    [][Polled /\ events = <<>> =>
        LET reads == Reads IN
        \A i \in 1..Len(reads) :
            value'[reads[i].to] # value[reads[i].to] => Corrected(reads[i])]_vars

\* An event for an output notifies the configured cover behind it, and no other.
CoverHearsItsOutputs ==
    [][stage = "live" /\ Len(events') < Len(events) /\ deaf' = {} =>
        \A n \in 1..15 :
            /\ Head(events).kind = "OUTPUT" /\ Head(events).args[1] = n
            /\ ~(Is("mini") /\ n > 2)
            => \A c \in 0..(Size("covers") - 1) :
                <<"covers", c>> \in fired'
                    <=> (n - 1) \div 2 = c /\ member[<<"covers", c>>].nmbr = c]_vars
===============================================================================
