------------------------------- MODULE Gcode -------------------------------
(***************************************************************************)
(* The g-code parser (gcode.c): a line is imported word by word, checked as *)
(* a whole, and executed, or dumped at the first error.                     *)
(*                                                                         *)
(* A word is a letter and a number in tenths.  Modes are named by the       *)
(* number of their command: units 20 is G20.  Of a feed rate, only what it  *)
(* is measured in is kept.  Distances are whole millimetres.  Laser mode    *)
(* and soft limits are off.  Motions are executed by the time a reset       *)
(* comes; what a reset does to a line in execution is in MainProgram.       *)
(***************************************************************************)
EXTENDS Integers, FiniteSets

CONSTANTS
  Words,                 \* words the host sends
  MM_PER_INCH,
  N_COORDINATE_SYSTEM,
  MAX_LINE_NUMBER,
  PowerUpData,           \* coordinate records a power-up may find
  PowerUpIntact,         \* and sets of those whose checksum agrees
  UninitialisedBits,     \* bits an uninitialised word_bit may name
  MaxInputs              \* a bound: the words and $ commands of a run

Axes == {"X", "Y", "Z"}
Vectors == [Axes -> Int]
Zero == [a \in Axes |-> 0]

\* Records of coordinate data: the coordinate systems, then G28 and G30.
Index == 0 .. (N_COORDINATE_SYSTEM + 1)
SETTING_INDEX_G28 == N_COORDINATE_SYSTEM
SETTING_INDEX_G30 == N_COORDINATE_SYSTEM + 1

\* The integer and the hundredths of a word's number.
int_value(word) == word.value \div 10
mantissa(word) == 10 * (word.value % 10)

\* Bits of value_words.
WordBit == [F |-> 0, I |-> 1, J |-> 2, K |-> 3, L |-> 4, N |-> 5, P |-> 6, R |-> 7,
            S |-> 8, T |-> 9, X |-> 10, Y |-> 11, Z |-> 12]

Letters == {"G", "M"} \cup DOMAIN WordBit

ASSUME GcodeAssumption ==
  /\ Words \subseteq [letter : Letters, value : Int]
  /\ MM_PER_INCH \in Int
  /\ N_COORDINATE_SYSTEM \in Nat \ {0} /\ MAX_LINE_NUMBER \in Nat
  /\ PowerUpData \subseteq [Index -> Vectors] /\ PowerUpIntact \subseteq SUBSET Index
  /\ \A w \in Words : w.letter = "G" => int_value(w) < 54 + N_COORDINATE_SYSTEM
                                        \/ int_value(w) > 59
  /\ UninitialisedBits \subseteq 0 .. 15 /\ UninitialisedBits # {}
  /\ MaxInputs \in Nat

VARIABLES
  \* gc_state
  modal, spindle_speed, feed_rate,
  position, coord_system, coord_offset, tool_length_offset,
  \* the EEPROM: the records, and those whose checksum agrees
  coord_data, intact,
  \* the machine
  spindle, coolant,   \* what the pins say
  planned,            \* the end of the last planned motion
  check_mode,
  \* the line being parsed
  line,               \* "none", "g-code" or "jog"
  gc_block,
  inputs              \* words and $ commands sent

offsetVars == <<coord_system, coord_offset, tool_length_offset>>
storeVars == <<coord_data, intact>>
pinVars == <<spindle, coolant>>
stateVars == <<modal, spindle_speed, feed_rate, position, offsetVars>>
vars == <<stateVars, storeVars, pinVars, planned, check_mode, line, gc_block, inputs>>

DefaultModal ==
  [motion |-> 0, feed_rate |-> 94, units |-> 21, distance |-> 90, plane_select |-> 17,
   tool_length |-> 49, coord_select |-> 0, program_flow |-> 0, coolant |-> {},
   spindle |-> 5]

\* A spindle's pins: direction and speed.
SpindleOff == [state |-> 5, speed |-> 0]

\* Step 1: a block begins with the modes of the state; a jog moves linearly at
\* millimetres a minute.
NewBlock(jog) ==
  [modal |-> IF jog THEN [modal EXCEPT !.motion = 1, !.feed_rate = 94] ELSE modal,
   non_modal_command |-> 0, axis_command |-> "none",
   axis_words |-> {}, ijk_words |-> {}, command_words |-> {}, value_words |-> {},
   xyz |-> Zero, s |-> 0, l |-> 0, n |-> 0, p |-> 0, f |-> 0,
   word_bit |-> -1, complete |-> FALSE]

\* Between two lines there is no block.
NoBlock == [command_words |-> {}]

Init ==
  /\ \E data \in PowerUpData, sound \in PowerUpIntact :
       /\ intact = sound \cup {0}
       /\ coord_data = IF 0 \in sound THEN data ELSE [data EXCEPT ![0] = Zero]
  /\ modal = DefaultModal /\ spindle_speed = 0 /\ feed_rate = "none"
  /\ coord_system = coord_data[0]
  /\ coord_offset = Zero /\ tool_length_offset = 0
  /\ position = Zero /\ planned = Zero
  /\ spindle = SpindleOff /\ coolant = {} /\ check_mode = FALSE
  /\ line = "none" /\ gc_block = NoBlock /\ inputs = 0

-----------------------------------------------------------------------------
\* Step 2: words are imported.

MotionCommands == {0, 1, 2, 3, 38, 80}
NonModalCommands == {4, 10, 28, 30, 53, 92}

SupportedG(n, m) ==
  \/ n \in {0, 1, 2, 3, 4, 10, 17, 18, 19, 20, 21, 40, 53, 54, 55, 56, 57, 58, 59, 61,
            80, 90, 91, 93, 94} /\ m = 0
  \/ n \in {28, 30, 92} /\ m \in {0, 10}
  \/ n = 38 /\ m \in {20, 30, 40, 50}
  \/ n \in {43, 91} /\ m = 10
  \/ n = 49

\* The modal group of a G command.
GroupOfG(n, m) ==
  CASE n \in NonModalCommands -> 0
    [] n \in MotionCommands -> 1
    [] n \in 17 .. 19 -> 2
    [] n \in {90, 91} /\ m = 0 -> 3
    [] n \in {90, 91} /\ m # 0 -> 4
    [] n \in {93, 94} -> 5
    [] n \in {20, 21} -> 6
    [] n = 40 -> 7
    [] n \in {43, 49} -> 8
    [] n \in 54 .. 59 -> 9
    [] n = 61 -> 10

\* What a G command wants of the axis words.
AxisCommandOfG(n, m) ==
  CASE n \in {10, 28, 30, 92} /\ m = 0 -> "non_modal"
    [] n \in MotionCommands \ {80} -> "motion"
    [] n \in {43, 49} -> "tool_length"
    [] OTHER -> "none"

\* Mutant: coordinate systems are counted from one.
ModalAfterG_Index(mode, n, m) ==
  IF n \in 54 .. 59 THEN [mode EXCEPT !.coord_select = n - 53] ELSE mode

ModalAfterG(mode, n, m) ==
  CASE n = 38 -> [mode EXCEPT !.motion = 138 + m \div 10]
    [] n \in MotionCommands \ {38} -> [mode EXCEPT !.motion = n]
    [] n \in 17 .. 19 -> [mode EXCEPT !.plane_select = n]
    [] n \in {90, 91} /\ m = 0 -> [mode EXCEPT !.distance = n]
    [] n \in {93, 94} -> [mode EXCEPT !.feed_rate = n]
    [] n \in {20, 21} -> [mode EXCEPT !.units = n]
    [] n \in {43, 49} -> [mode EXCEPT !.tool_length = n]
    [] n \in 54 .. 59 -> [mode EXCEPT !.coord_select = n - 54]
    [] OTHER -> mode

AcceptsG(word) ==
  LET n == int_value(word) m == mantissa(word) IN
  /\ SupportedG(n, m)
  /\ AxisCommandOfG(n, m) # "none" => gc_block.axis_command = "none"
  /\ GroupOfG(n, m) \notin gc_block.command_words

AfterG(word) ==
  LET n == int_value(word) m == mantissa(word) command == AxisCommandOfG(n, m) IN
  [gc_block EXCEPT
     !.modal = ModalAfterG(@, n, m),
     !.non_modal_command = IF n \in NonModalCommands THEN n + m ELSE @,
     !.axis_command = IF command = "none" THEN @ ELSE command,
     !.command_words = @ \cup {GroupOfG(n, m)},
     !.word_bit = GroupOfG(n, m)]

GroupOfM(n) ==
  CASE n \in {0, 1, 2, 30} -> 11
    [] n \in {3, 4, 5} -> 12
    [] n \in {7, 8, 9} -> 13

ModalAfterM(mode, n) ==
  CASE n = 0 -> [mode EXCEPT !.program_flow = 3]
    [] n \in {2, 30} -> [mode EXCEPT !.program_flow = n]
    [] n \in {3, 4, 5} -> [mode EXCEPT !.spindle = n]
    [] n = 7 -> [mode EXCEPT !.coolant = @ \cup {"mist"}]
    [] n = 8 -> [mode EXCEPT !.coolant = @ \cup {"flood"}]
    [] n = 9 -> [mode EXCEPT !.coolant = {}]
    [] OTHER -> mode

AcceptsM(word) ==
  /\ mantissa(word) = 0
  /\ int_value(word) \in {0, 1, 2, 30, 3, 4, 5, 7, 8, 9}
  /\ GroupOfM(int_value(word)) \notin gc_block.command_words

AfterM(word) ==
  LET n == int_value(word) IN
  [gc_block EXCEPT
     !.modal = ModalAfterM(@, n),
     !.command_words = @ \cup {GroupOfM(n)},
     !.word_bit = GroupOfM(n)]

\* Letters that set a value come once, and some are not negative.
AcceptsValue(word) ==
  /\ WordBit[word.letter] \notin gc_block.value_words
  /\ word.letter \in {"F", "N", "P", "T", "S"} => word.value >= 0
  /\ word.letter = "T" => word.value <= 2550

AfterValue(word) ==
  LET x == word.letter
      block == [gc_block EXCEPT !.value_words = @ \cup {WordBit[x]}, !.word_bit = WordBit[x]]
  IN  CASE x \in Axes ->
             [block EXCEPT !.axis_words = @ \cup {x}, !.xyz[x] = int_value(word)]
        [] x \in {"I", "J", "K"} -> [block EXCEPT !.ijk_words = @ \cup {x}]
        [] x = "F" -> [block EXCEPT !.f = word.value]
        [] x = "S" -> [block EXCEPT !.s = word.value]
        [] x = "L" -> [block EXCEPT !.l = int_value(word)]
        [] x = "N" -> [block EXCEPT !.n = int_value(word)]
        [] x = "P" -> [block EXCEPT !.p = int_value(word)]
        [] x \in {"R", "T"} -> block

Accepts(word) ==
  CASE word.letter = "G" -> AcceptsG(word)
    [] word.letter = "M" -> AcceptsM(word)
    [] word.letter \in DOMAIN WordBit -> AcceptsValue(word)

After(word) ==
  CASE word.letter = "G" -> AfterG(word)
    [] word.letter = "M" -> AfterM(word)
    [] word.letter \in DOMAIN WordBit -> AfterValue(word)

\* The M commands of this port act on pins, servos and timers while the line is
\* still being parsed, and take the rest of it for themselves: all but M226.
PortCommands == {17, 18, 42, 219, 226, 227, 229, 230, 231, 232, 233}
IsPort(word) == word.letter = "M" /\ int_value(word) \in PortCommands /\ mantissa(word) = 0

NextWord(word) ==
  /\ line # "none" /\ ~gc_block.complete /\ inputs < MaxInputs
  /\ inputs' = inputs + 1
  /\ UNCHANGED <<stateVars, storeVars, pinVars, planned, check_mode>>

\* The line is done with.
Dump == line' = "none" /\ gc_block' = NoBlock

TakeWord(word) ==
  /\ NextWord(word) /\ ~IsPort(word)
  /\ IF Accepts(word)
     THEN gc_block' = After(word) /\ UNCHANGED line
     ELSE Dump

\* A port command has no group of its own: the bit of the word before is tested
\* and set instead, and an uninitialised one when it is the first (gcode.c:357).
PortWord(word) ==
  /\ NextWord(word) /\ IsPort(word)
  /\ \E bit \in IF gc_block.word_bit = -1 THEN UninitialisedBits ELSE {gc_block.word_bit} :
       \/ /\ bit \notin gc_block.command_words
          /\ gc_block' = [gc_block EXCEPT
               !.command_words = @ \cup {bit},
               !.complete = int_value(word) # 226]
          /\ UNCHANGED line
       \/ (bit \in gc_block.command_words \/ int_value(word) \in {42, 219, 226, 227}) /\ Dump
-----------------------------------------------------------------------------
\* Step 3: the block b is checked and its values are converted.

Has(b, letter) == WordBit[letter] \in b.value_words
IsJog == line = "jog"

\* Axis words without a command are of the motion mode.
AxisCommand(b) ==
  IF b.axis_words # {} /\ b.axis_command = "none" THEN "motion" ELSE b.axis_command

\* What the block's feed rate is measured in.  A feed rate in inches is converted
\* unless the mode of the line before was G93; without a word the last one is
\* kept, unless the mode is or was G93.
Feed(b) ==
  LET given(unit) == IF b.f = 0 THEN "none" ELSE unit IN
  CASE IsJog -> given("mm")
    [] ~IsJog /\ b.modal.feed_rate = 93 -> given("inverse")
    [] ~IsJog /\ b.modal.feed_rate = 94 /\ modal.feed_rate = 94 ->
         IF Has(b, "F") THEN given("mm") ELSE feed_rate
    [] ~IsJog /\ b.modal.feed_rate = 94 /\ modal.feed_rate = 93 ->
         given(IF b.modal.units = 20 THEN "inch" ELSE "mm")

Speed(b) == IF Has(b, "S") THEN b.s ELSE spindle_speed

FeedMissing(b) ==
  \/ IsJog /\ ~Has(b, "F")
  \/ /\ ~IsJog /\ b.modal.feed_rate = 93 /\ ~Has(b, "F")
     /\ AxisCommand(b) = "motion" /\ b.modal.motion \notin {0, 80}

\* The errors found before anything is read from the EEPROM.
EarlyError(b) ==
  \/ Has(b, "N") /\ b.n > MAX_LINE_NUMBER
  \/ FeedMissing(b)
  \/ b.non_modal_command = 4 /\ ~Has(b, "P")
  \/ /\ AxisCommand(b) = "tool_length" /\ b.modal.tool_length = 43
     /\ b.axis_words # {"Z"}

\* The coordinate system the block selects, when it is another one.
Selected(b) ==
  IF 9 \in b.command_words /\ b.modal.coord_select # modal.coord_select
  THEN {b.modal.coord_select} ELSE {}

BlockCoordSystem(b) ==
  IF Selected(b) = {} THEN coord_system ELSE coord_data[b.modal.coord_select]

Value(b, a) == b.xyz[a] * (IF b.modal.units = 20 THEN MM_PER_INCH ELSE 1)
ToolLength(a) == IF a = "Z" THEN tool_length_offset ELSE 0

G10Error(b) ==
  \/ b.axis_words = {}
  \/ ~Has(b, "P") /\ ~Has(b, "L")
  \/ b.p > N_COORDINATE_SYSTEM
  \/ b.l \notin {2, 20}
  \/ b.l = 2 /\ Has(b, "R")

\* P0 and no P at all are the coordinate system the block leaves active.
G10Select(b) == IF b.p > 0 THEN b.p - 1 ELSE b.modal.coord_select

\* L2 sets the offset, L20 makes the current position read the value.
G10Data(b) ==
  [a \in Axes |->
     CASE a \notin b.axis_words -> coord_data[G10Select(b)][a]
       [] a \in b.axis_words /\ b.l = 2 -> Value(b, a)
       [] a \in b.axis_words /\ b.l # 2 ->
            position[a] - coord_offset[a] - Value(b, a) - ToolLength(a)]

G92Offset(b) ==
  [a \in Axes |->
     IF a \in b.axis_words
     THEN position[a] - BlockCoordSystem(b)[a] - Value(b, a) - ToolLength(a)
     ELSE coord_offset[a]]

\* Mutant: the tool length is forgotten.
Target_NoTool(b) ==
  [a \in Axes |->
     CASE b.axis_words = {} -> 0
       [] b.axis_words # {} /\ a \notin b.axis_words -> position[a]
       [] a \in b.axis_words /\ b.non_modal_command = 53 -> Value(b, a)
       [] a \in b.axis_words /\ b.non_modal_command # 53 ->
            Value(b, a) + (IF b.modal.distance = 91 THEN position[a]
                           ELSE BlockCoordSystem(b)[a] + coord_offset[a])]

\* The target in machine coordinates; without axis words nothing is computed.
Target(b) ==
  [a \in Axes |->
     CASE b.axis_words = {} -> 0
       [] b.axis_words # {} /\ a \notin b.axis_words -> position[a]
       [] a \in b.axis_words /\ b.non_modal_command = 53 -> Value(b, a)
       [] a \in b.axis_words /\ b.non_modal_command # 53 ->
            Value(b, a) + (IF b.modal.distance = 91 THEN position[a]
                           ELSE BlockCoordSystem(b)[a] + coord_offset[a] + ToolLength(a))]

\* G28 and G30 move the axes named, or all of them.
HomeRecord(b) == IF b.non_modal_command = 28 THEN SETTING_INDEX_G28 ELSE SETTING_INDEX_G30
HomeTarget(b) ==
  [a \in Axes |->
     IF b.axis_words # {} /\ a \notin b.axis_words THEN position[a]
     ELSE coord_data[HomeRecord(b)][a]]

\* The record a non-modal command reads, and the errors found before it does.
Recalled(b) ==
  CASE b.non_modal_command = 10 -> {G10Select(b)}
    [] b.non_modal_command \in {28, 30} -> {HomeRecord(b)}
    [] OTHER -> {}

NonModalError(b) ==
  \/ b.non_modal_command = 10 /\ G10Error(b)
  \/ b.non_modal_command = 92 /\ b.axis_words = {}
  \/ b.non_modal_command = 53 /\ b.modal.motion \notin {0, 1}

PlaneAxes(b) ==
  CASE b.modal.plane_select = 17 -> {"X", "Y"}
    [] b.modal.plane_select = 18 -> {"Z", "X"}
    [] b.modal.plane_select = 19 -> {"Y", "Z"}

\* Whether three points make an arc is left open.
ArcError(b) ==
  \/ b.axis_words \cap PlaneAxes(b) = {}
  \/ Has(b, "R") /\ Target(b) = position
  \/ ~Has(b, "R") /\ b.ijk_words \cap PlaneAxes(b) = {}

IsArc(b) == AxisCommand(b) = "motion" /\ b.modal.motion \in {2, 3}

MotionError(b) ==
  \/ b.modal.motion = 80 /\ b.axis_words # {}
  \/ /\ b.modal.motion \notin {0, 80} /\ AxisCommand(b) = "motion"
     /\ \/ Feed(b) = "none"
        \/ IsArc(b) /\ ArcError(b)
        \/ b.modal.motion \in 140 .. 143 /\ (b.axis_words = {} \/ Target(b) = position)

\* The axis command that is left to execute.
Remaining(b) ==
  IF /\ b.axis_words = {}
     /\ \/ AxisCommand(b) = "motion" /\ b.modal.motion \in {0, 1}
        \/ b.non_modal_command \in {28, 30}
  THEN "none" ELSE AxisCommand(b)

\* The value words that the block has a use for.
Used(b) ==
  {"N", "F"}
    \cup (IF IsJog THEN {} ELSE {"S", "T"})
    \cup (IF Remaining(b) = "none" THEN {} ELSE Axes)
    \cup (IF b.non_modal_command = 4 THEN {"P"} ELSE {})
    \cup (IF b.non_modal_command = 10 THEN {"L", "P"} ELSE {})
    \cup (IF IsArc(b) THEN IF Has(b, "R") THEN {"R"} ELSE {"I", "J", "K"} ELSE {})

\* A jog allows distance, units and G53.
JogError(b) ==
  \/ b.command_words \ {0, 3, 6} # {}
  \/ b.non_modal_command \notin {0, 53}

LateError(b) ==
  \/ MotionError(b)
  \/ \E letter \in DOMAIN WordBit \ Used(b) : Has(b, letter)
  \/ IsJog /\ JogError(b)

Valid(b) ==
  /\ ~EarlyError(b) /\ ~NonModalError(b) /\ ~LateError(b)
  /\ Selected(b) \cup Recalled(b) \subseteq intact

\* A refused line has zeroed the record it could not read.
Spoilt(b) ==
  IF EarlyError(b) THEN {}
  ELSE IF ~(Selected(b) \subseteq intact) THEN Selected(b)
  ELSE IF ~NonModalError(b) THEN Recalled(b) \ intact
  ELSE {}

\* A line of words, after any of which it may end.
Complete == line # "none" /\ gc_block.command_words \cup gc_block.value_words # {}

BeginLine(kind) ==
  /\ line = "none" /\ inputs < MaxInputs
  /\ kind = "jog" => ~check_mode
  /\ line' = kind /\ gc_block' = NewBlock(kind = "jog")
  /\ UNCHANGED <<stateVars, storeVars, pinVars, planned, check_mode, inputs>>

Refuse ==
  /\ Complete
  /\ ~Valid(gc_block) \/ IsArc(gc_block)
  /\ coord_data' = [i \in Index |-> IF i \in Spoilt(gc_block) THEN Zero ELSE coord_data[i]]
  /\ intact' = intact \cup Spoilt(gc_block)
  /\ Dump
  /\ UNCHANGED <<stateVars, pinVars, planned, check_mode, inputs>>
-----------------------------------------------------------------------------
\* Step 4: a valid block is executed, in the order RS274 gives its parts.

\* spindle_sync, coolant_sync: nothing happens in check mode.
SpindlePins(state, speed) ==
  IF state = 5 THEN SpindleOff ELSE [state |-> state, speed |-> speed]

\* Mutant: a new speed waits for the next spindle command.
SpindleAfter_Kept(b) ==
  IF check_mode \/ b.modal.spindle = modal.spindle
  THEN spindle ELSE SpindlePins(b.modal.spindle, Speed(b))

SpindleAfter(b) ==
  IF check_mode \/ (b.modal.spindle = modal.spindle /\ Speed(b) = spindle_speed)
  THEN spindle ELSE SpindlePins(b.modal.spindle, Speed(b))

CoolantAfter(b) ==
  IF check_mode \/ b.modal.coolant = modal.coolant THEN coolant ELSE b.modal.coolant

ToolLengthAfter(b) ==
  IF AxisCommand(b) # "tool_length" THEN tool_length_offset
  ELSE IF b.modal.tool_length = 49 THEN 0 ELSE Value(b, "Z")

OffsetAfter(b) ==
  CASE b.non_modal_command = 92 -> G92Offset(b)
    [] b.non_modal_command = 102 -> Zero
    [] OTHER -> coord_offset

\* G10, G28.1 and G30.1 write a record.
DataAfter(b) ==
  CASE b.non_modal_command = 10 -> [coord_data EXCEPT ![G10Select(b)] = G10Data(b)]
    [] b.non_modal_command = 38 -> [coord_data EXCEPT ![SETTING_INDEX_G28] = position]
    [] b.non_modal_command = 40 -> [coord_data EXCEPT ![SETTING_INDEX_G30] = position]
    [] OTHER -> coord_data

Written(b) ==
  CASE b.non_modal_command = 10 -> {G10Select(b)}
    [] b.non_modal_command = 38 -> {SETTING_INDEX_G28}
    [] b.non_modal_command = 40 -> {SETTING_INDEX_G30}
    [] OTHER -> {}

\* Mutant: G10 writes the record only.
SystemAfter_Kept(b) ==
  IF b.modal.coord_select # modal.coord_select THEN BlockCoordSystem(b) ELSE coord_system

\* The coordinate system is loaded when another one is selected, and again when
\* G10 has written the one that is active.
SystemAfter(b) ==
  IF b.non_modal_command = 10 /\ G10Select(b) = b.modal.coord_select THEN G10Data(b)
  ELSE IF b.modal.coord_select # modal.coord_select THEN BlockCoordSystem(b)
  ELSE coord_system

Homes(b) == b.non_modal_command \in {28, 30}
Moves(b) == Remaining(b) = "motion" /\ b.modal.motion # 80
Probes(b) == Moves(b) /\ b.modal.motion \in 140 .. 143

\* A probing cycle finds the probe, misses it, or finds it triggered before it
\* begins.
Outcomes(b) ==
  IF Probes(b) /\ ~check_mode THEN {"found", "missed", "triggered"} ELSE {"done"}

\* Where a probe is found on the way.
Contact(b) == [a \in Axes |-> (position[a] + Target(b)[a]) \div 2]

\* Where the planner stands: in check mode nothing is planned.
PlannedAfter(b, outcome) ==
  CASE check_mode -> planned
    [] ~check_mode /\ Homes(b) -> HomeTarget(b)
    [] ~check_mode /\ Moves(b) /\ outcome \in {"done", "missed"} -> Target(b)
    [] ~check_mode /\ Moves(b) /\ outcome = "found" -> Contact(b)
    [] OTHER -> planned

\* Mutant: after a probing cycle the parser stands at the target.
PositionAfter_Target(b, outcome) ==
  CASE Homes(b) -> HomeTarget(b)
    [] Moves(b) /\ outcome # "triggered" -> Target(b)
    [] OTHER -> position

\* Where the parser stands: found, it takes the machine's position.
PositionAfter(b, outcome) ==
  CASE Homes(b) -> HomeTarget(b)
    [] Moves(b) /\ outcome \in {"done", "missed"} -> Target(b)
    [] Moves(b) /\ outcome = "found" -> PlannedAfter(b, outcome)
    [] OTHER -> position

EndsProgram(b) == b.modal.program_flow \in {2, 30}

ModalAfter(b) ==
  IF EndsProgram(b)
  THEN [b.modal EXCEPT !.motion = 1, !.plane_select = 17, !.distance = 90,
                       !.feed_rate = 94, !.coord_select = 0, !.coolant = {},
                       !.spindle = 5, !.program_flow = 0]
  ELSE [b.modal EXCEPT !.program_flow = 0]

Execute ==
  LET b == gc_block IN
  /\ line = "g-code" /\ Complete /\ Valid(b)
  /\ \E outcome \in Outcomes(b) :
       /\ position' = PositionAfter(b, outcome)
       /\ planned' = PlannedAfter(b, outcome)
  /\ feed_rate' = Feed(b) /\ spindle_speed' = Speed(b)
  /\ tool_length_offset' = ToolLengthAfter(b) /\ coord_offset' = OffsetAfter(b)
  /\ coord_data' = DataAfter(b) /\ intact' = intact \cup Written(b)
  /\ modal' = ModalAfter(b)
  /\ IF EndsProgram(b) /\ ~check_mode
     THEN spindle' = SpindleOff /\ coolant' = {} /\ coord_system' = coord_data'[0]
     ELSE /\ spindle' = SpindleAfter(b) /\ coolant' = CoolantAfter(b)
          /\ coord_system' = SystemAfter(b)
  /\ Dump
  /\ UNCHANGED <<check_mode, inputs>>

\* jog_execute: of the state only the position changes.
ExecuteJog ==
  LET b == gc_block IN
  /\ line = "jog" /\ Complete /\ Valid(b)
  /\ planned' = Target(b) /\ position' = Target(b)
  /\ Dump
  /\ UNCHANGED <<modal, spindle_speed, feed_rate, offsetVars, storeVars, pinVars, check_mode,
                 inputs>>

-----------------------------------------------------------------------------
\* A reset, of the user or because check mode or the parameters change.

Restart ==
  /\ line = "none"
  /\ position' = planned
  /\ modal' = DefaultModal /\ spindle_speed' = 0 /\ feed_rate' = "none"
  /\ coord_offset' = Zero /\ tool_length_offset' = 0
  /\ coord_system' = coord_data'[0]
  /\ spindle' = SpindleOff /\ coolant' = {} /\ check_mode' = FALSE
  /\ UNCHANGED <<planned, line, gc_block>>

Reset == UNCHANGED <<storeVars, inputs>> /\ Restart

\* $C
EnterCheckMode ==
  /\ line = "none" /\ ~check_mode
  /\ inputs < MaxInputs /\ inputs' = inputs + 1
  /\ check_mode' = TRUE
  /\ UNCHANGED <<stateVars, storeVars, pinVars, planned, line, gc_block>>

\* $RST=#
RestoreParameters ==
  /\ ~check_mode
  /\ inputs < MaxInputs /\ inputs' = inputs + 1
  /\ coord_data' = [i \in Index |-> Zero] /\ intact' = Index
  /\ Restart

ParseWord == \E word \in Words : TakeWord(word) \/ PortWord(word)

Next ==
  \/ BeginLine("g-code") \/ BeginLine("jog")
  \/ ParseWord \/ Refuse \/ Execute \/ ExecuteJog
  \/ Reset \/ EnterCheckMode \/ RestoreParameters

Spec == Init /\ [][Next]_vars

-----------------------------------------------------------------------------
\* Properties

Modes ==
  [motion : (MotionCommands \ {38}) \cup (140 .. 143), feed_rate : {93, 94}, units : {20, 21},
   distance : {90, 91}, plane_select : 17 .. 19, tool_length : {43, 49},
   coord_select : 0 .. (N_COORDINATE_SYSTEM - 1), program_flow : {0},
   coolant : SUBSET {"flood", "mist"}, spindle : {3, 4, 5}]

TypeOK ==
  /\ modal \in Modes
  /\ spindle_speed \in Int /\ feed_rate \in {"none", "mm", "inch", "inverse"}
  /\ position \in Vectors /\ coord_system \in Vectors /\ coord_offset \in Vectors
  /\ tool_length_offset \in Int /\ planned \in Vectors
  /\ coord_data \in [Index -> Vectors] /\ intact \subseteq Index
  /\ check_mode \in BOOLEAN

\* The work coordinate system in use is the one stored under the selected
\* number, whichever of G10, G54 to G59, the end of the program, a reset and a
\* record that cannot be read came last, and in whichever order a line named
\* them (gcode.c:573-632, 1058-1082, 1183).
OffsetsStored ==
  ~check_mode => coord_system = coord_data[modal.coord_select]

\* The pins say what the modes say, so that a later M5, M9 or S word is not
\* taken for no change (gcode.c:984, 1005, 1015, 1165-1186).
OutputsFollowModes ==
  ~check_mode =>
    /\ spindle = SpindlePins(modal.spindle, spindle_speed)
    /\ coolant = modal.coolant

\* The parser computes from where the planner will have brought the machine
\* (gcode.c:933, 1089, 1132-1139).
PositionPlanned == ~check_mode => position = planned

WorkPosition(a) ==
  position[a] - coord_system[a] - coord_offset[a] - ToolLength(a)

\* A line that sets an axis or moves it to a work position leaves that axis
\* reading what the line said, whatever units, coordinate systems and tool
\* lengths it changes besides (gcode.c:615-673).  Three lines do not mean it:
\* one that ends the program, one that clears G92 in front of its motion, and
\* a probe.
SetsPosition(b) ==
  \/ b.non_modal_command = 92
  \/ b.non_modal_command = 10 /\ b.l = 20 /\ G10Select(b) = b.modal.coord_select
  \/ /\ Moves(b) /\ ~Probes(b) /\ b.modal.distance = 90
     /\ b.non_modal_command \notin {53, 102}

WorkPositionAsProgrammed ==
  [][(Execute \/ ExecuteJog) /\ SetsPosition(gc_block) /\ ~EndsProgram(gc_block)
       => \A a \in gc_block.axis_words : WorkPosition(a)' = Value(gc_block, a)]_vars
=============================================================================
