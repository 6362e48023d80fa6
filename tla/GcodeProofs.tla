----------------------------- MODULE GcodeProofs -----------------------------
(***************************************************************************)
(* Theorems about the parser, for every set of words, every number of       *)
(* coordinate systems, every content of the EEPROM at power-up and every    *)
(* length of a run: its state agrees with the EEPROM, the pins and the      *)
(* planner after every line.                                                *)
(***************************************************************************)
EXTENDS Gcode, TLAPS

\* The modes of a block in the making, which may stop or end the program.
BlockModes ==
  [motion : (MotionCommands \ {38}) \cup (140 .. 143), feed_rate : {93, 94}, units : {20, 21},
   distance : {90, 91}, plane_select : 17 .. 19, tool_length : {43, 49},
   coord_select : 0 .. (N_COORDINATE_SYSTEM - 1), program_flow : {0, 2, 3, 30},
   coolant : SUBSET {"flood", "mist"}, spindle : {3, 4, 5}]

Blocks ==
  [modal : BlockModes, non_modal_command : Int,
   axis_command : {"none", "non_modal", "motion", "tool_length"},
   axis_words : SUBSET Axes, ijk_words : SUBSET {"I", "J", "K"},
   command_words : SUBSET Int, value_words : SUBSET Int,
   xyz : Vectors, s : Int, l : Int, n : Int, p : Int, f : Int, word_bit : Int, complete : BOOLEAN]

BlockTypes == line \in {"none", "g-code", "jog"} /\ (line # "none" => gc_block \in Blocks)

\* A block that selects another coordinate system has said so with a word of
\* group 9, and one that sets coordinate data or goes to a predefined position
\* has claimed its axis words for that.
BlockAgrees ==
  line # "none" =>
    /\ gc_block.modal.coord_select # modal.coord_select => 9 \in gc_block.command_words
    /\ gc_block.non_modal_command \in {10, 28, 30, 92} => gc_block.axis_command = "non_modal"

\* The record of the active coordinate system can be read, and so can the first
\* one, to which the end of the program and a reset return.
Readable == {0, modal.coord_select} \subseteq intact

IInv ==
  /\ TypeOK /\ BlockTypes /\ BlockAgrees /\ Readable
  /\ OffsetsStored /\ OutputsFollowModes /\ PositionPlanned
-----------------------------------------------------------------------------
LEMMA IndexFacts ==
  /\ 0 \in Index /\ 0 .. (N_COORDINATE_SYSTEM - 1) \subseteq Index
  /\ 0 \in 0 .. (N_COORDINATE_SYSTEM - 1)
  /\ SETTING_INDEX_G28 \in Index \ (0 .. (N_COORDINATE_SYSTEM - 1))
  /\ SETTING_INDEX_G30 \in Index \ (0 .. (N_COORDINATE_SYSTEM - 1))
BY GcodeAssumption DEF Index, SETTING_INDEX_G28, SETTING_INDEX_G30

LEMMA ZeroVector == Zero \in Vectors
BY DEF Zero, Vectors

LEMMA InitIInv == Init => IInv
<1> SUFFICES ASSUME Init PROVE IInv
  OBVIOUS
<1>1. modal \in Modes
  BY IndexFacts DEF Init, DefaultModal, Modes, MotionCommands
<1>2. PICK data \in PowerUpData, sound \in PowerUpIntact :
        /\ intact = sound \cup {0}
        /\ coord_data = IF 0 \in sound THEN data ELSE [data EXCEPT ![0] = Zero]
  BY DEF Init
<1>3. data \in [Index -> Vectors] /\ sound \subseteq Index
  BY GcodeAssumption
<1>4. coord_data \in [Index -> Vectors] /\ intact \subseteq Index
  BY <1>2, <1>3, IndexFacts, ZeroVector
<1>5. coord_system \in Vectors /\ coord_system = coord_data[0]
  BY <1>4, IndexFacts DEF Init
<1>6. TypeOK
  <2>1. position \in Vectors /\ coord_offset \in Vectors /\ planned \in Vectors
    BY ZeroVector DEF Init
  <2>2. spindle_speed \in Int /\ tool_length_offset \in Int
    BY DEF Init
  <2>3. feed_rate \in {"none", "mm", "inch", "inverse"}
    BY DEF Init
  <2>4. check_mode \in BOOLEAN
    BY Zenon DEF Init
  <2> QED
    BY <1>1, <1>4, <1>5, <2>1, <2>2, <2>3, <2>4 DEF TypeOK
<1>7. BlockTypes /\ BlockAgrees /\ Readable
  BY <1>2 DEF Init, BlockTypes, BlockAgrees, Readable, DefaultModal
<1>8. OffsetsStored /\ OutputsFollowModes /\ PositionPlanned
  BY <1>5 DEF Init, OffsetsStored, OutputsFollowModes, PositionPlanned, DefaultModal,
              SpindlePins, SpindleOff
<1> QED
  BY <1>6, <1>7, <1>8 DEF IInv
-----------------------------------------------------------------------------
\* Parsing changes the block alone.

LEMMA NumberTypes ==
  ASSUME NEW word \in Words
  PROVE  word.letter \in Letters /\ word.value \in Int /\ int_value(word) \in Int
         /\ mantissa(word) \in Int
BY GcodeAssumption DEF int_value, mantissa

LEMMA ModalAfterGType ==
  ASSUME NEW mode \in BlockModes, NEW n \in Int, NEW m \in Int, SupportedG(n, m),
         n < 54 + N_COORDINATE_SYSTEM \/ n > 59
  PROVE  /\ ModalAfterG(mode, n, m) \in BlockModes
         /\ n \notin 54 .. 59 => ModalAfterG(mode, n, m).coord_select = mode.coord_select
<1> USE DEF BlockModes
<1>1. CASE n = 38
  <2>1. 138 + m \div 10 \in 140 .. 143
    BY <1>1 DEF SupportedG
  <2>2. ModalAfterG(mode, n, m) = [mode EXCEPT !.motion = 138 + m \div 10]
    BY <1>1 DEF ModalAfterG, MotionCommands
  <2> QED
    BY <2>1, <2>2
<1>2. CASE n \in MotionCommands \ {38}
  <2>1. ModalAfterG(mode, n, m) = [mode EXCEPT !.motion = n]
    BY <1>2 DEF ModalAfterG, MotionCommands
  <2> QED
    BY <1>2, <2>1
<1>3. CASE n \in 54 .. 59
  <2>1. ModalAfterG(mode, n, m) = [mode EXCEPT !.coord_select = n - 54]
    BY <1>3 DEF ModalAfterG, MotionCommands
  <2>2. n - 54 \in 0 .. (N_COORDINATE_SYSTEM - 1)
    BY <1>3, GcodeAssumption
  <2> QED
    BY <1>3, <2>1, <2>2
<1>4. CASE n \notin MotionCommands /\ n \notin 54 .. 59
  BY <1>4 DEF ModalAfterG, MotionCommands
<1> QED
  BY <1>1, <1>2, <1>3, <1>4 DEF MotionCommands

LEMMA GWord ==
  ASSUME NEW word \in Words, word.letter = "G", IInv, line # "none", AcceptsG(word)
  PROVE  LET b == AfterG(word) IN
         /\ b \in Blocks
         /\ b.modal.coord_select # modal.coord_select => 9 \in b.command_words
         /\ b.non_modal_command \in {10, 28, 30, 92} => b.axis_command = "non_modal"
<1> DEFINE n == int_value(word) m == mantissa(word) command == AxisCommandOfG(n, m)
<1>1. n \in Int /\ m \in Int /\ SupportedG(n, m)
  BY NumberTypes DEF AcceptsG
<1>2. n < 54 + N_COORDINATE_SYSTEM \/ n > 59
  BY GcodeAssumption
<1>3. gc_block \in Blocks
  BY DEF IInv, BlockTypes
<1>4. command \in {"none", "non_modal", "motion", "tool_length"}
  BY DEF AxisCommandOfG, MotionCommands
<1>5. GroupOfG(n, m) \in Int
  BY <1>1 DEF GroupOfG, SupportedG, MotionCommands, NonModalCommands
<1>6. n \in 54 .. 59 => GroupOfG(n, m) = 9
  BY DEF GroupOfG, MotionCommands, NonModalCommands
<1>7. gc_block.modal \in BlockModes
  BY <1>3 DEF Blocks
<1> HIDE DEF n, m, command
<1>8. ModalAfterG(gc_block.modal, n, m) \in BlockModes
  BY <1>1, <1>2, <1>7, ModalAfterGType
<1>9. AfterG(word) =
        [gc_block EXCEPT
           !.modal = ModalAfterG(@, n, m),
           !.non_modal_command = IF n \in NonModalCommands THEN n + m ELSE @,
           !.axis_command = IF command = "none" THEN @ ELSE command,
           !.command_words = @ \cup {GroupOfG(n, m)},
           !.word_bit = GroupOfG(n, m)]
  BY DEF AfterG, n, m, command
<1>10. AfterG(word) \in Blocks
  <2>1. gc_block.command_words \cup {GroupOfG(n, m)} \in SUBSET Int
    BY <1>3, <1>5 DEF Blocks
  <2>2. (IF n \in NonModalCommands THEN n + m ELSE gc_block.non_modal_command) \in Int
    BY <1>1, <1>3 DEF Blocks
  <2> QED
    BY <1>3, <1>4, <1>5, <1>8, <1>9, <2>1, <2>2, ZenonT(60) DEF Blocks
<1>11. AfterG(word).modal.coord_select # modal.coord_select => 9 \in AfterG(word).command_words
  <2>1. AfterG(word).modal = ModalAfterG(gc_block.modal, n, m)
        /\ AfterG(word).command_words = gc_block.command_words \cup {GroupOfG(n, m)}
    BY <1>3, <1>9 DEF Blocks
  <2>2. CASE n \in 54 .. 59
    BY <1>6, <2>1, <2>2
  <2>3. CASE n \notin 54 .. 59
    <3>1. ModalAfterG(gc_block.modal, n, m).coord_select = gc_block.modal.coord_select
      BY <1>1, <1>2, <1>7, <2>3, ModalAfterGType
    <3> QED
      BY <2>1, <3>1 DEF IInv, BlockAgrees
  <2> QED
    BY <2>2, <2>3
<1>12. AfterG(word).non_modal_command \in {10, 28, 30, 92} => AfterG(word).axis_command = "non_modal"
  <2>1. /\ AfterG(word).non_modal_command =
             IF n \in NonModalCommands THEN n + m ELSE gc_block.non_modal_command
        /\ AfterG(word).axis_command =
             IF command = "none" THEN gc_block.axis_command ELSE command
    BY <1>3, <1>9 DEF Blocks
  <2>2. CASE n \in NonModalCommands
    <3>1. n + m \in {10, 28, 30, 92} => n \in {10, 28, 30, 92} /\ m = 0
      BY <1>1, <2>2 DEF SupportedG, NonModalCommands
    <3>2. n \in {10, 28, 30, 92} /\ m = 0 => command = "non_modal"
      BY DEF AxisCommandOfG, MotionCommands, command
    <3> QED
      BY <2>1, <2>2, <3>1, <3>2
  <2>3. CASE n \notin NonModalCommands
    <3>1. gc_block.non_modal_command \in {10, 28, 30, 92} => gc_block.axis_command = "non_modal"
      BY DEF IInv, BlockAgrees
    <3>2. command # "none" => gc_block.axis_command = "none"
      BY DEF AcceptsG, command, n, m
    <3> QED
      BY <2>1, <2>3, <3>1, <3>2
  <2> QED
    BY <2>2, <2>3
<1> QED
  BY <1>10, <1>11, <1>12

LEMMA MWord ==
  ASSUME NEW word \in Words, word.letter = "M", IInv, line # "none", AcceptsM(word)
  PROVE  LET b == AfterM(word) IN
         /\ b \in Blocks
         /\ b.modal.coord_select # modal.coord_select => 9 \in b.command_words
         /\ b.non_modal_command \in {10, 28, 30, 92} => b.axis_command = "non_modal"
<1> DEFINE n == int_value(word)
<1>1. n \in {0, 1, 2, 30, 3, 4, 5, 7, 8, 9}
  BY DEF AcceptsM
<1>2. gc_block \in Blocks /\ gc_block.modal \in BlockModes
  BY DEF IInv, BlockTypes, Blocks
<1>3. GroupOfM(n) \in Int
  BY <1>1 DEF GroupOfM
<1>4. /\ ModalAfterM(gc_block.modal, n) \in BlockModes
      /\ ModalAfterM(gc_block.modal, n).coord_select = gc_block.modal.coord_select
  BY <1>1, <1>2 DEF ModalAfterM, BlockModes
<1> HIDE DEF n
<1>5. AfterM(word) =
        [gc_block EXCEPT
           !.modal = ModalAfterM(@, n),
           !.command_words = @ \cup {GroupOfM(n)},
           !.word_bit = GroupOfM(n)]
  BY DEF AfterM, n
<1>6. AfterM(word) \in Blocks
  <2>1. gc_block.command_words \cup {GroupOfM(n)} \in SUBSET Int
    BY <1>2, <1>3 DEF Blocks
  <2> QED
    BY <1>2, <1>3, <1>4, <1>5, <2>1 DEF Blocks
<1>7. /\ AfterM(word).modal = ModalAfterM(gc_block.modal, n)
      /\ AfterM(word).command_words = gc_block.command_words \cup {GroupOfM(n)}
      /\ AfterM(word).non_modal_command = gc_block.non_modal_command
      /\ AfterM(word).axis_command = gc_block.axis_command
  BY <1>2, <1>5 DEF Blocks
<1> QED
  BY <1>4, <1>6, <1>7 DEF IInv, BlockAgrees

LEMMA ValueWord ==
  ASSUME NEW word \in Words, word.letter \in DOMAIN WordBit, IInv, line # "none"
  PROVE  LET b == AfterValue(word) IN
         /\ b \in Blocks
         /\ b.modal.coord_select # modal.coord_select => 9 \in b.command_words
         /\ b.non_modal_command \in {10, 28, 30, 92} => b.axis_command = "non_modal"
<1> DEFINE x == word.letter
           block == [gc_block EXCEPT !.value_words = @ \cup {WordBit[x]}, !.word_bit = WordBit[x]]
<1>1. gc_block \in Blocks
  BY DEF IInv, BlockTypes
<1>2. WordBit[x] \in Int
  BY DEF WordBit
<1>3. word.value \in Int /\ int_value(word) \in Int
  BY NumberTypes
<1>4. x \in {"F", "I", "J", "K", "L", "N", "P", "R", "S", "T", "X", "Y", "Z"}
  BY DEF WordBit
<1> HIDE DEF x
<1>5. block \in Blocks /\ block.modal = gc_block.modal
      /\ block.command_words = gc_block.command_words
      /\ block.non_modal_command = gc_block.non_modal_command
      /\ block.axis_command = gc_block.axis_command
  BY <1>1, <1>2 DEF Blocks
<1>6. AfterValue(word) =
        CASE x \in Axes ->
               [block EXCEPT !.axis_words = @ \cup {x}, !.xyz[x] = int_value(word)]
          [] x \in {"I", "J", "K"} -> [block EXCEPT !.ijk_words = @ \cup {x}]
          [] x = "F" -> [block EXCEPT !.f = word.value]
          [] x = "S" -> [block EXCEPT !.s = word.value]
          [] x = "L" -> [block EXCEPT !.l = int_value(word)]
          [] x = "N" -> [block EXCEPT !.n = int_value(word)]
          [] x = "P" -> [block EXCEPT !.p = int_value(word)]
          [] x \in {"R", "T"} -> block
  BY DEF AfterValue, x
<1> HIDE DEF block
<1> DEFINE Like(b) == /\ b \in Blocks /\ b.modal = block.modal
                      /\ b.command_words = block.command_words
                      /\ b.non_modal_command = block.non_modal_command
                      /\ b.axis_command = block.axis_command
<1>7. Like(AfterValue(word))
  <2>1. CASE x \in Axes
    <3>1. AfterValue(word) =
            [block EXCEPT !.axis_words = @ \cup {x}, !.xyz[x] = int_value(word)]
      BY <1>6, <2>1 DEF Axes
    <3>2. block.axis_words \cup {x} \in SUBSET Axes
      BY <1>5, <2>1 DEF Blocks
    <3>3. [block.xyz EXCEPT ![x] = int_value(word)] \in Vectors
      BY <1>3, <1>5, <2>1 DEF Blocks, Vectors
    <3> QED
      BY <1>5, <3>1, <3>2, <3>3 DEF Blocks
  <2>2. CASE x \in {"I", "J", "K"}
    <3>1. AfterValue(word) = [block EXCEPT !.ijk_words = @ \cup {x}]
      BY <1>6, <2>2 DEF Axes
    <3> QED
      BY <1>5, <2>2, <3>1 DEF Blocks
  <2>3. CASE x = "F"
    BY <1>3, <1>5, <1>6, <2>3 DEF Blocks, Axes
  <2>4. CASE x = "S"
    BY <1>3, <1>5, <1>6, <2>4 DEF Blocks, Axes
  <2>5. CASE x = "L"
    BY <1>3, <1>5, <1>6, <2>5 DEF Blocks, Axes
  <2>6. CASE x = "P"
    BY <1>3, <1>5, <1>6, <2>6 DEF Blocks, Axes
  <2>7. CASE x = "N"
    BY <1>3, <1>5, <1>6, <2>7 DEF Blocks, Axes
  <2>8. CASE x \in {"R", "T"}
    BY <1>5, <1>6, <2>8 DEF Axes
  <2> QED
    BY <1>4, <2>1, <2>2, <2>3, <2>4, <2>5, <2>6, <2>7, <2>8 DEF Axes
<1> QED
  BY <1>5, <1>7 DEF IInv, BlockAgrees

\* What a step keeps that changes the block alone.
LEMMA ParseIInv ==
  ASSUME IInv, UNCHANGED <<stateVars, storeVars, pinVars, planned, check_mode>>,
         BlockTypes', BlockAgrees'
  PROVE  IInv'
BY DEF IInv, TypeOK, Readable, OffsetsStored, OutputsFollowModes, PositionPlanned,
       stateVars, storeVars, pinVars, offsetVars

LEMMA WordStep ==
  ASSUME IInv, NEW word \in Words, TakeWord(word) \/ PortWord(word)
  PROVE  IInv'
<1>1. UNCHANGED <<stateVars, storeVars, pinVars, planned, check_mode>> /\ line # "none"
  BY DEF TakeWord, PortWord, NextWord
<1>2. modal' = modal
  BY <1>1 DEF stateVars
<1>3. CASE Dump
  BY <1>1, <1>3, ParseIInv DEF Dump, BlockTypes, BlockAgrees
<1>4. CASE TakeWord(word) /\ ~Dump
  <2>1. Accepts(word) /\ gc_block' = After(word) /\ line' = line
    BY <1>4 DEF TakeWord
  <2>2. word.letter \in Letters
    BY NumberTypes
  <2>3. CASE word.letter = "G"
    <3>1. AcceptsG(word) /\ gc_block' = AfterG(word)
      BY <2>1, <2>3 DEF Accepts, After, WordBit
    <3>2. BlockTypes' /\ BlockAgrees'
      BY <1>1, <1>2, <2>1, <2>3, <3>1, GWord DEF IInv, BlockTypes, BlockAgrees
    <3> QED
      BY <1>1, <3>2, ParseIInv
  <2>4. CASE word.letter = "M"
    <3>1. AcceptsM(word) /\ gc_block' = AfterM(word)
      BY <2>1, <2>4 DEF Accepts, After, WordBit
    <3>2. BlockTypes' /\ BlockAgrees'
      BY <1>1, <1>2, <2>1, <2>4, <3>1, MWord DEF IInv, BlockTypes, BlockAgrees
    <3> QED
      BY <1>1, <3>2, ParseIInv
  <2>5. CASE word.letter \in DOMAIN WordBit
    <3>1. gc_block' = AfterValue(word)
      BY <2>1, <2>5 DEF After, WordBit
    <3>2. BlockTypes' /\ BlockAgrees'
      BY <1>1, <1>2, <2>1, <2>5, <3>1, ValueWord DEF IInv, BlockTypes, BlockAgrees
    <3> QED
      BY <1>1, <3>2, ParseIInv
  <2> QED
    BY <2>2, <2>3, <2>4, <2>5 DEF Letters
<1>5. CASE PortWord(word) /\ ~Dump
  <2>1. PICK bit \in IF gc_block.word_bit = -1 THEN UninitialisedBits
                     ELSE {gc_block.word_bit} :
          /\ line' = line
          /\ gc_block' = [gc_block EXCEPT
               !.command_words = @ \cup {bit},
               !.complete = int_value(word) # 226]
    BY <1>5 DEF PortWord
  <2>2. gc_block \in Blocks
    BY <1>1 DEF IInv, BlockTypes
  <2>3. bit \in Int
    BY <2>2, GcodeAssumption DEF Blocks
  <2>4. gc_block' \in Blocks
    <3>1. gc_block.command_words \cup {bit} \in SUBSET Int
      BY <2>2, <2>3 DEF Blocks
    <3> QED
      BY <2>1, <2>2, <3>1, ZenonT(60) DEF Blocks
  <2>5. /\ gc_block'.modal = gc_block.modal
        /\ gc_block'.command_words = gc_block.command_words \cup {bit}
        /\ gc_block'.non_modal_command = gc_block.non_modal_command
        /\ gc_block'.axis_command = gc_block.axis_command
    BY <2>1, <2>2 DEF Blocks
  <2>6. BlockTypes' /\ BlockAgrees'
    BY <1>1, <1>2, <2>1, <2>4, <2>5 DEF IInv, BlockTypes, BlockAgrees
  <2> QED
    BY <1>1, <2>6, ParseIInv
<1> QED
  BY <1>3, <1>4, <1>5
-----------------------------------------------------------------------------
\* What a complete block computes.

LEMMA ValueType ==
  ASSUME NEW b \in Blocks, NEW a \in Axes
  PROVE  Value(b, a) \in Int
<1>1. b.xyz[a] \in Int
  BY DEF Blocks, Vectors
<1>2. \A x, y \in Int : x * y \in Int
  OBVIOUS
<1> QED
  BY <1>1, <1>2, GcodeAssumption DEF Value

LEMMA ToolLengthType ==
  ASSUME TypeOK, NEW a
  PROVE  ToolLength(a) \in Int
BY DEF TypeOK, ToolLength

\* The records a block selects, recalls or writes exist.
LEMMA RecordFacts ==
  ASSUME NEW b \in Blocks, modal \in Modes
  PROVE  /\ Selected(b) \subseteq {b.modal.coord_select}
         /\ b.modal.coord_select \in 0 .. (N_COORDINATE_SYSTEM - 1)
         /\ HomeRecord(b) \in Index
         /\ b.non_modal_command = 10 /\ ~G10Error(b)
              => G10Select(b) \in 0 .. (N_COORDINATE_SYSTEM - 1)
         /\ ~NonModalError(b) => Recalled(b) \subseteq Index
<1>1. b.modal.coord_select \in 0 .. (N_COORDINATE_SYSTEM - 1) /\ b.p \in Int
  BY DEF Blocks, BlockModes
<1>2. HomeRecord(b) \in Index
  BY IndexFacts DEF HomeRecord
<1>3. ~G10Error(b) => G10Select(b) \in 0 .. (N_COORDINATE_SYSTEM - 1)
  BY <1>1, GcodeAssumption DEF G10Error, G10Select
<1>4. ~NonModalError(b) => Recalled(b) \subseteq Index
  BY <1>2, <1>3, IndexFacts DEF NonModalError, Recalled
<1> QED
  BY <1>1, <1>2, <1>3, <1>4 DEF Selected

LEMMA BlockCoordSystemType ==
  ASSUME TypeOK, NEW b \in Blocks
  PROVE  BlockCoordSystem(b) \in Vectors
<1>1. b.modal.coord_select \in Index
  BY IndexFacts, RecordFacts DEF TypeOK
<1> QED
  BY <1>1 DEF BlockCoordSystem, TypeOK

LEMMA TargetType ==
  ASSUME TypeOK, NEW b \in Blocks
  PROVE  Target(b) \in Vectors
<1>1. ASSUME NEW a \in Axes
      PROVE  /\ Value(b, a) \in Int /\ ToolLength(a) \in Int /\ position[a] \in Int
             /\ coord_offset[a] \in Int /\ BlockCoordSystem(b)[a] \in Int
  BY ValueType, ToolLengthType, BlockCoordSystemType DEF TypeOK, Vectors
<1> QED
  BY <1>1 DEF Target, Vectors

LEMMA HomeTargetType ==
  ASSUME TypeOK, NEW b \in Blocks
  PROVE  HomeTarget(b) \in Vectors
<1>1. coord_data[HomeRecord(b)] \in Vectors
  BY RecordFacts DEF TypeOK
<1> QED
  BY <1>1 DEF TypeOK, HomeTarget, Vectors

LEMMA G10DataType ==
  ASSUME TypeOK, NEW b \in Blocks, G10Select(b) \in Index
  PROVE  G10Data(b) \in Vectors
<1>1. ASSUME NEW a \in Axes
      PROVE  /\ Value(b, a) \in Int /\ ToolLength(a) \in Int /\ position[a] \in Int
             /\ coord_offset[a] \in Int /\ coord_data[G10Select(b)][a] \in Int
  BY ValueType, ToolLengthType DEF TypeOK, Vectors
<1>2. b.l \in Int
  BY DEF Blocks
<1> QED
  BY <1>1, <1>2 DEF G10Data, Vectors

LEMMA OffsetType ==
  ASSUME TypeOK, NEW b \in Blocks
  PROVE  OffsetAfter(b) \in Vectors
<1>1. ASSUME NEW a \in Axes
      PROVE  /\ Value(b, a) \in Int /\ ToolLength(a) \in Int /\ position[a] \in Int
             /\ coord_offset[a] \in Int /\ BlockCoordSystem(b)[a] \in Int
  BY ValueType, ToolLengthType, BlockCoordSystemType DEF TypeOK, Vectors
<1>2. G92Offset(b) \in Vectors
  BY <1>1 DEF G92Offset, Vectors
<1> QED
  BY <1>2, ZeroVector DEF OffsetAfter, TypeOK

\* A block that goes to a predefined position does not move otherwise.
LEMMA HomesOrMoves ==
  ASSUME NEW b \in Blocks,
         b.non_modal_command \in {10, 28, 30, 92} => b.axis_command = "non_modal"
  PROVE  ~(Homes(b) /\ Moves(b))
BY DEF Homes, Moves, Remaining, AxisCommand

LEMMA PlannedType ==
  ASSUME TypeOK, NEW b \in Blocks, NEW outcome,
         b.non_modal_command \in {10, 28, 30, 92} => b.axis_command = "non_modal"
  PROVE  PlannedAfter(b, outcome) \in Vectors
<1>1. Target(b) \in Vectors /\ HomeTarget(b) \in Vectors
  BY TargetType, HomeTargetType
<1>2. Contact(b) \in Vectors
  <2>1. ASSUME NEW a \in Axes
        PROVE  position[a] \in Int /\ Target(b)[a] \in Int
    BY <1>1 DEF TypeOK, Vectors
  <2>2. \A x, y \in Int : (x + y) \div 2 \in Int
    OBVIOUS
  <2> QED
    BY <2>1, <2>2 DEF Contact, Vectors
<1> QED
  BY <1>1, <1>2, HomesOrMoves DEF PlannedAfter, TypeOK

LEMMA PositionType ==
  ASSUME TypeOK, NEW b \in Blocks, NEW outcome,
         b.non_modal_command \in {10, 28, 30, 92} => b.axis_command = "non_modal"
  PROVE  PositionAfter(b, outcome) \in Vectors
BY TargetType, HomeTargetType, PlannedType, HomesOrMoves DEF PositionAfter, TypeOK

LEMMA FeedType ==
  ASSUME TypeOK, NEW b \in Blocks
  PROVE  Feed(b) \in {"none", "mm", "inch", "inverse"}
<1>1. b.modal.feed_rate \in {93, 94} /\ modal.feed_rate \in {93, 94}
  BY DEF Blocks, BlockModes, TypeOK, Modes
<1>2. feed_rate \in {"none", "mm", "inch", "inverse"}
  BY DEF TypeOK
<1> QED
  BY <1>1, <1>2 DEF Feed, IsJog

LEMMA ModalAfterType ==
  ASSUME NEW b \in Blocks
  PROVE  /\ ModalAfter(b) \in Modes
         /\ ModalAfter(b).coord_select = IF EndsProgram(b) THEN 0 ELSE b.modal.coord_select
         /\ ModalAfter(b).spindle = IF EndsProgram(b) THEN 5 ELSE b.modal.spindle
         /\ ModalAfter(b).coolant = IF EndsProgram(b) THEN {} ELSE b.modal.coolant
<1>1. b.modal \in BlockModes
  BY DEF Blocks
<1>2. CASE EndsProgram(b)
  <2> DEFINE m1 == [b.modal EXCEPT !.motion = 1]
             m2 == [m1 EXCEPT !.plane_select = 17]
             m3 == [m2 EXCEPT !.distance = 90]
             m4 == [m3 EXCEPT !.feed_rate = 94]
             m5 == [m4 EXCEPT !.coord_select = 0]
             m6 == [m5 EXCEPT !.coolant = {}]
             m7 == [m6 EXCEPT !.spindle = 5]
             m8 == [m7 EXCEPT !.program_flow = 0]
  <2>0. ModalAfter(b) = m8
    BY <1>2 DEF ModalAfter
  <2>1. m1 \in BlockModes
    BY <1>1 DEF BlockModes, MotionCommands
  <2> HIDE DEF m1
  <2>2. m2 \in BlockModes
    BY <2>1 DEF BlockModes
  <2> HIDE DEF m2
  <2>3. m3 \in BlockModes
    BY <2>2 DEF BlockModes
  <2> HIDE DEF m3
  <2>4. m4 \in BlockModes
    BY <2>3 DEF BlockModes
  <2> HIDE DEF m4
  <2>5. m5 \in BlockModes /\ m5.coord_select = 0
    BY <2>4, IndexFacts DEF BlockModes
  <2> HIDE DEF m5
  <2>6. m6 \in BlockModes /\ m6.coord_select = 0 /\ m6.coolant = {}
    BY <2>5 DEF BlockModes
  <2> HIDE DEF m6
  <2>7. m7 \in BlockModes /\ m7.coord_select = 0 /\ m7.coolant = {} /\ m7.spindle = 5
    BY <2>6 DEF BlockModes
  <2> HIDE DEF m7
  <2>8. m8 \in Modes /\ m8.coord_select = 0 /\ m8.coolant = {} /\ m8.spindle = 5
    BY <2>7 DEF BlockModes, Modes
  <2> HIDE DEF m8
  <2> QED
    BY <1>2, <2>0, <2>8
<1>3. CASE ~EndsProgram(b)
  <2>1. ModalAfter(b) = [b.modal EXCEPT !.program_flow = 0]
    BY <1>3 DEF ModalAfter
  <2> QED
    BY <1>1, <1>3, <2>1 DEF BlockModes, Modes
<1> QED
  BY <1>2, <1>3
-----------------------------------------------------------------------------
\* The end of a line.

\* A refused line zeroes a record that could not be read, and so none that is in
\* use.
LEMMA RefuseStep == IInv /\ Refuse => IInv'
<1> SUFFICES ASSUME IInv, Refuse PROVE IInv'
  OBVIOUS
<1> DEFINE b == gc_block
<1>1. b \in Blocks /\ modal \in Modes
  BY DEF Refuse, Complete, IInv, BlockTypes, TypeOK
<1>2. UNCHANGED <<stateVars, pinVars, planned, check_mode>> /\ Dump
  BY DEF Refuse
<1> HIDE DEF b
<1>3. Spoilt(b) \subseteq Index /\ Spoilt(b) \cap intact = {}
  BY <1>1, RecordFacts, IndexFacts DEF Spoilt
<1>4. /\ coord_data' = [i \in Index |-> IF i \in Spoilt(b) THEN Zero ELSE coord_data[i]]
      /\ intact' = intact \cup Spoilt(b)
  BY DEF Refuse, b
<1>5. coord_data' \in [Index -> Vectors] /\ intact' \subseteq Index
  BY <1>3, <1>4, ZeroVector DEF IInv, TypeOK
<1>6. modal.coord_select \in Index \ Spoilt(b)
  BY <1>1, <1>3, IndexFacts DEF IInv, Readable, Modes
<1>7. coord_data'[modal.coord_select] = coord_data[modal.coord_select]
  BY <1>4, <1>6
<1>8. OffsetsStored'
  BY <1>2, <1>7 DEF IInv, OffsetsStored, stateVars, offsetVars
<1> QED
  BY <1>2, <1>4, <1>5, <1>8
     DEF IInv, TypeOK, BlockTypes, BlockAgrees, Readable, OutputsFollowModes,
         PositionPlanned, Dump, stateVars, offsetVars, pinVars

\* The record of the coordinate system that a line leaves active, after the line
\* has written what it writes.
LEMMA StoredAfter ==
  ASSUME IInv, NEW b \in Blocks, Valid(b), NEW c \in 0 .. (N_COORDINATE_SYSTEM - 1)
  PROVE  DataAfter(b)[c] = IF b.non_modal_command = 10 /\ G10Select(b) = c
                           THEN G10Data(b) ELSE coord_data[c]
<1>1. c \in Index /\ c # SETTING_INDEX_G28 /\ c # SETTING_INDEX_G30
  BY IndexFacts
<1>2. coord_data \in [Index -> Vectors]
  BY DEF IInv, TypeOK
<1> QED
  BY <1>1, <1>2 DEF DataAfter

LEMMA ExecuteStep == IInv /\ Execute => IInv'
<1> SUFFICES ASSUME IInv, Execute PROVE IInv'
  OBVIOUS
<1> DEFINE b == gc_block
<1>1. b \in Blocks /\ TypeOK /\ Valid(b) /\ Dump
  BY DEF Execute, Complete, IInv, BlockTypes
<1>2. PICK outcome \in Outcomes(b) :
        position' = PositionAfter(b, outcome) /\ planned' = PlannedAfter(b, outcome)
  BY DEF Execute
<1>3. /\ b.modal.coord_select # modal.coord_select => 9 \in b.command_words
      /\ b.non_modal_command \in {10, 28, 30, 92} => b.axis_command = "non_modal"
  BY DEF Execute, Complete, IInv, BlockAgrees
<1>4. /\ feed_rate' = Feed(b) /\ spindle_speed' = Speed(b)
      /\ tool_length_offset' = ToolLengthAfter(b) /\ coord_offset' = OffsetAfter(b)
      /\ coord_data' = DataAfter(b) /\ intact' = intact \cup Written(b)
      /\ modal' = ModalAfter(b) /\ check_mode' = check_mode
      /\ IF EndsProgram(b) /\ ~check_mode
         THEN spindle' = SpindleOff /\ coolant' = {} /\ coord_system' = coord_data'[0]
         ELSE /\ spindle' = SpindleAfter(b) /\ coolant' = CoolantAfter(b)
              /\ coord_system' = SystemAfter(b)
  BY DEF Execute
<1> HIDE DEF b
<1>5. /\ Selected(b) \subseteq intact /\ Recalled(b) \subseteq intact
      /\ b.non_modal_command = 10 => G10Select(b) \in 0 .. (N_COORDINATE_SYSTEM - 1)
  BY <1>1, RecordFacts DEF Valid, NonModalError, TypeOK
<1>6. /\ b.modal.coord_select \in 0 .. (N_COORDINATE_SYSTEM - 1)
      /\ b.modal.coord_select # modal.coord_select => Selected(b) = {b.modal.coord_select}
  BY <1>1, <1>3, RecordFacts DEF Selected, TypeOK
<1>7. /\ modal' \in Modes
      /\ modal'.coord_select = IF EndsProgram(b) THEN 0 ELSE b.modal.coord_select
      /\ modal'.spindle = IF EndsProgram(b) THEN 5 ELSE b.modal.spindle
      /\ modal'.coolant = IF EndsProgram(b) THEN {} ELSE b.modal.coolant
  BY <1>1, <1>4, ModalAfterType
<1>8. coord_data' \in [Index -> Vectors] /\ intact' \subseteq Index
  <2>1. b.non_modal_command = 10 => G10Data(b) \in Vectors
    BY <1>1, <1>5, G10DataType, IndexFacts
  <2>2. DataAfter(b) \in [Index -> Vectors]
    BY <1>1, <2>1 DEF DataAfter, TypeOK
  <2>3. Written(b) \subseteq Index
    BY <1>5, IndexFacts DEF Written
  <2> QED
    BY <1>1, <1>4, <2>2, <2>3 DEF TypeOK
<1>9. SystemAfter(b) \in Vectors
  BY <1>1, <1>5, G10DataType, BlockCoordSystemType, IndexFacts DEF SystemAfter, TypeOK
<1>10. TypeOK'
  <2>1. spindle_speed' \in Int
    BY <1>1, <1>4 DEF Speed, TypeOK, Blocks
  <2>2. feed_rate' \in {"none", "mm", "inch", "inverse"}
    BY <1>1, <1>4, FeedType
  <2>3. position' \in Vectors /\ planned' \in Vectors
    BY <1>1, <1>2, <1>3, PositionType, PlannedType
  <2>4. coord_system' \in Vectors
    BY <1>4, <1>8, <1>9, IndexFacts
  <2>5. coord_offset' \in Vectors
    BY <1>1, <1>4, OffsetType
  <2>6. tool_length_offset' \in Int
    BY <1>1, <1>4, ValueType DEF ToolLengthAfter, TypeOK, Axes
  <2>7. check_mode' \in BOOLEAN
    BY <1>1, <1>4 DEF TypeOK
  <2> QED
    BY <1>7, <1>8, <2>1, <2>2, <2>3, <2>4, <2>5, <2>6, <2>7 DEF TypeOK
<1>11. BlockTypes' /\ BlockAgrees'
  BY <1>1 DEF Dump, BlockTypes, BlockAgrees
<1>12. Readable'
  BY <1>4, <1>5, <1>6, <1>7 DEF IInv, Readable
<1>13. OffsetsStored'
  <2> SUFFICES ASSUME ~check_mode PROVE coord_system' = coord_data'[modal'.coord_select]
    BY <1>4 DEF OffsetsStored
  <2>1. CASE EndsProgram(b)
    BY <1>4, <1>7, <2>1
  <2>2. CASE ~EndsProgram(b)
    <3>1. coord_data'[b.modal.coord_select] =
            IF b.non_modal_command = 10 /\ G10Select(b) = b.modal.coord_select
            THEN G10Data(b) ELSE coord_data[b.modal.coord_select]
      BY <1>1, <1>4, <1>6, StoredAfter
    <3>2. coord_system = coord_data[modal.coord_select]
      BY DEF IInv, OffsetsStored
    <3>3. b.modal.coord_select # modal.coord_select
            => BlockCoordSystem(b) = coord_data[b.modal.coord_select]
      BY <1>6 DEF BlockCoordSystem
    <3> QED
      BY <1>4, <1>7, <2>2, <3>1, <3>2, <3>3 DEF SystemAfter
  <2> QED
    BY <2>1, <2>2
<1>14. OutputsFollowModes'
  <2> SUFFICES ASSUME ~check_mode
               PROVE  /\ spindle' = SpindlePins(modal'.spindle, spindle_speed')
                      /\ coolant' = modal'.coolant
    BY <1>4 DEF OutputsFollowModes
  <2>1. CASE EndsProgram(b)
    BY <1>4, <1>7, <2>1 DEF SpindlePins
  <2>2. CASE ~EndsProgram(b)
    <3>1. spindle = SpindlePins(modal.spindle, spindle_speed) /\ coolant = modal.coolant
      BY DEF IInv, OutputsFollowModes
    <3> QED
      BY <1>4, <1>7, <2>2, <3>1 DEF SpindleAfter, CoolantAfter
  <2> QED
    BY <2>1, <2>2
<1>15. PositionPlanned'
  <2>1. ~check_mode => position = planned
    BY DEF IInv, PositionPlanned
  <2>2. ~check_mode => PositionAfter(b, outcome) = PlannedAfter(b, outcome)
    BY <1>1, <1>3, <2>1, HomesOrMoves DEF PositionAfter, PlannedAfter
  <2> QED
    BY <1>2, <1>4, <2>2 DEF PositionPlanned
<1> QED
  BY <1>10, <1>11, <1>12, <1>13, <1>14, <1>15 DEF IInv

LEMMA ExecuteJogStep == IInv /\ ExecuteJog => IInv'
<1> SUFFICES ASSUME IInv, ExecuteJog PROVE IInv'
  OBVIOUS
<1>1. gc_block \in Blocks /\ TypeOK
  BY DEF ExecuteJog, Complete, IInv, BlockTypes
<1>2. position' \in Vectors /\ planned' \in Vectors /\ position' = planned'
  BY <1>1, TargetType DEF ExecuteJog
<1> QED
  BY <1>2 DEF ExecuteJog, IInv, TypeOK, BlockTypes, BlockAgrees, Readable, OffsetsStored,
              OutputsFollowModes, PositionPlanned, Dump, offsetVars, storeVars, pinVars
-----------------------------------------------------------------------------
\* Between two lines.

LEMMA BeginStep ==
  ASSUME IInv, NEW kind \in {"g-code", "jog"}, BeginLine(kind)
  PROVE  IInv'
<1>1. UNCHANGED <<stateVars, storeVars, pinVars, planned, check_mode>>
      /\ line' = kind /\ gc_block' = NewBlock(kind = "jog")
  BY DEF BeginLine
<1>2. modal \in Modes
  BY DEF IInv, TypeOK
<1> DEFINE mode == IF kind = "jog" THEN [modal EXCEPT !.motion = 1, !.feed_rate = 94] ELSE modal
<1>3. mode \in BlockModes /\ mode.coord_select = modal.coord_select
  <2>1. modal \in BlockModes
    BY <1>2 DEF Modes, BlockModes
  <2>2. CASE kind = "jog"
    <3> DEFINE linear == [modal EXCEPT !.motion = 1]
    <3>1. linear \in BlockModes /\ linear.coord_select = modal.coord_select
      BY <2>1 DEF BlockModes, MotionCommands
    <3>2. mode = [linear EXCEPT !.feed_rate = 94]
      BY <2>2
    <3> HIDE DEF linear, mode
    <3> QED
      BY <3>1, <3>2 DEF BlockModes
  <2>3. CASE kind # "jog"
    BY <2>1, <2>3
  <2> QED
    BY <2>2, <2>3
<1>4. /\ gc_block' \in Blocks /\ gc_block'.modal = mode
      /\ gc_block'.non_modal_command = 0
  BY <1>1, <1>3, ZeroVector DEF NewBlock, Blocks
<1> HIDE DEF mode
<1>5. modal' = modal
  BY <1>1 DEF stateVars
<1>6. BlockTypes' /\ BlockAgrees'
  BY <1>1, <1>3, <1>4, <1>5 DEF BlockTypes, BlockAgrees
<1> QED
  BY <1>1, <1>6, ParseIInv

LEMMA RestartStep ==
  ASSUME IInv, Restart, coord_data' \in [Index -> Vectors],
         intact' \subseteq Index, 0 \in intact'
  PROVE  IInv'
<1>1. modal' \in Modes /\ modal'.coord_select = 0 /\ modal'.spindle = 5 /\ modal'.coolant = {}
  BY IndexFacts DEF Restart, DefaultModal, Modes, MotionCommands
<1>2. coord_system' = coord_data'[0] /\ coord_system' \in Vectors
  BY IndexFacts DEF Restart
<1>3. position' \in Vectors /\ planned' \in Vectors /\ coord_offset' \in Vectors
      /\ position' = planned'
  BY ZeroVector DEF Restart, IInv, TypeOK
<1>4. spindle_speed' \in Int /\ tool_length_offset' \in Int
  BY DEF Restart
<1>5. feed_rate' \in {"none", "mm", "inch", "inverse"}
  BY DEF Restart
<1>6. check_mode' \in BOOLEAN
  BY DEF Restart
<1>7. TypeOK'
  BY <1>1, <1>2, <1>3, <1>4, <1>5, <1>6 DEF TypeOK
<1>8. BlockTypes' /\ BlockAgrees'
  BY DEF Restart, IInv, BlockTypes, BlockAgrees
<1>9. Readable' /\ OffsetsStored' /\ PositionPlanned'
  BY <1>1, <1>2, <1>3 DEF Readable, OffsetsStored, PositionPlanned
<1>10. OutputsFollowModes'
  BY <1>1 DEF Restart, OutputsFollowModes, SpindlePins
<1> QED
  BY <1>7, <1>8, <1>9, <1>10 DEF IInv

LEMMA StepIInv == IInv /\ [Next]_vars => IInv'
<1> SUFFICES ASSUME IInv, [Next]_vars PROVE IInv'
  OBVIOUS
<1>1. CASE BeginLine("g-code") \/ BeginLine("jog")
  BY <1>1, BeginStep
<1>2. CASE ParseWord
  BY <1>2, WordStep DEF ParseWord
<1>3. CASE Refuse
  BY <1>3, RefuseStep
<1>4. CASE Execute
  BY <1>4, ExecuteStep
<1>5. CASE ExecuteJog
  BY <1>5, ExecuteJogStep
<1>6. CASE Reset
  BY <1>6, RestartStep DEF Reset, storeVars, IInv, TypeOK, Readable
<1>7. CASE EnterCheckMode
  <2>1. check_mode' = TRUE /\ UNCHANGED <<stateVars, storeVars, pinVars, planned, line, gc_block>>
    BY <1>7 DEF EnterCheckMode
  <2> QED
    BY <2>1 DEF IInv, TypeOK, BlockTypes, BlockAgrees, Readable, OffsetsStored,
                OutputsFollowModes, PositionPlanned, stateVars, offsetVars, storeVars, pinVars
<1>8. CASE RestoreParameters
  <2>1. coord_data' = [i \in Index |-> Zero] /\ intact' = Index /\ Restart
    BY <1>8 DEF RestoreParameters
  <2> QED
    BY <2>1, RestartStep, ZeroVector, IndexFacts
<1>9. CASE UNCHANGED vars
  BY <1>9 DEF IInv, TypeOK, BlockTypes, BlockAgrees, Readable, OffsetsStored,
              OutputsFollowModes, PositionPlanned, vars, stateVars, offsetVars, storeVars,
              pinVars
<1> QED
  BY <1>1, <1>2, <1>3, <1>4, <1>5, <1>6, <1>7, <1>8, <1>9 DEF Next

\* The inductive invariant of the parser.
THEOREM Invariance == Spec => []IInv
BY InitIInv, StepIInv, PTL DEF Spec

\* Type correctness: the modes stay within their groups whatever words come
\* (gcode.c:109-352).
THEOREM TypeCorrect == Spec => []TypeOK
<1>1. IInv => TypeOK
  BY DEF IInv
<1> QED
  BY <1>1, Invariance, PTL

\* The coordinate system in use is the stored one of the active number
\* (gcode.c:573-632, 1058-1082, 1183).
THEOREM OffsetsSafety == Spec => []OffsetsStored
<1>1. IInv => OffsetsStored
  BY DEF IInv
<1> QED
  BY <1>1, Invariance, PTL

\* The pins of spindle and coolant agree with the modes
\* (gcode.c:984, 1005, 1015, 1165-1186).
THEOREM OutputsSafety == Spec => []OutputsFollowModes
<1>1. IInv => OutputsFollowModes
  BY DEF IInv
<1> QED
  BY <1>1, Invariance, PTL

\* The parser stands where the planner will have brought the machine
\* (gcode.c:933, 1089, 1132-1139).
THEOREM PositionSafety == Spec => []PositionPlanned
<1>1. IInv => PositionPlanned
  BY DEF IInv
<1> QED
  BY <1>1, Invariance, PTL
-----------------------------------------------------------------------------
\* Where a line leaves the axes it names.

\* The values of a block are numbers.
LEMMA CoordinateTypes ==
  ASSUME TypeOK, NEW b \in Blocks, NEW a \in Axes
  PROVE  /\ Value(b, a) \in Int /\ ToolLength(a) \in Int /\ position[a] \in Int
         /\ coord_system[a] \in Int /\ coord_offset[a] \in Int
         /\ BlockCoordSystem(b)[a] \in Int
BY ValueType, ToolLengthType, BlockCoordSystemType DEF TypeOK, Vectors

\* The axis words are the motion's or those of G10 or G92, never the tool
\* length's, and a line other than G10 leaves the coordinate system active in
\* which its coordinates were converted.
LEMMA PositionSetBy ==
  ASSUME NEW b \in Blocks, SetsPosition(b),
         b.modal.coord_select # modal.coord_select => 9 \in b.command_words,
         b.non_modal_command \in {10, 28, 30, 92} => b.axis_command = "non_modal"
  PROVE  /\ ToolLengthAfter(b) = tool_length_offset
         /\ ~Homes(b)
         /\ b.non_modal_command # 10 => SystemAfter(b) = BlockCoordSystem(b)
         /\ b.non_modal_command \in {10, 92} => ~Moves(b)
         /\ b.non_modal_command \notin {10, 92} =>
              /\ Moves(b) /\ ~Probes(b) /\ b.modal.distance = 90
              /\ b.non_modal_command \notin {53, 102}
<1>1. b.non_modal_command \in {10, 92} \/ Moves(b)
  BY DEF SetsPosition
<1>2. Moves(b) => AxisCommand(b) = "motion"
  BY DEF Moves, Remaining
<1>3. b.non_modal_command \in {10, 28, 30, 92} => AxisCommand(b) = "non_modal"
  BY DEF AxisCommand
<1>4. AxisCommand(b) # "tool_length" /\ ~Homes(b)
  BY <1>1, <1>2, <1>3 DEF Homes
<1>5. b.non_modal_command \in {10, 92} => ~Moves(b)
  BY <1>2, <1>3
<1>6. b.non_modal_command # 10 => SystemAfter(b) = BlockCoordSystem(b)
  BY DEF SystemAfter, BlockCoordSystem, Selected
<1>7. b.non_modal_command \notin {10, 92} =>
        /\ Moves(b) /\ ~Probes(b) /\ b.modal.distance = 90
        /\ b.non_modal_command \notin {53, 102}
  BY DEF SetsPosition
<1> QED
  BY <1>4, <1>5, <1>6, <1>7 DEF ToolLengthAfter

\* An absolute motion computes its target in the coordinates the block selects.
LEMMA TargetReads ==
  ASSUME TypeOK, NEW b \in Blocks, NEW a \in b.axis_words, b.modal.distance = 90,
         b.non_modal_command # 53
  PROVE  Target(b)[a] - BlockCoordSystem(b)[a] - coord_offset[a] - ToolLength(a) = Value(b, a)
<1>1. a \in Axes
  BY DEF Blocks
<1>2. Target(b)[a] = Value(b, a) + (BlockCoordSystem(b)[a] + coord_offset[a] + ToolLength(a))
  BY <1>1 DEF Target
<1> QED
  BY <1>1, <1>2, CoordinateTypes

LEMMA ExecuteReads ==
  ASSUME IInv, Execute, SetsPosition(gc_block), ~EndsProgram(gc_block),
         NEW a \in gc_block.axis_words
  PROVE  WorkPosition(a)' = Value(gc_block, a)
<1> DEFINE b == gc_block
<1>1. b \in Blocks /\ TypeOK /\ a \in Axes
  BY DEF Execute, Complete, IInv, BlockTypes, Blocks
<1>2. PICK outcome \in Outcomes(b) : position' = PositionAfter(b, outcome)
  BY DEF Execute
<1>3. /\ b.modal.coord_select # modal.coord_select => 9 \in b.command_words
      /\ b.non_modal_command \in {10, 28, 30, 92} => b.axis_command = "non_modal"
  BY DEF Execute, Complete, IInv, BlockAgrees
<1>4. /\ tool_length_offset' = ToolLengthAfter(b) /\ coord_offset' = OffsetAfter(b)
      /\ coord_system' = SystemAfter(b) /\ SetsPosition(b)
  BY DEF Execute
<1>5. WorkPosition(a)' = position'[a] - coord_system'[a] - coord_offset'[a] - ToolLength(a)'
  BY DEF WorkPosition
<1> HIDE DEF b
<1>6. /\ tool_length_offset' = tool_length_offset /\ ~Homes(b)
      /\ b.non_modal_command # 10 => SystemAfter(b) = BlockCoordSystem(b)
      /\ b.non_modal_command \in {10, 92} => ~Moves(b)
      /\ b.non_modal_command \notin {10, 92} =>
           /\ Moves(b) /\ ~Probes(b) /\ b.modal.distance = 90
           /\ b.non_modal_command \notin {53, 102}
  BY <1>1, <1>3, <1>4, PositionSetBy
<1>7. ToolLength(a)' = ToolLength(a)
  BY <1>6 DEF ToolLength
<1>8. /\ Value(b, a) \in Int /\ ToolLength(a) \in Int /\ position[a] \in Int
      /\ coord_system[a] \in Int /\ coord_offset[a] \in Int /\ BlockCoordSystem(b)[a] \in Int
  BY <1>1, CoordinateTypes
<1>9. CASE b.non_modal_command = 92
  <2>1. position' = position /\ coord_system' = BlockCoordSystem(b)
    BY <1>2, <1>4, <1>6, <1>9 DEF PositionAfter
  <2>2. coord_offset'[a] = position[a] - BlockCoordSystem(b)[a] - Value(b, a) - ToolLength(a)
    BY <1>1, <1>4, <1>9 DEF OffsetAfter, G92Offset, b
  <2> QED
    BY <1>5, <1>7, <1>8, <2>1, <2>2 DEF b
<1>10. CASE b.non_modal_command = 10
  <2>1. b.l = 20 /\ G10Select(b) = b.modal.coord_select
    BY <1>4, <1>6, <1>10 DEF SetsPosition
  <2>2. position' = position /\ coord_offset' = coord_offset
    BY <1>2, <1>4, <1>6, <1>10 DEF PositionAfter, OffsetAfter
  <2>3. coord_system'[a] = position[a] - coord_offset[a] - Value(b, a) - ToolLength(a)
    BY <1>1, <1>4, <1>10, <2>1 DEF SystemAfter, G10Data, b
  <2> QED
    BY <1>5, <1>7, <1>8, <2>2, <2>3 DEF b
<1>11. CASE b.non_modal_command \notin {10, 92}
  <2>1. outcome = "done"
    BY <1>2, <1>6, <1>11 DEF Outcomes
  <2>2. position' = Target(b) /\ coord_offset' = coord_offset
        /\ coord_system' = BlockCoordSystem(b)
    BY <1>2, <1>4, <1>6, <1>11, <2>1 DEF PositionAfter, OffsetAfter
  <2>3. Target(b)[a] - BlockCoordSystem(b)[a] - coord_offset[a] - ToolLength(a) = Value(b, a)
    BY <1>1, <1>6, <1>11, TargetReads DEF b
  <2> QED
    BY <1>5, <1>7, <2>2, <2>3 DEF b
<1> QED
  BY <1>9, <1>10, <1>11

\* A jog has no command that selects a coordinate system.
LEMMA JogReads ==
  ASSUME IInv, ExecuteJog, SetsPosition(gc_block), NEW a \in gc_block.axis_words
  PROVE  WorkPosition(a)' = Value(gc_block, a)
<1> DEFINE b == gc_block
<1>1. b \in Blocks /\ TypeOK
  BY DEF ExecuteJog, Complete, IInv, BlockTypes
<1>2. /\ b.modal.coord_select # modal.coord_select => 9 \in b.command_words
      /\ b.non_modal_command \in {10, 28, 30, 92} => b.axis_command = "non_modal"
  BY DEF ExecuteJog, Complete, IInv, BlockAgrees
<1>3. b.command_words \subseteq {0, 3, 6} /\ b.non_modal_command \in {0, 53}
  BY DEF ExecuteJog, Valid, LateError, IsJog, JogError
<1>4. position' = Target(b) /\ UNCHANGED <<coord_system, coord_offset, tool_length_offset>>
      /\ SetsPosition(b)
  BY DEF ExecuteJog, offsetVars
<1>5. WorkPosition(a)' = position'[a] - coord_system'[a] - coord_offset'[a] - ToolLength(a)'
  BY DEF WorkPosition
<1>6. ToolLength(a)' = ToolLength(a)
  BY <1>4 DEF ToolLength
<1> HIDE DEF b
<1>7. b.modal.distance = 90 /\ b.non_modal_command # 53
  BY <1>1, <1>2, <1>3, <1>4, PositionSetBy
<1>8. BlockCoordSystem(b) = coord_system
  BY <1>3 DEF BlockCoordSystem, Selected
<1>9. Target(b)[a] - BlockCoordSystem(b)[a] - coord_offset[a] - ToolLength(a) = Value(b, a)
  BY <1>1, <1>7, TargetReads DEF b
<1> QED
  BY <1>4, <1>5, <1>6, <1>8, <1>9 DEF b

\* An axis that a line sets or moves to a work position reads what the line
\* said, whatever units, coordinate systems and tool lengths the line changes
\* besides (gcode.c:615-673).
THEOREM WorkPositionSafety == Spec => WorkPositionAsProgrammed
<1>1. IInv /\ [Next]_vars =>
        [(Execute \/ ExecuteJog) /\ SetsPosition(gc_block) /\ ~EndsProgram(gc_block)
           => \A a \in gc_block.axis_words : WorkPosition(a)' = Value(gc_block, a)]_vars
  BY ExecuteReads, JogReads
<1> QED
  BY <1>1, Invariance, PTL DEF Spec, WorkPositionAsProgrammed
=============================================================================
