-------------------------------- MODULE Link --------------------------------
(***************************************************************************)
(* The link between a host that streams lines and the main loop: the rings  *)
(* of Serial, the assembly of lines (protocol_main_loop), the answers, and   *)
(* the realtime commands that are picked off on the way: resets, status      *)
(* reports and Overrides.                                                   *)
(*                                                                         *)
(* The host follows the character counting protocol of config.h: it keeps   *)
(* the lengths of the lines it has no answer to within the receive buffer,  *)
(* and after a reset sends nothing until it is welcomed again.              *)
(***************************************************************************)
EXTENDS Serial, Overrides, Sums

CONSTANTS
  Lines,              \* what the host may send: [chars, text, overflow]
  LINE_BUFFER_SIZE,
  Commands,           \* realtime override commands sent
  MaxLines, MaxResets, MaxRealtime    \* bounds of a run

ASSUME LineAssumption ==
  /\ LINE_BUFFER_SIZE \in Nat \ {0}
  /\ Lines \subseteq [chars : Seq(STRING), text : Seq(STRING), overflow : BOOLEAN]
  /\ \A line \in Lines :
       /\ Len(line.chars) \in 1 .. RX_BUFFER_SIZE
       /\ \A i \in 1 .. Len(line.chars) : line.chars[i] = "nl" <=> i = Len(line.chars)

VARIABLES
  sending,       \* what the host still has to send of a line
  outstanding,   \* lines it has begun to send and has no answer to
  waiting,       \* it waits for the welcome
  word,          \* the last word it received
  lines, resets, requests,    \* sent so far
  exec,          \* RESET and STATUS_REPORT of sys_rt_exec_state
  speed_exec, rapid_exec, spindle_exec,   \* override flags
  rt_exec,       \* those of them that are being executed
  abort,
  f_override, r_override, spindle_speed_ovr,
  line, line_flags,   \* the line being assembled
  out,           \* what serial_write has still to be called with
  pc, ret,       \* the main program, and where realtime execution returns to
  begun, executed   \* lines begun by the host, and executed, since the welcome

hostVars == <<sending, outstanding, waiting, word, lines, resets, requests, begun>>
flagVars == <<speed_exec, rapid_exec, spindle_exec>>
speedVars == <<f_override, r_override, spindle_speed_ovr>>
overrideVars == <<flagVars, rt_exec, speedVars>>
lineVars == <<line, line_flags>>
mainVars == <<abort, lineVars, out, pc, ret, executed>>
vars == <<serialVars, hostVars, exec, overrideVars, mainVars>>

Blanks == {"space"}
Upper(c) == CASE c = "g" -> "G" [] c = "x" -> "X" [] OTHER -> c

Message(text) == <<text, "eol">>

LinkInit ==
  /\ SerialInit
  /\ sending = <<>> /\ outstanding = <<>> /\ waiting = TRUE /\ word = "none"
  /\ lines = 0 /\ resets = 0 /\ requests = 0
  /\ exec = {} /\ speed_exec = {} /\ rapid_exec = {} /\ spindle_exec = {} /\ rt_exec = {}
  /\ abort = FALSE
  /\ f_override = DEFAULT_FEED_OVERRIDE /\ r_override = DEFAULT_RAPID_OVERRIDE
  /\ spindle_speed_ovr = DEFAULT_FEED_OVERRIDE
  /\ line = <<>> /\ line_flags = {}
  /\ out = <<>> /\ pc = "boot" /\ ret = "none"
  /\ begun = <<>> /\ executed = <<>>

-----------------------------------------------------------------------------
\* The host, with the interrupts its characters raise.

Outstanding(n) == Len(outstanding[n].chars)
CharactersOut ==
  Sum([n \in 1 .. Len(outstanding) |-> Outstanding(n)], Len(outstanding))

BeginLine ==
  /\ ~waiting /\ sending = <<>> /\ lines < MaxLines
  /\ \E l \in Lines :
       /\ CharactersOut + Len(l.chars) <= RX_BUFFER_SIZE
       /\ sending' = l.chars
       /\ outstanding' = Append(outstanding, l)
       /\ begun' = Append(begun, l)
  /\ lines' = lines + 1
  /\ UNCHANGED <<serialVars, waiting, word, resets, requests, exec, overrideVars, mainVars>>

\* A character arrives.
Receive ==
  /\ sending # <<>>
  /\ RxStore(Head(sending))
  /\ sending' = Tail(sending)
  /\ UNCHANGED <<txVars, outstanding, waiting, word, lines, resets, requests, begun, exec,
                 overrideVars, mainVars>>

\* CMD_RESET: mc_reset, as far as it goes here.
ReceiveReset ==
  /\ ~waiting /\ resets < MaxResets
  /\ exec' = exec \cup {"RESET"}
  /\ sending' = <<>> /\ outstanding' = <<>> /\ begun' = <<>> /\ waiting' = TRUE
  /\ resets' = resets + 1
  /\ UNCHANGED <<serialVars, word, lines, requests, overrideVars, mainVars>>

ReceiveStatus ==
  /\ requests < MaxRealtime /\ requests' = requests + 1
  /\ exec' = exec \cup {"STATUS_REPORT"}
  /\ UNCHANGED <<serialVars, sending, outstanding, waiting, word, lines, resets, begun,
                 overrideVars, mainVars>>

ReceiveOverride ==
  /\ requests < MaxRealtime /\ requests' = requests + 1
  /\ \E c \in Commands :
       \/ /\ c \in SpeedCommands
          /\ \/ speed_exec' = speed_exec \cup {c} /\ UNCHANGED spindle_exec
             \/ spindle_exec' = spindle_exec \cup {c} /\ UNCHANGED speed_exec
          /\ UNCHANGED rapid_exec
       \/ /\ c \in RapidCommands
          /\ rapid_exec' = rapid_exec \cup {c}
          /\ UNCHANGED <<speed_exec, spindle_exec>>
  /\ UNCHANGED <<serialVars, sending, outstanding, waiting, word, lines, resets, begun, exec,
                 rt_exec, speedVars, mainVars>>

\* A character reaches the host, which counts answers by their ends.
Transmit ==
  /\ TxSend
  /\ word' = IF TxFirst = "eol" THEN "none" ELSE TxFirst
  /\ IF TxFirst # "eol" THEN UNCHANGED <<outstanding, waiting>>
     ELSE /\ waiting' = (waiting /\ word # "Grbl")
          /\ outstanding' =
               IF ~waiting /\ word \in {"ok", "error"} /\ outstanding # <<>>
               THEN Tail(outstanding) ELSE outstanding
  /\ UNCHANGED <<rxVars, sending, lines, resets, requests, begun, exec, overrideVars, mainVars>>

-----------------------------------------------------------------------------
\* The main program.

At(label) == pc = label /\ out = <<>> /\ tx_step = "room"
Quiet == UNCHANGED <<serialVars, hostVars>>

\* main: the flags are cleared, then the receive buffer, then the welcome is
\* written.
Boot ==
  /\ At("boot")
  /\ exec' = {} /\ speed_exec' = {} /\ rapid_exec' = {} /\ spindle_exec' = {}
  /\ abort' = FALSE
  /\ f_override' = DEFAULT_FEED_OVERRIDE /\ r_override' = DEFAULT_RAPID_OVERRIDE
  /\ spindle_speed_ovr' = DEFAULT_FEED_OVERRIDE
  /\ pc' = "flush"
  /\ Quiet /\ UNCHANGED <<rt_exec, lineVars, out, ret, executed>>

Flush ==
  /\ At("flush")
  /\ serial_reset_read_buffer
  /\ line' = <<>> /\ line_flags' = {} /\ executed' = <<>>
  /\ out' = Message("Grbl")
  /\ pc' = "loop"
  /\ UNCHANGED <<txVars, hostVars, exec, overrideVars, abort, ret>>

\* serial_write waits for room, unless a reset is pending: then the character
\* is dropped.
MainOnly == UNCHANGED <<rxVars, hostVars, exec, overrideVars, abort, lineVars, pc, ret, executed>>

WriteRoom ==
  /\ out # <<>> /\ tx_step = "room"
  /\ \/ TxRoom /\ UNCHANGED out
     \/ TxFull /\ "RESET" \in exec /\ out' = Tail(out) /\ UNCHANGED txVars
  /\ MainOnly

WriteStore == tx_step = "store" /\ TxStore(Head(out)) /\ UNCHANGED out /\ MainOnly

WriteAdvance == tx_step = "advance" /\ TxAdvance /\ out' = Tail(out) /\ MainOnly

WriteEnable == tx_step = "enable" /\ TxEnable /\ UNCHANGED out /\ MainOnly

Write == WriteRoom \/ WriteStore \/ WriteAdvance \/ WriteEnable

\* protocol_exec_rt_system: a reset is all it looks at; the status report is
\* written before its flag is cleared; overrides come last.
Call(label) == pc' = "rt" /\ ret' = label

RtReset ==
  /\ At("rt") /\ "RESET" \in exec
  /\ abort' = TRUE
  /\ pc' = ret
  /\ Quiet /\ UNCHANGED <<exec, overrideVars, lineVars, out, ret, executed>>

RtReport ==
  /\ At("rt") /\ "RESET" \notin exec
  /\ out' = IF "STATUS_REPORT" \in exec THEN Message("status") ELSE <<>>
  /\ pc' = IF "STATUS_REPORT" \in exec THEN "rt_clear" ELSE "rt_override"
  /\ Quiet /\ UNCHANGED <<exec, overrideVars, abort, lineVars, ret, executed>>

RtClear ==
  /\ At("rt_clear")
  /\ exec' = exec \ {"STATUS_REPORT"}
  /\ pc' = "rt_override"
  /\ Quiet /\ UNCHANGED <<overrideVars, abort, lineVars, out, ret, executed>>

\* Override flags are read, and cleared after that when there were any: a
\* command that arrives in between is lost.
RtMotion ==
  /\ At("rt_override")
  /\ rt_exec' = speed_exec \cup rapid_exec
  /\ pc' = IF rt_exec' = {} THEN "rt_accessory" ELSE "rt_motion"
  /\ Quiet /\ UNCHANGED <<exec, flagVars, speedVars, abort, lineVars, out, ret, executed>>

RtMotionClear ==
  /\ At("rt_motion")
  /\ speed_exec' = {} /\ rapid_exec' = {}
  /\ f_override' = NewSpeed(rt_exec, f_override)
  /\ r_override' = NewRapid(rt_exec, r_override)
  /\ pc' = "rt_accessory"
  /\ Quiet
  /\ UNCHANGED <<exec, spindle_exec, rt_exec, spindle_speed_ovr, abort, lineVars, out, ret, executed>>

RtAccessory ==
  /\ At("rt_accessory")
  /\ rt_exec' = spindle_exec
  /\ pc' = IF rt_exec' = {} THEN ret ELSE "rt_spindle"
  /\ Quiet /\ UNCHANGED <<exec, flagVars, speedVars, abort, lineVars, out, ret, executed>>

RtAccessoryClear ==
  /\ At("rt_spindle")
  /\ spindle_exec' = {} /\ rt_exec' = {}
  /\ spindle_speed_ovr' = NewSpeed(rt_exec, spindle_speed_ovr)
  /\ pc' = ret
  /\ Quiet
  /\ UNCHANGED <<exec, speed_exec, rapid_exec, f_override, r_override, abort, lineVars, out, ret, executed>>

RtOverride == RtMotion \/ RtMotionClear \/ RtAccessory \/ RtAccessoryClear

\* The loop of protocol_main_loop: a character, or a call of the realtime
\* commands when there is none.
ReadChar ==
  /\ At("loop") /\ ~abort
  /\ IF RxEmpty THEN Call("loop") ELSE pc' = "char" /\ UNCHANGED ret
  /\ Quiet /\ UNCHANGED <<exec, overrideVars, abort, lineVars, out, executed>>

\* Mutant: a comment of one kind is ended like the other.
FlagsAfter_AnyEnd(text, flags, c) ==
  CASE flags # {} /\ c = ")" -> {}
    [] flags = {} /\ c = "(" -> {"PARENTHESES"}
    [] flags = {} /\ c = ";" -> {"SEMICOLON"}
    [] flags = {} /\ c \notin Blanks \cup {"(", ";", "/"}
         /\ Len(text) >= LINE_BUFFER_SIZE - 1 -> {"OVERFLOW"}
    [] OTHER -> flags

\* What a character that does not end the line does to its flags and text.
FlagsAfter(text, flags, c) ==
  CASE flags # {} /\ c = ")" -> flags \ {"PARENTHESES"}
    [] flags = {} /\ c = "(" -> {"PARENTHESES"}
    [] flags = {} /\ c = ";" -> {"SEMICOLON"}
    [] flags = {} /\ c \notin Blanks \cup {"(", ";", "/"}
         /\ Len(text) >= LINE_BUFFER_SIZE - 1 -> {"OVERFLOW"}
    [] OTHER -> flags

\* Mutant: the zero that ends the string has no room.
LineAfter_Full(text, flags, c) ==
  IF \/ flags # {} \/ c \in Blanks \cup {"(", ";", "/"}
     \/ Len(text) >= LINE_BUFFER_SIZE
  THEN text
  ELSE Append(text, Upper(c))

LineAfter(text, flags, c) ==
  IF \/ flags # {} \/ c \in Blanks \cup {"(", ";", "/"}
     \/ Len(text) >= LINE_BUFFER_SIZE - 1
  THEN text
  ELSE Append(text, Upper(c))

\* serial_read gives the slot back, and the loop takes the character.
TakeChar ==
  /\ At("char")
  /\ RxRelease
  /\ IF RxFirst = "nl"
     THEN Call("line") /\ UNCHANGED lineVars
     ELSE /\ line' = LineAfter(line, line_flags, RxFirst)
          /\ line_flags' = FlagsAfter(line, line_flags, RxFirst)
          /\ pc' = "loop" /\ UNCHANGED ret
  /\ UNCHANGED <<txVars, hostVars, exec, overrideVars, abort, out, executed>>

\* While a line is executed the realtime commands may be called any number of
\* times, as when it waits for room in the planner.
DuringLine ==
  /\ At("line") /\ ~abort
  /\ Call("line")
  /\ Quiet /\ UNCHANGED <<exec, overrideVars, abort, lineVars, out, executed>>

NextLine == line' = <<>> /\ line_flags' = {}

\* The line is executed and answered.  One that a reset cut short is answered
\* too, to a host that does not listen; when the reset came before the line was
\* begun, it is not.
ExecuteLine ==
  /\ At("line") /\ ~abort
  /\ \E answer \in {"ok", "error"} :
       /\ "OVERFLOW" \in line_flags => answer = "error"
       /\ "OVERFLOW" \notin line_flags /\ line = <<>> => answer = "ok"
       /\ out' = Message(answer)
  /\ executed' = Append(executed, [text |-> line, overflow |-> "OVERFLOW" \in line_flags])
  /\ NextLine
  /\ pc' = "loop"
  /\ Quiet /\ UNCHANGED <<exec, overrideVars, abort, ret>>

CutLine ==
  /\ At("line") /\ abort
  /\ out' \in {<<>>, Message("ok"), Message("error")}
  /\ pc' = "boot"
  /\ Quiet /\ UNCHANGED <<exec, overrideVars, abort, lineVars, ret, executed>>

Restart ==
  /\ At("loop") /\ abort
  /\ pc' = "boot"
  /\ Quiet /\ UNCHANGED <<exec, overrideVars, abort, lineVars, out, ret, executed>>

\* Everything the main program does but to go on with a line for ever.
MainStep ==
  \/ Boot \/ Flush \/ Write \/ RtReset \/ RtReport \/ RtClear \/ RtOverride
  \/ ReadChar \/ TakeChar \/ ExecuteLine \/ CutLine \/ Restart

HostStep == BeginLine \/ ReceiveReset \/ ReceiveStatus \/ ReceiveOverride

Next == MainStep \/ DuringLine \/ HostStep \/ Receive \/ Transmit

Spec == LinkInit /\ [][Next]_vars

\* The hardware sends and receives what it is given; the main program takes its
\* next step, and ends every line it is executing.
FairSpec ==
  Spec /\ WF_vars(MainStep) /\ SF_vars(ExecuteLine) /\ WF_vars(Receive) /\ WF_vars(Transmit)

-----------------------------------------------------------------------------
\* Properties

TypeOK ==
  /\ rx_head \in 0 .. RX_BUFFER_SIZE /\ rx_tail \in 0 .. RX_BUFFER_SIZE
  /\ tx_head \in 0 .. TX_BUFFER_SIZE /\ tx_tail \in 0 .. TX_BUFFER_SIZE
  /\ udrie \in BOOLEAN /\ overrun \in BOOLEAN /\ abort \in BOOLEAN /\ waiting \in BOOLEAN
  /\ tx_step \in {"room", "store", "advance", "enable"}
  /\ exec \subseteq {"RESET", "STATUS_REPORT"}
  /\ line_flags \subseteq {"OVERFLOW", "PARENTHESES", "SEMICOLON"}
  /\ Len(line) < LINE_BUFFER_SIZE
  /\ speed_exec \subseteq SpeedCommands /\ spindle_exec \subseteq SpeedCommands
  /\ rapid_exec \subseteq RapidCommands

\* The data register empty interrupt has no test for an empty ring: when it
\* drains the ring between the new head and the enabling of the interrupt, the
\* main program turns it on again over nothing, and it sends the whole ring once
\* more (serial.c:98-123).  What the host then takes for answers is stale, and
\* the four properties that follow end there: they speak of what happens until
\* the interrupt has run over an empty ring, and all four are false without
\* this condition.

\* A host that counts characters never overruns the receive buffer: the lines
\* executed are those it sent, whole, in order and cleaned of blanks and
\* comments, whatever realtime commands are sent within them and however often
\* it resets (serial.c:178-200, protocol.c:78-146); as long as the transmit
\* interrupt has not overrun its ring.
LinesIntact ==
  ~waiting /\ ~overrun =>
    /\ Len(executed) <= Len(begun)
    /\ \A i \in 1 .. Len(executed) :
         executed[i] = [text |-> begun[i].text, overflow |-> begun[i].overflow]

Count(sequence, tokens) ==
  Sum([i \in 1 .. Len(sequence) |-> IF sequence[i] \in tokens THEN 1 ELSE 0], Len(sequence))

Answers == {"ok", "error"}

\* What is under way to the host: the word it has begun to receive, the transmit
\* ring, and what is still to be written.
Stream == (IF word = "none" THEN <<>> ELSE <<word>>) \o TxContents \o out

\* A line is being executed.
Realtime == {"rt", "rt_clear", "rt_override", "rt_motion", "rt_accessory", "rt_spindle"}
Busy == pc = "line" \/ (pc \in Realtime /\ ret = "line")

\* Between welcome and reset no answer is lost or given twice: every line
\* without an answer is still being sent, lies in the receive buffer, is being
\* executed, or has an answer under way (protocol.c:110-131), at every step of
\* serial_write and of its interrupt until that has overrun the ring.
LinesAccounted ==
  ~waiting /\ ~overrun =>
    Len(outstanding) =
      Count(sending, {"nl"}) + Count(RxContents, {"nl"})
        + (IF Busy THEN 1 ELSE 0)
        + Count(Stream, Answers)

\* What the transmit ring holds is whole messages, reports among answers, each
\* in one piece, although serial_write gives up on characters in a reset
\* (serial.c:92-99) and the interrupt runs between its steps; until it has
\* overrun the ring.
MessagesWhole ==
  ~waiting /\ ~overrun => \A i \in 1 .. Len(Stream) : Stream[i] = "eol" <=> i % 2 = 0

\* No character is left behind in the transmit ring: whatever the order of the
\* enabling in serial_write and the disabling in the interrupt, the ring holds
\* characters only with the interrupt on, or about to be turned on
\* (serial.c:98-123); with no condition.
NoneStranded == tx_head # tx_tail => udrie \/ tx_step = "enable"

\* The host gets an answer to every line, and its welcome after every reset,
\* unless the transmit interrupt overruns its ring first.
HostServed ==
  (waiting \/ outstanding # <<>>) ~> ((~waiting /\ outstanding = <<>>) \/ overrun)

\* "These values define the max and min allowable override values and the
\* coarse and fine increments per command received." (config.h:242-243): no
\* command to slow down makes the machine faster.
SlowerIsSlower ==
  [][pc = "rt_motion" /\ rt_exec \subseteq {"coarse_minus", "fine_minus"}
       => f_override' <= f_override]_vars
=============================================================================
