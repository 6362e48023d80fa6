------------------------------- MODULE MCGrbl -------------------------------
(***************************************************************************)
(* The lines and the realtime inputs the runs of the control core send.    *)
(***************************************************************************)
EXTENDS Grbl

\* A program with accessories and a probing cycle, held, stopped by the door and
\* resumed.
ProgramLines ==
  {"motion", "spindle", "coolant", "pause", "end", "probe"}
ProgramInputs == {"reset", "start", "hold", "door", "spindle_stop", "flood"}

\* Everything but the probing cycle; coolant toggles, which touch nothing the run
\* checks, are left to the program run.
ModeLines  == AllLines \ {"probe"}
ModeInputs == (ProgramInputs \ {"flood"}) \cup {"jog_cancel"}

\* What a cycle and its holds are made of.
ProgressLines  == {"motion", "spindle", "pause", "dwell"}
ProgressInputs == {"reset", "start", "hold", "spindle_stop"}

\* A motion under a spindle, stopped by the door, started, and held as it is
\* about to resume.
DoorLines  == {"spindle", "motion"}
DoorInputs == {"door", "start", "hold"}
=============================================================================
