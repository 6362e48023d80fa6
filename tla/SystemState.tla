---------------------------- MODULE SystemState ----------------------------
(***************************************************************************)
(* The state the firmware's main program and its interrupts share: the    *)
(* `sys' structure and the realtime flags of system.h, the planner and    *)
(* segment buffers, the spindle and coolant outputs, and the place the    *)
(* main program has reached.                                               *)
(*                                                                         *)
(* A planner block is represented by the run of segments the segment      *)
(* generator cuts it into: `plan' is the sequence of segments not yet     *)
(* prepared, `segs' the prepared ones, the first of them being executed.  *)
(***************************************************************************)
EXTENDS Integers, Sequences

CONSTANTS
  BlockBuffer,    \* blocks the planner ring holds       (35 in this build)
  SegmentBuffer,  \* segments the segment ring holds      (9 in this build)
  SegsPerBlock,   \* segments one block is cut into
  LineKinds,      \* the kinds of line the host may send
  RtInputs,       \* the realtime inputs that may arrive
  MaxLines,       \* bound on the lines sent
  MaxInputs       \* bound on the realtime inputs

ASSUME BuffersAssumption ==
  /\ BlockBuffer \in Nat \ {0}
  /\ SegmentBuffer \in Nat \ {0}
  /\ SegsPerBlock \in Nat \ {0}

ASSUME InputsAssumption ==
  /\ MaxLines \in Nat
  /\ MaxInputs \in Nat

-----------------------------------------------------------------------------

States == {"IDLE", "ALARM", "CHECK_MODE", "HOMING", "CYCLE", "HOLD", "JOG",
           "SAFETY_DOOR", "SLEEP"}

SuspendFlags == {"HOLD_COMPLETE", "RESTART_RETRACT", "RETRACT_COMPLETE",
                 "INITIATE_RESTORE", "RESTORE_COMPLETE", "SAFETY_DOOR_AJAR",
                 "MOTION_CANCEL", "JOG_CANCEL"}

\* History: the flags a user's cycle start has left behind for when something is
\* restored; that a door's complete restore is run again; that a jog has been
\* cancelled and none planned since.
PastFlags == {"INITIATE_RESTORE", "RESTORE_CYCLE", "REPEATED", "CANCELLED"}

StepControlFlags == {"END_MOTION", "EXECUTE_HOLD", "EXECUTE_SYS_MOTION"}

SpindleStopFlags == {"ENABLED", "INITIATE", "RESTORE", "RESTORE_CYCLE"}

ExecFlags == {"CYCLE_START", "CYCLE_STOP", "FEED_HOLD", "RESET",
              "SAFETY_DOOR", "MOTION_CANCEL", "SLEEP"}

AccessoryFlags == {"SPINDLE_OVR_STOP", "COOLANT_FLOOD_OVR_TOGGLE"}

Alarms == {"NONE", "SOFT_LIMIT", "ABORT_CYCLE", "PROBE_FAIL_INITIAL",
           "PROBE_FAIL_CONTACT", "HOMING_FAIL_RESET"}

\* The lines the host sends, by what the main program does with them.
GcodeLines  == {"motion", "soft", "spindle", "coolant", "dwell", "pause",
                "end", "probe", "pin_async", "pin_sync"}
SystemLines == {"jog", "unlock", "sleep", "check"}
AllLines    == GcodeLines \cup SystemLines

ASSUME LinesAssumption == LineKinds \subseteq AllLines

\* One segment of a block: the line it came from and the spindle condition
\* the block was planned with.
Segment == [kind : AllLines, spindle : BOOLEAN]

Accessories == [spindle : BOOLEAN, coolant : BOOLEAN]
Off == [spindle |-> FALSE, coolant |-> FALSE]

\* The value of isr_copy outside the probe monitor's read-modify-write.
NoCopy == {"none"}

-----------------------------------------------------------------------------

VARIABLES
  \* the system_t structure
  state, suspend, step_control, spindle_stop_ovr, soft_limit, abort,
  \* the realtime flags, and the copy protocol_exec_rt_system works on
  exec_state, exec_alarm, exec_accessory, rt_exec,
  \* planner, segment buffer, stepper interrupt, probe monitor
  plan, segs, stepping, probe_state, isr_copy,
  \* outputs, the parser's modal state, the condition a suspend restores
  spindle, coolant, modal, restore,
  \* the main program: place, what realtime execution returns to, the line
  pc, via, ret, cmd,
  \* what is left of the bounds on the environment
  lines, inputs,
  \* history: a user's cycle start is among the pending (copied) flags; what
  \* has happened before
  user_start, rt_user_start, past

sysVars    == <<state, suspend, step_control, spindle_stop_ovr, soft_limit,
                abort>>
flagVars   == <<exec_state, exec_alarm, exec_accessory, rt_exec>>
motionVars == <<plan, segs, stepping, probe_state, isr_copy>>
outputVars == <<spindle, coolant, modal, restore>>
controlVars == <<pc, via, ret, cmd>>
boundVars  == <<lines, inputs>>
historyVars == <<user_start, rt_user_start, past>>

vars == <<sysVars, flagVars, motionVars, outputVars, controlVars, boundVars,
          historyVars>>

\* Where protocol_exec_rt_system may be called from other than through
\* protocol_execute_realtime.
NestedCallers == {"suspend", "sleep", "spindle_delay", "coolant_delay"}

\* Places protocol_execute_realtime returns to.
CallerPlaces == {"loop", "loop_end", "line", "mc_line_rt", "mc_line_room",
                 "soft_wait", "sync_test", "synced", "probe_wait",
                 "probe_end", "pin_busy"}

Places ==
  CallerPlaces \cup NestedCallers \cup
  {"init", "mc_line", "soft_reset", "soft_alarm", "sync", "probe", "probe_start",
   "jog_start", "jog_wake",
   "rt_alarm", "rt_critical", "rt_snap", "rt_hold", "rt_start", "rt_wake",
   "rt_stop", "rt_over",
   "suspend_enter", "restore_spindle", "restore_coolant", "restore_done"}

\* TypeOK in two parts: the yes-or-no state, and all the rest.
BooleansOK ==
  /\ soft_limit \in BOOLEAN
  /\ abort \in BOOLEAN
  /\ stepping \in BOOLEAN
  /\ spindle \in BOOLEAN
  /\ coolant \in BOOLEAN
  /\ modal \in Accessories
  /\ restore \in Accessories
  /\ user_start \in BOOLEAN
  /\ rt_user_start \in BOOLEAN

ValuesOK ==
  /\ state \in States
  /\ suspend \in SUBSET SuspendFlags
  /\ step_control \in SUBSET StepControlFlags
  /\ spindle_stop_ovr \in SUBSET SpindleStopFlags
  /\ exec_state \in SUBSET ExecFlags
  /\ exec_alarm \in Alarms
  /\ exec_accessory \in SUBSET AccessoryFlags
  /\ rt_exec \in SUBSET ExecFlags
  /\ plan \in Seq(Segment)
  /\ segs \in Seq(Segment)
  /\ Len(segs) <= SegmentBuffer
  /\ probe_state \in {"OFF", "ACTIVE"}
  /\ isr_copy \in {NoCopy} \cup SUBSET ExecFlags
  /\ pc \in Places
  /\ via \in {"realtime", "direct"} \cup NestedCallers
  /\ ret \in CallerPlaces
  /\ cmd \in AllLines
  /\ lines \in 0 .. MaxLines
  /\ inputs \in 0 .. MaxInputs
  /\ past \in SUBSET PastFlags

TypeOK == BooleansOK /\ ValuesOK

-----------------------------------------------------------------------------

\* main.c before its loop: the machine powers up idle, or locked when homing
\* is enabled.
Init ==
  /\ state \in {"IDLE", "ALARM"}
  /\ suspend = {} /\ step_control = {} /\ spindle_stop_ovr = {}
  /\ soft_limit = FALSE /\ abort = FALSE
  /\ exec_state = {} /\ exec_alarm = "NONE" /\ exec_accessory = {}
  /\ rt_exec = {}
  /\ plan = <<>> /\ segs = <<>> /\ stepping = FALSE
  /\ probe_state = "OFF" /\ isr_copy = NoCopy
  /\ spindle = FALSE /\ coolant = FALSE /\ modal = Off /\ restore = Off
  /\ pc = "init" /\ via = "realtime" /\ ret = "loop" /\ cmd = "motion"
  /\ lines = MaxLines /\ inputs = MaxInputs
  /\ user_start = FALSE /\ rt_user_start = FALSE /\ past = {}

\* Setting flags in sys_rt_exec_state from the main program.
SetExec(flags) ==
  /\ exec_state' = exec_state \cup flags
  /\ UNCHANGED <<exec_alarm, exec_accessory, rt_exec>>

\* protocol_auto_cycle_start
AutoCycleStart ==
  SetExec(IF plan # <<>> THEN {"CYCLE_START"} ELSE {})

\* A call of protocol_execute_realtime (caller = "realtime") or of
\* protocol_exec_rt_system alone, to continue at `place'.
CallRealtime(caller, place) ==
  /\ pc' = "rt_alarm"
  /\ via' = caller
  /\ ret' = place
  /\ UNCHANGED cmd

Goto(place) ==
  /\ pc' = place
  /\ UNCHANGED <<via, ret, cmd>>

\* Where a finished protocol_exec_rt_system goes: protocol_execute_realtime
\* enters the suspend loop when a suspend flag is up.
AfterRealtime(suspended) ==
  CASE via = "realtime" -> IF suspended # {} THEN "suspend_enter" ELSE ret
    [] via = "direct"   -> ret
    [] OTHER            -> via
=============================================================================
