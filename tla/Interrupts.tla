----------------------------- MODULE Interrupts -----------------------------
(***************************************************************************)
(* What reaches the main program from outside at any instant: the realtime *)
(* commands the serial receive interrupt picks off the stream (serial.c),  *)
(* the control pins (system.c), and mc_reset, which both may run           *)
(* (motion_control.c).                                                     *)
(***************************************************************************)
EXTENDS Stepper

\* Mutant: the deceleration of a hold is not a motion.
McResetKills_NotHolding == state \in {"CYCLE", "HOMING", "JOG"}

\* The motion states in which mc_reset force-kills the steppers.
McResetKills ==
  \/ state \in {"CYCLE", "HOMING", "JOG"}
  \/ step_control \cap {"EXECUTE_HOLD", "EXECUTE_SYS_MOTION"} # {}

AbortAlarm ==
  IF state # "HOMING" THEN "ABORT_CYCLE"
  ELSE IF exec_alarm = "NONE" THEN "HOMING_FAIL_RESET" ELSE exec_alarm

\* Nothing is done twice: a reset already pending is left alone.  Otherwise
\* the accessories are stopped and, in a motion state, the steppers killed.
mc_reset ==
  \/ /\ "RESET" \in exec_state
     /\ UNCHANGED <<exec_state, exec_alarm, spindle, coolant, stepping>>
  \/ /\ "RESET" \notin exec_state
     /\ exec_state' = exec_state \cup {"RESET"}
     /\ spindle' = FALSE
     /\ coolant' = FALSE
     /\ exec_alarm' = IF McResetKills THEN AbortAlarm ELSE exec_alarm
     /\ stepping' = (stepping /\ ~McResetKills)

-----------------------------------------------------------------------------

\* Setting realtime flags at interrupt level.
Raise(flags) ==
  /\ exec_state' = exec_state \cup flags
  /\ UNCHANGED <<exec_alarm, exec_accessory, spindle, coolant, stepping, user_start>>

CmdReset ==
  /\ mc_reset
  /\ UNCHANGED <<exec_accessory, user_start>>

CmdCycleStart ==
  /\ exec_state' = exec_state \cup {"CYCLE_START"}
  /\ user_start' = TRUE
  /\ UNCHANGED <<exec_alarm, exec_accessory, spindle, coolant, stepping>>

CmdFeedHold   == Raise({"FEED_HOLD"})
CmdSafetyDoor == Raise({"SAFETY_DOOR"})
CmdJogCancel  == Raise(IF state = "JOG" THEN {"MOTION_CANCEL"} ELSE {})

CmdAccessory(flag) ==
  /\ exec_accessory' = exec_accessory \cup {flag}
  /\ UNCHANGED <<exec_state, exec_alarm, spindle, coolant, stepping, user_start>>

\* A realtime command, from the host or from a control pin.
RtCommand(c) ==
  /\ inputs > 0
  /\ inputs' = inputs - 1
  /\ \/ c = "reset"        /\ CmdReset
     \/ c = "start"        /\ CmdCycleStart
     \/ c = "hold"         /\ CmdFeedHold
     \/ c = "door"         /\ CmdSafetyDoor
     \/ c = "jog_cancel"   /\ CmdJogCancel
     \/ c = "spindle_stop" /\ CmdAccessory("SPINDLE_OVR_STOP")
     \/ c = "flood"        /\ CmdAccessory("COOLANT_FLOOD_OVR_TOGGLE")
  /\ UNCHANGED <<sysVars, rt_exec, plan, segs, probe_state, isr_copy, modal,
                 restore, controlVars, lines, rt_user_start, past>>
=============================================================================
