------------------------------ MODULE RtSystem ------------------------------
(***************************************************************************)
(* protocol_exec_rt_system (protocol.c), the realtime state machine the    *)
(* main program runs at its check points.  It works on a snapshot of the   *)
(* flags the interrupts set, one stage after the other; interrupts happen  *)
(* between its stages, between the snapshot and the moment a handled flag  *)
(* is cleared among others.                                                *)
(***************************************************************************)
EXTENDS Interrupts

HoldFlags == {"MOTION_CANCEL", "FEED_HOLD", "SAFETY_DOOR", "SLEEP"}

\* The main program runs only when no interrupt does.
At(place) == pc = place /\ isr_copy = NoCopy

\* The stage that follows the snapshot `flags', the hold stage, and the start
\* stage.
StageAfterStart(flags) ==
  IF "CYCLE_STOP" \in flags THEN "rt_stop" ELSE "rt_over"
StageAfterHold(flags) ==
  IF "CYCLE_START" \in flags THEN "rt_start" ELSE StageAfterStart(flags)
StageAfterSnapshot(flags) ==
  IF flags \cap HoldFlags # {} THEN "rt_hold" ELSE StageAfterHold(flags)

\* Dropping handled flags from sys_rt_exec_state.
ClearExec(flags) ==
  /\ exec_state' = exec_state \ flags
  /\ user_start' = (user_start /\ "CYCLE_START" \notin flags)
  /\ UNCHANGED <<exec_alarm, exec_accessory, rt_exec>>

-----------------------------------------------------------------------------
\* Alarms.

RtNoAlarm ==
  /\ At("rt_alarm")
  /\ exec_alarm = "NONE"
  /\ Goto("rt_snap")
  /\ UNCHANGED <<sysVars, flagVars, motionVars, outputVars, boundVars,
                 historyVars>>

\* The alarm state is entered; a soft limit drops any pending reset and waits
\* for a new one, any other alarm is just reported.
RtAlarm ==
  /\ At("rt_alarm")
  /\ exec_alarm # "NONE"
  /\ state' = "ALARM"
  /\ \/ /\ exec_alarm = "SOFT_LIMIT"
        /\ exec_state' = exec_state \ {"RESET"}
        /\ Goto("rt_critical")
        /\ UNCHANGED exec_alarm
     \/ /\ exec_alarm # "SOFT_LIMIT"
        /\ exec_alarm' = "NONE"
        /\ Goto("rt_snap")
        /\ UNCHANGED exec_state
  /\ UNCHANGED <<suspend, step_control, spindle_stop_ovr, soft_limit, abort,
                 exec_accessory, rt_exec, motionVars, outputVars, boundVars,
                 historyVars>>

\* The critical event loop ends when a reset comes.
RtCritical ==
  /\ At("rt_critical")
  /\ "RESET" \in exec_state
  /\ exec_alarm' = "NONE"
  /\ Goto("rt_snap")
  /\ UNCHANGED <<sysVars, exec_state, exec_accessory, rt_exec, motionVars,
                 outputVars, boundVars, historyVars>>

\* The critical event loop spins.
RtCriticalWait ==
  /\ At("rt_critical")
  /\ "RESET" \notin exec_state
  /\ UNCHANGED vars

\* The snapshot; a reset in it ends everything at once.
RtSnap ==
  /\ At("rt_snap")
  /\ rt_exec' = exec_state
  /\ rt_user_start' = user_start
  /\ abort' = (abort \/ "RESET" \in exec_state)
  /\ Goto(IF "RESET" \in exec_state THEN AfterRealtime(suspend)
                                    ELSE StageAfterSnapshot(exec_state))
  /\ UNCHANGED <<state, suspend, step_control, spindle_stop_ovr, soft_limit,
                 exec_state, exec_alarm, exec_accessory, motionVars,
                 outputVars, boundVars, user_start, past>>

-----------------------------------------------------------------------------
\* Holds: motion cancel, feed hold, safety door, sleep.

\* Mutant: only a jog is decelerated.
HoldBegins_JogOnly ==
  /\ state = "JOG"
  /\ suspend \cap {"MOTION_CANCEL", "JOG_CANCEL"} = {}

\* A hold in motion starts the deceleration, unless a cancel already did.
HoldBegins ==
  /\ state \in {"CYCLE", "JOG"}
  /\ suspend \cap {"MOTION_CANCEL", "JOG_CANCEL"} = {}

\* Mutant: the hold of a running cycle is taken for complete at once.
HoldSuspend_AtOnce ==
  IF state \in {"IDLE", "CYCLE"} THEN {"HOLD_COMPLETE"} ELSE suspend

\* The suspend flags after the state check of a hold and a motion cancel.
HoldSuspend ==
  LET held == CASE HoldBegins /\ state = "JOG" /\ "SLEEP" \notin rt_exec
                     -> suspend \cup {"JOG_CANCEL"}
                [] state = "IDLE" -> {"HOLD_COMPLETE"}
                [] OTHER -> suspend
  IN  IF "MOTION_CANCEL" \in rt_exec /\ state # "JOG"
      THEN held \cup {"MOTION_CANCEL"} ELSE held

HoldState ==
  IF "FEED_HOLD" \in rt_exec /\ state \notin {"SAFETY_DOOR", "JOG", "SLEEP"}
  THEN "HOLD" ELSE state

\* An open door restarts the retract of a restore under way.
DoorSuspend ==
  IF "SAFETY_DOOR" \notin rt_exec THEN HoldSuspend
  ELSE {"SAFETY_DOOR_AJAR"} \cup
       (IF /\ "JOG_CANCEL" \notin HoldSuspend
           /\ HoldState = "SAFETY_DOOR"
           /\ "INITIATE_RESTORE" \in HoldSuspend
        THEN (HoldSuspend \ {"RETRACT_COMPLETE", "INITIATE_RESTORE",
                             "RESTORE_COMPLETE"}) \cup {"RESTART_RETRACT"}
        ELSE HoldSuspend)

DoorState ==
  IF /\ "SAFETY_DOOR" \in rt_exec
     /\ "JOG_CANCEL" \notin HoldSuspend
     /\ HoldState # "SLEEP"
  THEN "SAFETY_DOOR" ELSE HoldState

\* Mutant: an alarm does not keep a hold out.
HoldAllowed_Alarm == state # "CHECK_MODE"

\* Alarm and check mode ignore holds, but not sleep.
HoldAllowed == state \notin {"ALARM", "CHECK_MODE"}

RtHold ==
  /\ At("rt_hold")
  /\ step_control' = IF HoldAllowed /\ HoldBegins THEN {"EXECUTE_HOLD"}
                                                  ELSE step_control
  /\ suspend' = CASE HoldAllowed -> DoorSuspend
                  [] state = "ALARM" /\ "SLEEP" \in rt_exec ->
                       suspend \cup {"RETRACT_COMPLETE", "HOLD_COMPLETE"}
                  [] OTHER -> suspend
  /\ state' = IF "SLEEP" \in rt_exec THEN "SLEEP"
              ELSE IF HoldAllowed THEN DoorState ELSE state
  /\ past' = IF "JOG_CANCEL" \in suspend' THEN past \cup {"CANCELLED"} ELSE past
  /\ ClearExec(HoldFlags)
  /\ Goto(StageAfterHold(rt_exec))
  /\ UNCHANGED <<spindle_stop_ovr, soft_limit, abort, motionVars, outputVars,
                 boundVars, rt_user_start>>

-----------------------------------------------------------------------------
\* Cycle start.

\* Mutant: a hold in the same snapshot does not block the start.
StartBlocked_Never == FALSE

StartBlocked == rt_exec \cap {"FEED_HOLD", "MOTION_CANCEL", "SAFETY_DOOR"} # {}

DoorClosed == state = "SAFETY_DOOR" /\ "SAFETY_DOOR_AJAR" \notin suspend
DoorRestored == DoorClosed /\ "RESTORE_COMPLETE" \in suspend

\* Mutant: a hold may be resumed before it is complete.
StartAllowed_AnyHold == state \in {"IDLE", "HOLD"} \/ DoorRestored

\* A start is acted upon when idle, when the door's restore is complete, and
\* when a hold is complete.
StartAllowed ==
  \/ state = "IDLE"
  \/ DoorRestored
  \/ state = "HOLD" /\ "HOLD_COMPLETE" \in suspend

\* Mutant: the spindle stop override is forgotten.
SpindleStopped == state = "HOLD" /\ spindle_stop_ovr # {}

\* History: the flag a start leaves behind keeps whether it was a user's.
Carry(flag) ==
  past' = IF rt_user_start THEN past \cup {flag} ELSE past \ {flag}

\* The start comes with a hold, or in a state that refuses it; behind a
\* closed door it asks for the restore once the retract is complete.
RtStartIgnored ==
  /\ At("rt_start")
  /\ StartBlocked \/ ~StartAllowed
  /\ IF ~StartBlocked /\ DoorClosed /\ "RETRACT_COMPLETE" \in suspend
     THEN /\ suspend' = suspend \cup {"INITIATE_RESTORE"}
          /\ Carry("INITIATE_RESTORE")
     ELSE UNCHANGED <<suspend, past>>
  /\ ClearExec({"CYCLE_START"})
  /\ Goto(StageAfterStart(rt_exec))
  /\ UNCHANGED <<state, step_control, spindle_stop_ovr, soft_limit, abort,
                 motionVars, outputVars, boundVars, rt_user_start>>

\* The spindle must be restored before the hold is resumed.
RtStartSpindleRestore ==
  /\ At("rt_start")
  /\ ~StartBlocked /\ StartAllowed /\ SpindleStopped
  /\ spindle_stop_ovr' = spindle_stop_ovr \cup {"RESTORE_CYCLE"}
  /\ Carry("RESTORE_CYCLE")
  /\ ClearExec({"CYCLE_START"})
  /\ Goto(StageAfterStart(rt_exec))
  /\ UNCHANGED <<state, suspend, step_control, soft_limit, abort, motionVars,
                 outputVars, boundVars, rt_user_start>>

\* There is a motion to run: the cycle starts ...
RtStartCycle ==
  /\ At("rt_start")
  /\ ~StartBlocked /\ StartAllowed /\ ~SpindleStopped
  /\ plan # <<>> /\ "MOTION_CANCEL" \notin suspend
  /\ step_control' = {}
  /\ suspend' = {}
  /\ state' = "CYCLE"
  /\ Goto("rt_wake")
  /\ UNCHANGED <<spindle_stop_ovr, soft_limit, abort, flagVars, motionVars,
                 outputVars, boundVars, historyVars>>

\* ... the first segments are prepared and the stepper interrupt is enabled.
RtWake ==
  /\ At("rt_wake")
  /\ st_prep_buffer(step_control)
  /\ stepping' = TRUE
  /\ ClearExec({"CYCLE_START"})
  /\ Goto(StageAfterStart(rt_exec))
  /\ UNCHANGED <<state, suspend, spindle_stop_ovr, soft_limit, abort,
                 probe_state, isr_copy, outputVars, boundVars, rt_user_start,
                 past>>

\* There is nothing to run: back to idle.
RtStartIdle ==
  /\ At("rt_start")
  /\ ~StartBlocked /\ StartAllowed /\ ~SpindleStopped
  /\ plan = <<>> \/ "MOTION_CANCEL" \in suspend
  /\ step_control' = {}
  /\ suspend' = {}
  /\ state' = "IDLE"
  /\ ClearExec({"CYCLE_START"})
  /\ Goto(StageAfterStart(rt_exec))
  /\ UNCHANGED <<spindle_stop_ovr, soft_limit, abort, motionVars, outputVars,
                 boundVars, rt_user_start, past>>

-----------------------------------------------------------------------------
\* Cycle stop.

\* Mutant: the end of a cycle is treated as the end of a hold.
StopHolds_Cycle ==
  /\ state \in {"CYCLE", "HOLD", "SAFETY_DOOR", "SLEEP"}
  /\ ~soft_limit
  /\ "JOG_CANCEL" \notin suspend

StopHolds ==
  /\ state \in {"HOLD", "SAFETY_DOOR", "SLEEP"}
  /\ ~soft_limit
  /\ "JOG_CANCEL" \notin suspend

\* A hold has come to rest.
RtStopHold ==
  /\ At("rt_stop")
  /\ StopHolds
  /\ suspend' = IF "EXECUTE_HOLD" \in step_control
                THEN suspend \cup {"HOLD_COMPLETE"} ELSE suspend
  /\ step_control' = step_control \ {"EXECUTE_HOLD", "EXECUTE_SYS_MOTION"}
  /\ ClearExec({"CYCLE_STOP"})
  /\ Goto("rt_over")
  /\ UNCHANGED <<state, spindle_stop_ovr, soft_limit, abort, motionVars,
                 outputVars, boundVars, rt_user_start, past>>

\* Mutant: the planner is reset, the segment buffer is not.
JogFlush_PlanOnly ==
  /\ step_control' = {}
  /\ plan' = <<>>
  /\ UNCHANGED <<segs, stepping>>

\* A cancelled jog flushes the buffers.
JogFlush ==
  /\ step_control' = {}
  /\ ResetBuffers

\* The motion is over.
RtStopMotion ==
  /\ At("rt_stop")
  /\ ~StopHolds
  /\ \/ "JOG_CANCEL" \in suspend /\ JogFlush
     \/ /\ "JOG_CANCEL" \notin suspend
        /\ UNCHANGED <<step_control, plan, segs, stepping>>
  /\ \/ /\ "SAFETY_DOOR_AJAR" \in suspend
        /\ suspend' = (suspend \ {"JOG_CANCEL"}) \cup {"HOLD_COMPLETE"}
        /\ state' = "SAFETY_DOOR"
     \/ /\ "SAFETY_DOOR_AJAR" \notin suspend
        /\ suspend' = {}
        /\ state' = "IDLE"
  /\ ClearExec({"CYCLE_STOP"})
  /\ Goto("rt_over")
  /\ UNCHANGED <<spindle_stop_ovr, soft_limit, abort, probe_state, isr_copy,
                 outputVars, boundVars, rt_user_start, past>>

-----------------------------------------------------------------------------
\* Overrides, then the step segment buffer is refilled.

MotionStates == {"CYCLE", "HOLD", "SAFETY_DOOR", "HOMING", "SLEEP", "JOG"}

SpindleStopOverride ==
  spindle_stop_ovr' =
    IF "SPINDLE_OVR_STOP" \notin exec_accessory \/ state # "HOLD"
    THEN spindle_stop_ovr
    ELSE CASE spindle_stop_ovr = {} -> {"INITIATE"}
           [] "ENABLED" \in spindle_stop_ovr -> spindle_stop_ovr \cup {"RESTORE"}
           [] OTHER -> spindle_stop_ovr

\* Mutant: the coolant may be toggled while the door is open.
CoolantStates_Door == {"IDLE", "CYCLE", "HOLD", "JOG", "SAFETY_DOOR"}

CoolantStates == {"IDLE", "CYCLE", "HOLD", "JOG"}

\* The toggled state is the parser's; coolant_set_state applies it.
CoolantOverride ==
  IF /\ "COOLANT_FLOOD_OVR_TOGGLE" \in exec_accessory
     /\ state \in CoolantStates
  THEN /\ modal' = [modal EXCEPT !.coolant = ~@]
       /\ coolant' = IF abort THEN coolant ELSE ~modal.coolant
  ELSE UNCHANGED <<modal, coolant>>

RtOver ==
  /\ At("rt_over")
  /\ exec_accessory' = {}
  /\ SpindleStopOverride
  /\ CoolantOverride
  /\ IF state \in MotionStates
     THEN st_prep_buffer(step_control)
     ELSE UNCHANGED <<plan, segs, step_control>>
  /\ Goto(AfterRealtime(suspend))
  /\ UNCHANGED <<state, suspend, soft_limit, abort, exec_state, exec_alarm,
                 rt_exec, stepping, probe_state, isr_copy, spindle, restore,
                 boundVars, historyVars>>

ExecRtSystem ==
  \/ RtNoAlarm \/ RtAlarm \/ RtCritical \/ RtCriticalWait \/ RtSnap
  \/ RtHold
  \/ RtStartIgnored \/ RtStartSpindleRestore \/ RtStartCycle \/ RtWake
  \/ RtStartIdle
  \/ RtStopHold \/ RtStopMotion
  \/ RtOver
=============================================================================
