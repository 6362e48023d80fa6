----------------------------- MODULE RtSuspend -----------------------------
(***************************************************************************)
(* protocol_exec_rt_suspend (protocol.c): the loop the main program stays  *)
(* in while a suspend flag is up.  It waits for the hold to complete, then *)
(* de-energises for a safety door or for sleep and restores for a resume,  *)
(* or runs the spindle stop override of a feed hold.  Parking motions and  *)
(* laser mode are off in this build.                                       *)
(***************************************************************************)
EXTENDS RtSystem

\* spindle_set_state and coolant_set_state do nothing once aborted.
SetOutput(old, new) == IF abort THEN old ELSE new

\* One pass of the loop ends with protocol_exec_rt_system.
NextPass == CallRealtime("suspend", ret)

\* The condition to restore: that of the block being held, with the coolant
\* as it is now, or the parser's when there is no block.
SuspendEnter ==
  /\ At("suspend_enter")
  /\ restore' = IF plan = <<>> THEN modal
                ELSE [spindle |-> Head(plan).spindle, coolant |-> coolant]
  /\ Goto("suspend")
  /\ UNCHANGED <<sysVars, flagVars, motionVars, spindle, coolant, modal,
                 boundVars, historyVars>>

SuspendExit ==
  /\ At("suspend")
  /\ suspend = {} \/ abort
  /\ past' = IF "RESTORE_CYCLE" \in spindle_stop_ovr THEN past
                                                     ELSE past \ {"REPEATED"}
  /\ Goto(ret)
  /\ UNCHANGED <<sysVars, flagVars, motionVars, outputVars, boundVars,
                 user_start, rt_user_start>>

Suspended == At("suspend") /\ suspend # {} /\ ~abort

Held == Suspended /\ "HOLD_COMPLETE" \in suspend

SuspendWait ==
  /\ Suspended
  /\ "HOLD_COMPLETE" \notin suspend
  /\ NextPass
  /\ UNCHANGED <<sysVars, flagVars, motionVars, outputVars, boundVars,
                 historyVars>>

-----------------------------------------------------------------------------
\* The parking manager: safety door and sleep.

SuspendRetract ==
  /\ Held
  /\ state \in {"SAFETY_DOOR", "SLEEP"}
  /\ "RETRACT_COMPLETE" \notin suspend
  /\ spindle_stop_ovr' = {}
  /\ spindle' = FALSE
  /\ coolant' = FALSE
  /\ suspend' = (suspend \ {"RESTART_RETRACT"}) \cup {"RETRACT_COMPLETE"}
  /\ NextPass
  /\ UNCHANGED <<state, step_control, soft_limit, abort, flagVars, motionVars,
                 modal, restore, boundVars, historyVars>>

\* Asleep: everything off, and nothing but a reset is served.
SuspendSleep ==
  /\ Held
  /\ state = "SLEEP"
  /\ "RETRACT_COMPLETE" \in suspend
  /\ spindle' = FALSE
  /\ coolant' = FALSE
  /\ stepping' = FALSE
  /\ CallRealtime("sleep", ret)
  /\ UNCHANGED <<sysVars, flagVars, plan, segs, probe_state, isr_copy, modal,
                 restore, boundVars, historyVars>>

SleepLoop ==
  /\ At("sleep")
  /\ IF abort THEN Goto(ret) ELSE CallRealtime("sleep", ret)
  /\ UNCHANGED <<sysVars, flagVars, motionVars, outputVars, boundVars,
                 historyVars>>

\* The door has no pin in this build, so it reads as closed at once.
SuspendDoor ==
  /\ Held
  /\ state = "SAFETY_DOOR"
  /\ "RETRACT_COMPLETE" \in suspend
  /\ suspend' = suspend \ {"SAFETY_DOOR_AJAR"}
  /\ \/ /\ "INITIATE_RESTORE" \in suspend
        /\ past' = IF "RESTORE_COMPLETE" \in suspend THEN past \cup {"REPEATED"}
                                                      ELSE past
        /\ Goto("restore_spindle")
     \/ /\ "INITIATE_RESTORE" \notin suspend
        /\ NextPass
        /\ UNCHANGED past
  /\ UNCHANGED <<state, step_control, spindle_stop_ovr, soft_limit, abort,
                 flagVars, motionVars, outputVars, boundVars, user_start,
                 rt_user_start>>

\* Blocked once the door has been re-opened during the restore.
Restoring == "RESTART_RETRACT" \notin suspend

RestoreSpindle ==
  /\ At("restore_spindle")
  /\ IF modal.spindle /\ Restoring
     THEN /\ spindle' = SetOutput(spindle, restore.spindle)
          /\ Goto("spindle_delay")
     ELSE /\ UNCHANGED spindle
          /\ Goto("restore_coolant")
  /\ UNCHANGED <<sysVars, flagVars, motionVars, coolant, modal, restore,
                 boundVars, historyVars>>

RestoreCoolant ==
  /\ At("restore_coolant")
  /\ IF modal.coolant /\ Restoring
     THEN /\ coolant' = SetOutput(coolant, restore.coolant)
          /\ Goto("coolant_delay")
     ELSE /\ UNCHANGED coolant
          /\ Goto("restore_done")
  /\ UNCHANGED <<sysVars, flagVars, motionVars, spindle, modal, restore,
                 boundVars, historyVars>>

\* delay_sec in DELAY_MODE_SYS_SUSPEND serves realtime commands until its
\* count runs out, an abort, or the door's re-opening.
DelayStep ==
  /\ At("spindle_delay") \/ At("coolant_delay")
  /\ ~abort /\ Restoring
  /\ CallRealtime(pc, ret)
  /\ UNCHANGED <<sysVars, flagVars, motionVars, outputVars, boundVars,
                 historyVars>>

DelayEnd ==
  /\ \/ At("spindle_delay") /\ Goto("restore_coolant")
     \/ At("coolant_delay") /\ Goto("restore_done")
  /\ UNCHANGED <<sysVars, flagVars, motionVars, outputVars, boundVars,
                 historyVars>>

\* The start raised after what `flag' asked for is as much the user's as the
\* one that raised the flag, and relays that one once.
Relay(flag) ==
  /\ SetExec({"CYCLE_START"})
  /\ user_start' = (user_start \/ flag \in past)
  /\ past' = past \ {flag}

\* Restored: a cycle start is raised to resume the program.
RestoreDone ==
  /\ At("restore_done")
  /\ \/ /\ Restoring
        /\ suspend' = suspend \cup {"RESTORE_COMPLETE"}
        /\ Relay("INITIATE_RESTORE")
     \/ /\ ~Restoring
        /\ UNCHANGED <<suspend, flagVars, user_start, past>>
  /\ NextPass
  /\ UNCHANGED <<state, step_control, spindle_stop_ovr, soft_limit, abort,
                 motionVars, outputVars, boundVars, rt_user_start>>

-----------------------------------------------------------------------------
\* The feed hold manager: the spindle stop override.

FeedHeld == Held /\ state \notin {"SAFETY_DOOR", "SLEEP"}

SpindleStopInitiate ==
  /\ FeedHeld
  /\ "INITIATE" \in spindle_stop_ovr
  /\ spindle' = (spindle /\ ~modal.spindle)
  /\ spindle_stop_ovr' = IF modal.spindle THEN {"ENABLED"} ELSE {}
  /\ NextPass
  /\ UNCHANGED <<state, suspend, step_control, soft_limit, abort, flagVars,
                 motionVars, coolant, modal, restore, boundVars, historyVars>>

SpindleStopRestore ==
  /\ FeedHeld
  /\ "INITIATE" \notin spindle_stop_ovr
  /\ spindle_stop_ovr \cap {"RESTORE", "RESTORE_CYCLE"} # {}
  /\ spindle' = IF modal.spindle THEN restore.spindle ELSE spindle
  /\ \/ /\ "RESTORE_CYCLE" \in spindle_stop_ovr
        /\ Relay("RESTORE_CYCLE")
     \/ /\ "RESTORE_CYCLE" \notin spindle_stop_ovr
        /\ UNCHANGED <<flagVars, user_start, past>>
  /\ spindle_stop_ovr' = {}
  /\ NextPass
  /\ UNCHANGED <<state, suspend, step_control, soft_limit, abort, motionVars,
                 coolant, modal, restore, boundVars, rt_user_start>>

SuspendIdle ==
  /\ FeedHeld
  /\ spindle_stop_ovr \cap {"INITIATE", "RESTORE", "RESTORE_CYCLE"} = {}
  /\ NextPass
  /\ UNCHANGED <<sysVars, flagVars, motionVars, outputVars, boundVars,
                 historyVars>>

ExecRtSuspend ==
  \/ SuspendEnter \/ SuspendExit \/ SuspendWait
  \/ SuspendRetract \/ SuspendSleep \/ SleepLoop \/ SuspendDoor
  \/ RestoreSpindle \/ RestoreCoolant \/ DelayStep \/ DelayEnd \/ RestoreDone
  \/ SpindleStopInitiate \/ SpindleStopRestore \/ SuspendIdle
=============================================================================
