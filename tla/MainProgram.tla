---------------------------- MODULE MainProgram ----------------------------
(***************************************************************************)
(* The main program: main.c's initialisation loop, protocol_main_loop, the *)
(* lines it executes (system_execute_line, gc_execute_line step 4) and     *)
(* what they wait in: mc_line with its soft limit check, the buffer        *)
(* synchronisation, dwell, the probing cycle, the jog, and the pin waits.  *)
(***************************************************************************)
EXTENDS RtSuspend

Realtime(place) == CallRealtime("realtime", place)

\* Steps that only move the main program.
OnlyControl == UNCHANGED <<sysVars, flagVars, motionVars, outputVars,
                           boundVars, historyVars>>

-----------------------------------------------------------------------------
\* main.c: (re-)initialisation, and the entry of the main loop.

Boot ==
  /\ At("init")
  /\ state' = IF state \in {"ALARM", "SLEEP"} THEN "ALARM" ELSE "IDLE"
  /\ suspend' = {} /\ step_control' = {} /\ spindle_stop_ovr' = {}
  /\ soft_limit' = FALSE /\ abort' = FALSE
  /\ exec_state' = {} /\ exec_alarm' = "NONE" /\ exec_accessory' = {}
  /\ ResetBuffers
  /\ probe_state' = "OFF"
  /\ spindle' = FALSE /\ coolant' = FALSE /\ modal' = Off
  /\ user_start' = FALSE
  /\ past' = {}
  /\ Goto("loop")
  /\ UNCHANGED <<rt_exec, isr_copy, restore, boundVars, rt_user_start>>

\* No line to read: start what is buffered, then serve realtime commands.
LoopIdle ==
  /\ At("loop")
  /\ AutoCycleStart
  /\ Realtime("loop_end")
  /\ UNCHANGED <<sysVars, motionVars, outputVars, boundVars, historyVars>>

LoopEnd ==
  /\ At("loop_end")
  /\ Goto(IF abort THEN "init" ELSE "loop")
  /\ OnlyControl

\* A line is complete; realtime commands are served before it is executed.
ReadLine(k) ==
  /\ At("loop")
  /\ lines > 0
  /\ lines' = lines - 1
  /\ pc' = "rt_alarm" /\ via' = "realtime" /\ ret' = "line" /\ cmd' = k
  /\ UNCHANGED <<sysVars, flagVars, motionVars, outputVars, inputs,
                 historyVars>>

-----------------------------------------------------------------------------
\* Executing a line.

LineAbort ==
  /\ At("line")
  /\ abort
  /\ Goto("init")
  /\ OnlyControl

Line(kinds) == At("line") /\ ~abort /\ cmd \in kinds

\* G-code is locked in alarm and jog, a jog out of idle and jog, sleep out of
\* idle and alarm, check mode out of idle and check mode.
LineRefused ==
  /\ Line(AllLines)
  /\ state \in CASE cmd \in GcodeLines -> {"ALARM", "JOG"}
                 [] cmd = "jog"        -> States \ {"IDLE", "JOG"}
                 [] cmd = "unlock"     -> States \ {"ALARM"}
                 [] cmd = "sleep"      -> States \ {"IDLE", "ALARM"}
                 [] cmd = "check"      -> States \ {"IDLE", "CHECK_MODE"}
  /\ Goto("loop")
  /\ OnlyControl

Gcode(kinds) == Line(kinds) /\ state \notin {"ALARM", "JOG"}

LineMotion ==
  /\ \/ Gcode({"motion", "soft"})
     \/ Line({"jog"}) /\ state \in {"IDLE", "JOG"}
  /\ Goto("mc_line")
  /\ OnlyControl

\* What waits for the buffered motions first; check mode skips the wait of
\* all but the program flow and the pin waits.
LineSync ==
  /\ Gcode({"spindle", "coolant", "dwell", "probe", "pause", "end", "pin_sync"})
  /\ state # "CHECK_MODE" \/ cmd \in {"pause", "end", "pin_sync"}
  /\ Goto("sync")
  /\ OnlyControl

LineUnsynced ==
  /\ Gcode({"spindle", "coolant", "dwell", "probe"})
  /\ state = "CHECK_MODE"
  /\ modal' = [spindle |-> modal.spindle # (cmd = "spindle"),
               coolant |-> modal.coolant # (cmd = "coolant")]
  /\ Goto("loop")
  /\ UNCHANGED <<sysVars, flagVars, motionVars, spindle, coolant, restore,
                 boundVars, historyVars>>

\* M226 serves realtime commands once, then waits for the pin.
LinePinAsync ==
  /\ Gcode({"pin_async"})
  /\ Realtime("pin_busy")
  /\ OnlyControl

LineUnlock ==
  /\ Line({"unlock"})
  /\ state = "ALARM"
  /\ state' = "IDLE"
  /\ Goto("loop")
  /\ UNCHANGED <<suspend, step_control, spindle_stop_ovr, soft_limit, abort,
                 flagVars, motionVars, outputVars, boundVars, historyVars>>

LineSleep ==
  /\ Line({"sleep"})
  /\ state \in {"IDLE", "ALARM"}
  /\ SetExec({"SLEEP"})
  /\ Goto("loop")
  /\ UNCHANGED <<sysVars, motionVars, outputVars, boundVars, historyVars>>

LineCheckOn ==
  /\ Line({"check"})
  /\ state = "IDLE"
  /\ state' = "CHECK_MODE"
  /\ Goto("loop")
  /\ UNCHANGED <<suspend, step_control, spindle_stop_ovr, soft_limit, abort,
                 flagVars, motionVars, outputVars, boundVars, historyVars>>

LineCheckOff ==
  /\ Line({"check"})
  /\ state = "CHECK_MODE"
  /\ mc_reset
  /\ Goto("loop")
  /\ UNCHANGED <<sysVars, exec_accessory, rt_exec, plan, segs, probe_state,
                 isr_copy, modal, restore, boundVars, historyVars>>

ExecuteLine ==
  \/ LineAbort \/ LineRefused \/ LineMotion \/ LineSync \/ LineUnsynced
  \/ LinePinAsync \/ LineUnlock \/ LineSleep \/ LineCheckOn \/ LineCheckOff

-----------------------------------------------------------------------------
\* mc_line.

\* Where mc_line returns to.
McLineReturn == CASE cmd = "jog"   -> "jog_start"
                  [] cmd = "probe" -> "probe_start"
                  [] OTHER         -> "loop"

\* limits_soft_check: the target is out of the work space.  A running cycle
\* is first brought to a halt.
SoftCheck ==
  /\ At("mc_line")
  /\ cmd = "soft" /\ state # "JOG"
  /\ soft_limit' = TRUE
  /\ \/ /\ state = "CYCLE"
        /\ SetExec({"FEED_HOLD"})
        /\ Realtime("soft_wait")
     \/ /\ state # "CYCLE"
        /\ Goto("soft_reset")
        /\ UNCHANGED flagVars
  /\ UNCHANGED <<state, suspend, step_control, spindle_stop_ovr, abort,
                 motionVars, outputVars, boundVars, historyVars>>

SoftWait ==
  /\ At("soft_wait")
  /\ CASE abort                     -> Goto("mc_line_rt")
       [] ~abort /\ state # "IDLE"  -> Realtime("soft_wait")
       [] OTHER                     -> Goto("soft_reset")
  /\ OnlyControl

SoftReset ==
  /\ At("soft_reset")
  /\ mc_reset
  /\ Goto("soft_alarm")
  /\ UNCHANGED <<sysVars, exec_accessory, rt_exec, plan, segs, probe_state,
                 isr_copy, modal, restore, boundVars, historyVars>>

SoftAlarm ==
  /\ At("soft_alarm")
  /\ exec_alarm' = "SOFT_LIMIT"
  /\ Realtime("mc_line_rt")
  /\ UNCHANGED <<sysVars, exec_state, exec_accessory, rt_exec, motionVars,
                 outputVars, boundVars, historyVars>>

\* Check mode plans nothing; otherwise realtime commands are served before
\* the buffer is looked at.
McLine ==
  /\ \/ At("mc_line") /\ ~(cmd = "soft" /\ state # "JOG")
     \/ At("mc_line_rt")
  /\ IF state = "CHECK_MODE" THEN Goto(McLineReturn)
                             ELSE Realtime("mc_line_room")
  /\ OnlyControl

McLineAbort ==
  /\ At("mc_line_room")
  /\ abort
  /\ Goto(McLineReturn)
  /\ OnlyControl

McLineFull ==
  /\ At("mc_line_room")
  /\ ~abort
  /\ plan_check_full_buffer
  /\ AutoCycleStart
  /\ Realtime("mc_line_room")
  /\ UNCHANGED <<sysVars, motionVars, outputVars, boundVars, historyVars>>

\* plan_buffer_line; a target that is the present position adds no block (the
\* parser refuses such a probe).
McLinePlan ==
  /\ At("mc_line_room")
  /\ ~abort
  /\ ~plan_check_full_buffer
  /\ \/ /\ plan' = plan \o NewBlock(cmd)
        /\ past' = IF cmd = "jog" THEN past \ {"CANCELLED"} ELSE past
     \/ cmd # "probe" /\ UNCHANGED <<plan, past>>
  /\ Goto(McLineReturn)
  /\ UNCHANGED <<sysVars, flagVars, segs, stepping, probe_state, isr_copy,
                 outputVars, boundVars, user_start, rt_user_start>>

ExecuteMcLine ==
  \/ SoftCheck \/ SoftWait \/ SoftReset \/ SoftAlarm
  \/ McLine \/ McLineAbort \/ McLineFull \/ McLinePlan

-----------------------------------------------------------------------------
\* jog_execute after its mc_line: the jog is started by hand.

JogStart ==
  /\ At("jog_start")
  /\ \/ /\ state = "IDLE" /\ plan # <<>>
        /\ state' = "JOG"
        /\ Goto("jog_wake")
     \/ /\ state # "IDLE" \/ plan = <<>>
        /\ Goto("loop")
        /\ UNCHANGED state
  /\ UNCHANGED <<suspend, step_control, spindle_stop_ovr, soft_limit, abort,
                 flagVars, motionVars, outputVars, boundVars, historyVars>>

JogWake ==
  /\ At("jog_wake")
  /\ st_prep_buffer(step_control)
  /\ stepping' = TRUE
  /\ Goto("loop")
  /\ UNCHANGED <<state, suspend, spindle_stop_ovr, soft_limit, abort, flagVars,
                 probe_state, isr_copy, outputVars, boundVars, historyVars>>

-----------------------------------------------------------------------------
\* protocol_buffer_synchronize, and what its callers do after it.

Sync ==
  /\ At("sync")
  /\ AutoCycleStart
  /\ Realtime("sync_test")
  /\ UNCHANGED <<sysVars, motionVars, outputVars, boundVars, historyVars>>

\* Mutant: an abort does not end the wait.
SyncTest_NoAbort ==
  /\ At("sync_test")
  /\ IF plan # <<>> \/ state = "CYCLE"
     THEN Realtime("sync_test")
     ELSE Goto("synced")
  /\ OnlyControl

SyncTest ==
  /\ At("sync_test")
  /\ IF ~abort /\ (plan # <<>> \/ state = "CYCLE")
     THEN Realtime("sync_test")
     ELSE Goto("synced")
  /\ OnlyControl

Synced(kinds) == At("synced") /\ cmd \in kinds

SyncedSpindle ==
  /\ Synced({"spindle"})
  /\ spindle' = SetOutput(spindle, ~modal.spindle)
  /\ modal' = [modal EXCEPT !.spindle = ~@]
  /\ Goto("loop")
  /\ UNCHANGED <<sysVars, flagVars, motionVars, coolant, restore, boundVars,
                 historyVars>>

SyncedCoolant ==
  /\ Synced({"coolant"})
  /\ coolant' = SetOutput(coolant, ~modal.coolant)
  /\ modal' = [modal EXCEPT !.coolant = ~@]
  /\ Goto("loop")
  /\ UNCHANGED <<sysVars, flagVars, motionVars, spindle, restore, boundVars,
                 historyVars>>

\* delay_sec in DELAY_MODE_DWELL.
DwellStep ==
  /\ Synced({"dwell"})
  /\ ~abort
  /\ Realtime("synced")
  /\ OnlyControl

DwellEnd ==
  /\ Synced({"dwell"})
  /\ Goto("loop")
  /\ OnlyControl

\* M0: a program pause is a feed hold.
SyncedPause ==
  /\ Synced({"pause"})
  /\ IF state = "CHECK_MODE"
     THEN Goto("loop") /\ UNCHANGED flagVars
     ELSE Realtime("loop") /\ SetExec({"FEED_HOLD"})
  /\ UNCHANGED <<sysVars, motionVars, outputVars, boundVars, historyVars>>

\* M2, M30.
SyncedEnd ==
  /\ Synced({"end"})
  /\ modal' = Off
  /\ IF state = "CHECK_MODE"
     THEN UNCHANGED <<spindle, coolant>>
     ELSE /\ spindle' = SetOutput(spindle, FALSE)
          /\ coolant' = SetOutput(coolant, FALSE)
  /\ Goto("loop")
  /\ UNCHANGED <<sysVars, flagVars, motionVars, restore, boundVars,
                 historyVars>>

\* M227 serves realtime commands once more, then waits for the pin.
SyncedPin ==
  /\ Synced({"pin_sync"})
  /\ Realtime("pin_busy")
  /\ OnlyControl

\* The pin has the awaited value: protocol_exec_rt_system is called directly.
PinReached ==
  /\ At("pin_busy")
  /\ CallRealtime("direct", "loop")
  /\ OnlyControl

PinWait ==
  /\ At("pin_busy")
  /\ UNCHANGED vars

ExecuteSync ==
  \/ Sync \/ SyncTest \/ SyncedSpindle \/ SyncedCoolant \/ DwellStep
  \/ DwellEnd \/ SyncedPause \/ SyncedEnd \/ SyncedPin \/ PinWait

-----------------------------------------------------------------------------
\* mc_probe_cycle after its synchronisation.

ProbeAbort ==
  /\ Synced({"probe"})
  /\ abort
  /\ Goto("loop")
  /\ OnlyControl

\* The probe is already triggered: an alarm.
ProbeFailInitial ==
  /\ Synced({"probe"})
  /\ ~abort
  /\ exec_alarm' = "PROBE_FAIL_INITIAL"
  /\ Realtime("loop")
  /\ UNCHANGED <<sysVars, exec_state, exec_accessory, rt_exec, motionVars,
                 outputVars, boundVars, historyVars>>

ProbeLine ==
  /\ Synced({"probe"})
  /\ ~abort
  /\ Goto("mc_line")
  /\ OnlyControl

ProbeStart ==
  /\ At("probe_start")
  /\ probe_state' = "ACTIVE"
  /\ SetExec({"CYCLE_START"})
  /\ Realtime("probe_wait")
  /\ UNCHANGED <<sysVars, plan, segs, stepping, isr_copy, outputVars,
                 boundVars, historyVars>>

ProbeWait ==
  /\ At("probe_wait")
  /\ abort \/ state # "IDLE"
  /\ IF abort THEN Goto("loop") ELSE Realtime("probe_wait")
  /\ OnlyControl

\* The probe was not reached: an alarm, unless the probing word asks for none.
ProbeDone ==
  /\ At("probe_wait")
  /\ ~abort /\ state = "IDLE"
  /\ \/ /\ probe_state = "ACTIVE"
        /\ exec_alarm' = "PROBE_FAIL_CONTACT"
     \/ UNCHANGED exec_alarm
  /\ probe_state' = "OFF"
  /\ Realtime("probe_end")
  /\ UNCHANGED <<sysVars, exec_state, exec_accessory, rt_exec, plan, segs,
                 stepping, isr_copy, outputVars, boundVars, historyVars>>

\* Mutant: the rest of the probing motion stays buffered.
ProbeEnd_Kept ==
  /\ At("probe_end")
  /\ Goto("loop")
  /\ OnlyControl

ProbeEnd ==
  /\ At("probe_end")
  /\ ResetBuffers
  /\ Goto("loop")
  /\ UNCHANGED <<sysVars, flagVars, probe_state, isr_copy, outputVars,
                 boundVars, historyVars>>

ExecuteProbe ==
  \/ ProbeAbort \/ ProbeFailInitial \/ ProbeLine
  \/ ProbeStart \/ ProbeWait \/ ProbeDone \/ ProbeEnd

-----------------------------------------------------------------------------

\* Every step the main program takes without being sent anything.
Main ==
  \/ Boot \/ LoopIdle \/ LoopEnd
  \/ ExecuteLine \/ ExecuteMcLine \/ JogStart \/ JogWake
  \/ ExecuteSync \/ ExecuteProbe
  \/ ExecRtSystem \/ ExecRtSuspend
=============================================================================
