------------------------------- MODULE Homing -------------------------------
(***************************************************************************)
(* The homing cycle: `$H' (system.c), mc_homing_cycle (motion_control.c) and *)
(* limits_go_home (limits.c, the variant for this board), which runs its    *)
(* motions past the realtime protocol of RtSystem and watches flags, limit  *)
(* switches and the stepper interrupt by itself.                            *)
(*                                                                         *)
(* An axis is at `distance' steps before the point where its switch engages. *)
(* It approaches at the seek rate, pulls off, approaches at the feed rate    *)
(* and pulls off again.                                                     *)
(***************************************************************************)
EXTENDS Integers, Sequences, FiniteSets

CONSTANTS
  Cycles,             \* the axes in the order of HOMING_CYCLE_0 and so on
  homing_dir_mask,    \* axes whose switch is at their lower end
  Travel,             \* max_travel, in steps
  Pulloff,            \* homing_pulloff, in steps
  SEARCH_TRAVEL, LOCATE_SCALAR,   \* search distances of the two approaches
  N_HOMING_LOCATE_CYCLE,
  HardStop,           \* steps an axis can go on past its switch
  Commands,           \* lines the host sends
  Inputs,             \* realtime inputs while homing
  MaxLines, MaxInputs \* bounds of a run

Axes == {Cycles[i] : i \in DOMAIN Cycles}

ASSUME HomingAssumption ==
  /\ Cycles \in Seq(Axes) /\ Cycles # <<>>
  /\ \A i, j \in DOMAIN Cycles : Cycles[i] = Cycles[j] => i = j
  /\ homing_dir_mask \subseteq Axes
  /\ Travel \in Nat /\ SEARCH_TRAVEL \in Nat /\ HardStop \in Nat
  /\ Pulloff \in Nat /\ LOCATE_SCALAR \in Nat /\ N_HOMING_LOCATE_CYCLE \in Nat
  /\ Commands \subseteq {"$H", "$HX", "$X", "motion"}
  /\ Inputs \subseteq {"reset", "door", "hold"}
  /\ MaxLines \in Nat /\ MaxInputs \in Nat

\* The switch is located at least once at the feed rate (config.h:128), and the
\* scalar above 1 lets each approach go past it (limits.c:30).
ASSUME LocateAssumption ==
  N_HOMING_LOCATE_CYCLE > 0 /\ LOCATE_SCALAR * Pulloff > Pulloff + 1

Alarms == {"HOMING_FAIL_RESET", "HOMING_FAIL_DOOR", "HOMING_FAIL_PULLOFF",
           "HOMING_FAIL_APPROACH"}

VARIABLES
  \* the machine
  distance,      \* axis -> steps to its switch, below zero past it
  switches,      \* axis -> "works", "broken" or "stuck"
  stepping,      \* the stepper interrupt runs
  steps_left,    \* of the motion it executes
  \* what the interrupts and the main program share
  state, abort,
  exec_state, exec_alarm,
  sys_motion,        \* STEP_CONTROL_EXECUTE_SYS_MOTION
  homing_axis_lock,  \* axis -> it may move
  sys_position,      \* axis -> position in steps
  \* limits_go_home
  pc, cycle,     \* where the main program is, and in which homing cycle
  n_cycle, approach,
  polled,        \* the limits were read since the last step
  \* the rest of the main program, and history
  queued,        \* a motion is planned and not executed
  homed,         \* axes whose position is taken for known
  unlocked,      \* by $X, since the last $H
  lines, inputs

machineVars == <<distance, switches>>
motionVars == <<stepping, steps_left>>
flagVars == <<exec_state, exec_alarm>>
passVars == <<cycle, n_cycle, approach>>
countVars == <<lines, inputs>>
vars == <<machineVars, motionVars, state, abort, flagVars, sys_motion, homing_axis_lock,
          sys_position, pc, passVars, polled, queued, homed, unlocked, countVars>>

\* Homing is enabled, so the machine comes up locked.
Init ==
  /\ distance \in [Axes -> 1 .. Travel]
  /\ switches \in [Axes -> {"works", "broken", "stuck"}]
  /\ stepping = FALSE /\ steps_left = 0
  /\ state = "ALARM" /\ abort = FALSE
  /\ exec_state = {} /\ exec_alarm = "none"
  /\ sys_motion = FALSE
  /\ homing_axis_lock = [a \in Axes |-> FALSE]
  /\ sys_position = [a \in Axes |-> 0]
  /\ pc = "loop" /\ cycle = 1 /\ n_cycle = 0 /\ approach = TRUE
  /\ polled = FALSE /\ queued = FALSE
  /\ homed = {} /\ unlocked = FALSE
  /\ lines = 0 /\ inputs = 0

-----------------------------------------------------------------------------
\* limits_get_state
Engaged(a) ==
  \/ switches[a] = "stuck"
  \/ switches[a] = "works" /\ distance[a] <= 0

Axis == Cycles[cycle]

\* Towards its switch an axis counts up, or down with its bit in the mask.
Sign(a) == IF a \in homing_dir_mask THEN -1 ELSE 1

\* The machine position homing gives an axis: machine space is negative.
SetPosition(a) ==
  IF a \in homing_dir_mask THEN Pulloff - Travel ELSE -Pulloff

-----------------------------------------------------------------------------
\* Interrupts

\* The approaches behind the first run at the feed rate.
Slow == approach /\ n_cycle < 2 * N_HOMING_LOCATE_CYCLE + 1

\* TIMER1_COMPA: the position counts whether or not the lock lets the pulse
\* through.  At the feed rate the limits are read more often than a step is
\* made: the loop takes less time than a step.
Step ==
  /\ stepping /\ steps_left > 0
  /\ Slow /\ pc \in {"poll", "check", "stop"} => polled
  /\ steps_left' = steps_left - 1
  /\ LET forward == IF approach THEN 1 ELSE -1
         moves == state # "HOMING" \/ homing_axis_lock[Axis]
         free == forward = 1 => distance[Axis] > -HardStop
     IN  /\ sys_position' = [sys_position EXCEPT ![Axis] = @ + forward * Sign(Axis)]
         /\ distance' = [distance EXCEPT ![Axis] =
              IF moves /\ free THEN @ - forward ELSE @]
  /\ polled' = FALSE
  /\ UNCHANGED <<switches, stepping, state, abort, flagVars, sys_motion, homing_axis_lock,
                 pc, passVars, queued, homed, unlocked, countVars>>

\* The motion is at its end.
StepperStops ==
  /\ stepping /\ steps_left = 0
  /\ stepping' = FALSE
  /\ exec_state' = exec_state \cup {"CYCLE_STOP"}
  /\ UNCHANGED <<machineVars, steps_left, state, abort, exec_alarm, sys_motion,
                 homing_axis_lock, sys_position, pc, passVars, polled, queued, homed,
                 unlocked, countVars>>

\* An alarm that homing has raised already stays.
ResetAlarm(alarm) ==
  CASE state = "HOMING" /\ alarm = "none" -> "HOMING_FAIL_RESET"
    [] state = "HOMING" /\ alarm # "none" -> alarm
    [] state # "HOMING" -> "ABORT_CYCLE"

\* mc_reset: does nothing once a reset is pending.
mc_reset ==
  IF "RESET" \in exec_state
  THEN UNCHANGED <<flagVars, stepping>>
  ELSE /\ exec_state' = exec_state \cup {"RESET"}
       /\ IF state = "HOMING" \/ sys_motion
          THEN stepping' = FALSE /\ exec_alarm' = ResetAlarm(exec_alarm)
          ELSE UNCHANGED <<stepping, exec_alarm>>

\* Doors and holds are looked at while the machine homes; for the main loop,
\* Grbl does that.
Receive(input) ==
  /\ inputs < MaxInputs /\ inputs' = inputs + 1
  /\ \/ /\ input = "reset" /\ mc_reset
     \/ /\ input \in {"door", "hold"}
        /\ pc \notin {"loop", "loop_snap", "suspended", "finish", "main"}
        /\ exec_state' = exec_state \cup {IF input = "door" THEN "SAFETY_DOOR" ELSE "FEED_HOLD"}
        /\ UNCHANGED <<exec_alarm, stepping>>
  /\ UNCHANGED <<machineVars, steps_left, state, abort, sys_motion, homing_axis_lock,
                 sys_position, pc, passVars, polled, queued, homed, unlocked, lines>>

-----------------------------------------------------------------------------
\* The main loop and its lines.

Line(command) ==
  /\ pc = "loop" /\ exec_state = {} /\ ~abort
  /\ lines < MaxLines /\ lines' = lines + 1
  /\ command \in Commands
  /\ UNCHANGED <<machineVars, motionVars, abort, flagVars, sys_motion, homing_axis_lock,
                 sys_position, n_cycle, approach, polled, homed, inputs>>

\* $H begins homing; the state is set before the rest of the line is looked at.
HomeLine(command) ==
  /\ command \in {"$H", "$HX"} /\ Line(command)
  /\ state \in {"IDLE", "ALARM"}
  /\ state' = "HOMING"
  /\ pc' = IF command = "$H" THEN "home" ELSE "loop"
  /\ cycle' = 1
  /\ unlocked' = IF command = "$H" THEN FALSE ELSE unlocked
  /\ UNCHANGED queued

UnlockLine(command) ==
  /\ command = "$X" /\ Line(command) /\ state = "ALARM"
  /\ state' = "IDLE" /\ unlocked' = TRUE
  /\ UNCHANGED <<pc, cycle, queued>>

\* A line of g-code is refused only in an alarm.  Its motion is planned; that
\* it starts at once is not said.
MotionLine(command) ==
  /\ command = "motion" /\ Line(command) /\ state # "ALARM"
  /\ queued' = TRUE
  /\ UNCHANGED <<state, pc, cycle, unlocked>>

\* With no more characters to read, the main loop starts what is planned: a
\* step away from a switch, from start to end.
RunQueued ==
  /\ pc = "loop" /\ exec_state = {} /\ state = "IDLE" /\ queued
  /\ queued' = FALSE
  /\ \E a \in Axes :
       /\ distance[a] < Travel
       /\ distance' = [distance EXCEPT ![a] = @ + 1]
       /\ sys_position' = [sys_position EXCEPT ![a] = @ - Sign(a)]
  /\ UNCHANGED <<switches, motionVars, state, abort, flagVars, sys_motion,
                 homing_axis_lock, pc, passVars, polled, homed, unlocked, countVars>>

-----------------------------------------------------------------------------
\* limits_go_home

Frame == UNCHANGED <<switches, unlocked, countVars, queued>>

\* Nothing is done for the cycles left when the one before was aborted.
EnterCycle ==
  /\ pc = "home"
  /\ IF abort
     THEN pc' = "end" /\ UNCHANGED <<n_cycle, approach>>
     ELSE /\ n_cycle' = 2 * N_HOMING_LOCATE_CYCLE + 1
          /\ approach' = TRUE
          /\ pc' = "pass"
  /\ Frame
  /\ UNCHANGED <<distance, motionVars, state, abort, flagVars, sys_motion, homing_axis_lock,
                 sys_position, cycle, polled, homed>>

\* How far a pass may go.
PassTravel ==
  IF ~approach THEN Pulloff
  ELSE IF Slow THEN LOCATE_SCALAR * Pulloff ELSE SEARCH_TRAVEL

\* The position is forgotten, the motion planned and its first segments
\* prepared.
BeginPass ==
  /\ pc = "pass"
  /\ sys_position' = [sys_position EXCEPT ![Axis] = 0]
  /\ homed' = homed \ {Axis}
  /\ homing_axis_lock' = [homing_axis_lock EXCEPT ![Axis] = TRUE]
  /\ steps_left' = PassTravel
  /\ sys_motion' = TRUE
  /\ pc' = "wake"
  /\ Frame
  /\ UNCHANGED <<distance, stepping, state, abort, flagVars, passVars, polled>>

\* st_wake_up
WakeUp ==
  /\ pc = "wake"
  /\ stepping' = TRUE /\ polled' = FALSE
  /\ pc' = "poll"
  /\ Frame
  /\ UNCHANGED <<distance, steps_left, state, abort, flagVars, sys_motion, homing_axis_lock,
                 sys_position, passVars, homed>>

\* The limits are read on approach, and lock the axis for good.
PollLimits ==
  /\ pc = "poll"
  /\ homing_axis_lock' =
       IF approach /\ Engaged(Axis)
       THEN [homing_axis_lock EXCEPT ![Axis] = FALSE] ELSE homing_axis_lock
  /\ polled' = TRUE
  /\ pc' = "check"
  /\ Frame
  /\ UNCHANGED <<distance, motionVars, state, abort, flagVars, sys_motion, sys_position,
                 passVars, homed>>

\* Mutant: the end of the motion is not waited for.
ExitFlags_NoStop == {"SAFETY_DOOR", "RESET"}

ExitFlags == {"SAFETY_DOOR", "RESET", "CYCLE_STOP"}

\* Mutant: a pull-off that leaves the switch engaged passes.
PulloffFailed_Never == FALSE

PulloffFailed == ~approach /\ Engaged(Axis)

NotFound == approach /\ "CYCLE_STOP" \in exec_state

\* The alarms are raised one over the other.
Failure ==
  CASE NotFound -> "HOMING_FAIL_APPROACH"
    [] PulloffFailed -> "HOMING_FAIL_PULLOFF"
    [] ~NotFound /\ ~PulloffFailed /\ "SAFETY_DOOR" \in exec_state -> "HOMING_FAIL_DOOR"
    [] ~NotFound /\ ~PulloffFailed /\ exec_state \cap {"SAFETY_DOOR", "RESET"} = {"RESET"} ->
         "HOMING_FAIL_RESET"
    [] OTHER -> exec_alarm

Located == approach /\ ~homing_axis_lock[Axis]

CheckFlags ==
  /\ pc = "check"
  /\ IF exec_state \cap ExitFlags = {}
     THEN pc' = (IF Located THEN "stop" ELSE "poll") /\ UNCHANGED flagVars
     ELSE /\ exec_alarm' = Failure
          /\ pc' = IF Failure = "none" THEN "stop" ELSE "fail"
          /\ exec_state' = IF Failure = "none" THEN exec_state \ {"CYCLE_STOP"} ELSE exec_state
  /\ Frame
  /\ UNCHANGED <<distance, motionVars, state, abort, sys_motion, homing_axis_lock,
                 sys_position, passVars, polled, homed>>

\* mc_reset and the realtime system, which enters the alarm and aborts.
Fail ==
  /\ pc = "fail" /\ mc_reset
  /\ pc' = "fail_rt"
  /\ Frame
  /\ UNCHANGED <<distance, steps_left, state, abort, sys_motion, homing_axis_lock,
                 sys_position, passVars, polled, homed>>

\* st_reset kills the motion, and the debounce delay begins.
StopPass ==
  /\ pc = "stop"
  /\ stepping' = FALSE /\ steps_left' = 0
  /\ pc' = "delay"
  /\ Frame
  /\ UNCHANGED <<distance, state, abort, flagVars, sys_motion, homing_axis_lock,
                 sys_position, passVars, polled, homed>>

EndDelay ==
  /\ pc = "delay"
  /\ approach' = ~approach
  /\ IF n_cycle > 0
     THEN n_cycle' = n_cycle - 1 /\ pc' = "pass"
     ELSE pc' = "set" /\ UNCHANGED n_cycle
  /\ Frame
  /\ UNCHANGED <<distance, motionVars, state, abort, flagVars, sys_motion, homing_axis_lock,
                 sys_position, cycle, polled, homed>>

\* The axis is where its switch released it last.
SetAxis ==
  /\ pc = "set"
  /\ sys_position' = [sys_position EXCEPT ![Axis] = SetPosition(Axis)]
  /\ homed' = homed \cup {Axis}
  /\ sys_motion' = FALSE
  /\ IF cycle < Len(Cycles)
     THEN cycle' = cycle + 1 /\ pc' = "home"
     ELSE pc' = "end" /\ UNCHANGED cycle
  /\ Frame
  /\ UNCHANGED <<distance, motionVars, state, abort, flagVars, homing_axis_lock, n_cycle,
                 approach, polled>>

-----------------------------------------------------------------------------
\* The realtime system, as it is called from limits_go_home, mc_homing_cycle
\* and the main loop: the alarm first, then a snapshot of the flags.

RtAlarm ==
  /\ \/ pc \in {"fail_rt", "end"}
     \/ pc = "loop" /\ exec_state # {}
  /\ IF exec_alarm = "none" THEN UNCHANGED state ELSE state' = "ALARM"
  /\ exec_alarm' = "none"
  /\ pc' = CASE pc = "fail_rt" -> "fail_snap"
             [] pc = "end" -> "end_snap"
             [] pc = "loop" -> "loop_snap"
  /\ Frame
  /\ UNCHANGED <<distance, motionVars, abort, exec_state, sys_motion, homing_axis_lock,
                 sys_position, passVars, polled, homed>>

\* A reset aborts, from the suspend loop too.
RtAbort ==
  /\ pc \in {"fail_snap", "end_snap", "loop_snap", "suspended"}
  /\ "RESET" \in exec_state
  /\ abort' = TRUE
  /\ pc' = IF pc = "fail_snap" THEN "home" ELSE "finish"
  /\ Frame
  /\ UNCHANGED <<distance, motionVars, state, flagVars, sys_motion, homing_axis_lock,
                 sys_position, passVars, polled, homed>>

\* A hold changes the state, for what that is worth.  A door waits in the
\* suspend loop for a hold to complete, which never comes: nothing moves.
RtHold ==
  /\ pc = "end_snap" /\ "RESET" \notin exec_state
  /\ IF "SAFETY_DOOR" \in exec_state
     THEN state' = "SAFETY_DOOR" /\ pc' = "suspended"
     ELSE /\ state' = IF "FEED_HOLD" \in exec_state THEN "HOLD" ELSE state
          /\ pc' = "finish"
  /\ exec_state' = {}
  /\ Frame
  /\ UNCHANGED <<distance, motionVars, abort, exec_alarm, sys_motion, homing_axis_lock,
                 sys_position, passVars, polled, homed>>

\* Mutant: homing that was aborted is taken for done.
Completed_Always == TRUE

Completed == ~abort

\* The end of the line.
Finish ==
  /\ pc = "finish"
  /\ state' = IF Completed THEN "IDLE" ELSE state
  /\ pc' = IF abort THEN "main" ELSE "loop"
  /\ Frame
  /\ UNCHANGED <<distance, motionVars, abort, flagVars, sys_motion, homing_axis_lock,
                 sys_position, passVars, polled, homed>>

\* main: the initialisation loop.
Initialise ==
  /\ pc = "main"
  /\ exec_state' = {} /\ exec_alarm' = "none" /\ abort' = FALSE
  /\ stepping' = FALSE /\ steps_left' = 0 /\ sys_motion' = FALSE
  /\ homing_axis_lock' = [a \in Axes |-> FALSE]
  /\ queued' = FALSE
  /\ state' = IF state = "ALARM" THEN "ALARM" ELSE "IDLE"
  /\ pc' = "loop"
  /\ UNCHANGED <<machineVars, sys_position, passVars, polled, homed, unlocked, countVars>>

MainStep ==
  \/ EnterCycle \/ BeginPass \/ WakeUp \/ PollLimits \/ CheckFlags \/ Fail
  \/ StopPass \/ EndDelay \/ SetAxis \/ RtAlarm \/ RtAbort \/ RtHold \/ Finish \/ Initialise

Interrupt == Step \/ StepperStops

HostLine ==
  \E command \in Commands :
    HomeLine(command) \/ UnlockLine(command) \/ MotionLine(command)

Next ==
  \/ MainStep \/ Interrupt \/ HostLine \/ RunQueued
  \/ \E input \in Inputs : Receive(input)

Spec == Init /\ [][Next]_vars

\* The main program and the stepper interrupt keep running.
FairSpec == Spec /\ WF_vars(MainStep) /\ WF_vars(Interrupt)

-----------------------------------------------------------------------------
\* Properties

\* What homing says of an axis is true: machine zero lies at its switch, or at
\* the far end of its travel, although the switch was overrun at the seek rate,
\* and whatever stops, doors and resets arrived in the middle
\* (limits.c:503-541).  Both switches that never engage and switches that never
\* release are noticed.
HomedPosition ==
  \A a \in homed :
    /\ switches[a] = "works"
    /\ sys_position[a] = IF a \in homing_dir_mask THEN distance[a] - Travel ELSE -distance[a]

\* A homing cycle that did not come to its end leaves the machine locked: a
\* machine that takes g-code has homed every axis, or was unlocked by the user
\* (main.c:73-75).
FailedHomingLocks ==
  pc = "loop" /\ state = "IDLE" => homed = Axes \/ unlocked

\* Homing comes to an end, with any switch, unless a door that opened during
\* the last delay holds it (limits.c:282-390).
HomingEnds == pc = "home" ~> pc \in {"loop", "suspended"}

-----------------------------------------------------------------------------
\* What the source's comments say and the code does not do.

\* "There should be no motions in the buffer and Grbl must be in an idle state
\* before executing the homing cycle. This prevents incorrect buffered plans
\* after homing." (motion_control.c:204-205)
HomingFromEmptyBuffer == pc = "home" => ~queued
=============================================================================
