-------------------------------- MODULE Grbl --------------------------------
(***************************************************************************)
(* The firmware's control core as a whole: the main program, the stepper   *)
(* interrupt and the interrupts that deliver realtime commands, over the   *)
(* shared state, and the properties that make it safe.                     *)
(***************************************************************************)
EXTENDS MainProgram

Environment ==
  \/ \E k \in LineKinds : ReadLine(k)
  \/ PinReached
  \/ \E c \in RtInputs : RtCommand(c)

Next == Main \/ StepperIsr \/ Environment

Spec == Init /\ [][Next]_vars

\* The main program and the stepper interrupt keep running, and a delay ends.
Fairness ==
  /\ WF_vars(Main)
  /\ WF_vars(StepperIsr)
  /\ SF_vars(DelayEnd)
  /\ SF_vars(DwellEnd)

FairSpec == Spec /\ Fairness

-----------------------------------------------------------------------------
\* Safety: motion.

\* A completed hold (protocol.c:281 and 392) is what permits a resume and the
\* de-energising of spindle and coolant.  It is reported only once the stepper
\* interrupt has shut down, however the hold, the end of the motion and the
\* next start interleave.
HoldCompleteMeansStopped ==
  "HOLD_COMPLETE" \in suspend /\ ~abort => ~stepping

\* The cycle stop flag stands for a stepper interrupt that has shut down
\* (stepper.c:444-447) and stays true of it until the protocol has handled it
\* (protocol.c:413): no cycle is started over an unhandled stop.
CycleStopMeansStopped ==
  "CYCLE_STOP" \in exec_state /\ ~abort => ~stepping

\* The interrupt that raises a reset has stopped the steppers when it returns:
\* mc_reset's test of sys.state and sys.step_control (motion_control.c:380)
\* recognises every motion, a hold's deceleration included.
ResetStopsMotion ==
  [][("RESET" \notin exec_state /\ "RESET" \in exec_state')
       => ~stepping' \/ abort]_vars

\* Of a jog that was cancelled nothing is left to run with a later motion
\* (protocol.c:396-401): once the cancel is over, by whatever door, hold, alarm,
\* start or sleep it came to its end, neither the planner nor the segment buffer
\* holds a jog motion until a new jog is planned.
JogContained ==
  ("CANCELLED" \in past /\ "JOG_CANCEL" \notin suspend /\ ~abort) =>
    /\ \A i \in 1 .. Len(plan) : plan[i].kind # "jog"
    /\ \A i \in 1 .. Len(segs) : segs[i].kind # "jog"

\* What is left of a probing motion when the probing cycle ends never runs as
\* part of something else (motion_control.c:301-303).
ProbeMotionContained ==
  /\ stepping /\ segs # <<>>
  /\ ~abort /\ "RESET" \notin exec_state
  => (Head(segs).kind = "probe" => cmd = "probe")

-----------------------------------------------------------------------------
\* Safety: states and outputs.

\* An alarm is left by $X alone, or exchanged for sleep (main.c:73-75,
\* protocol.c:333).
AlarmLatched ==
  [][(state = "ALARM" /\ state' # "ALARM")
       => state' = "SLEEP" \/ (pc = "line" /\ cmd = "unlock")]_vars

Repeated == "REPEATED" \in past

\* A held or door-stopped program is resumed only by a cycle start that a user
\* issued, or that a restore raised for one (protocol.c:341-342, 713-714 and
\* 745-746): every other automatic start leaves it stopped. One case is left
\* out, `Repeated'. A hold that comes as the restore ends blocks the relayed
\* start, but INITIATE_RESTORE stays up: the restore is run again and relays a
\* second start, which no user issued and which resumes the program.
ResumedByUser ==
  [][(state \in {"HOLD", "SAFETY_DOOR"} /\ state' = "CYCLE")
       => rt_user_start \/ Repeated]_vars

\* Behind an open door a completed retract leaves spindle and coolant off
\* until the restore begins (protocol.c:565-566), and sleep leaves them off
\* until the reset (protocol.c:634-637).
DeenergisedWhileStopped ==
  (/\ ~abort
   /\ \/ /\ state = "SAFETY_DOOR"
         /\ "RETRACT_COMPLETE" \in suspend
         /\ "INITIATE_RESTORE" \notin suspend
      \/ via = "sleep")
    => ~spindle /\ ~coolant

\* The initiation of a spindle stop overwrites the other stop flags
\* (protocol.c:726-731): a cycle start waiting for the spindle's restore
\* (protocol.c:362) must never meet it, or the start is lost. It holds of a
\* machine without doors and pins: a door's restore begun anew, whose delay takes
\* a start and then a hold, or a pin wait that resumes it, lets the two meet.
NoLostRestore ==
  ~({"INITIATE", "RESTORE_CYCLE"} \subseteq spindle_stop_ovr)

-----------------------------------------------------------------------------
\* Liveness.

\* A reset is eventually served: the machine is re-initialised (main.c:85).
ResetServed == "RESET" \in exec_state ~> pc = "init"

\* A hold comes to rest (protocol.c:392), whatever it interrupted.
HoldCompletes ==
  state = "HOLD" ~> ("HOLD_COMPLETE" \in suspend \/ state # "HOLD")

\* A cycle ends (protocol.c:402-411): the last stop is never lost.
CycleEnds == state = "CYCLE" ~> state # "CYCLE"

-----------------------------------------------------------------------------
\* What the source says and the code does not do.

\* "Delayed Tasks: Restart spindle and coolant, delay to power-up, then resume
\* cycle." (protocol.c:669): a motion stopped by the door is resumed with the
\* spindle its block was planned with.
RestartedOnResume ==
  [][(/\ state = "SAFETY_DOOR" /\ state' = "CYCLE"
      /\ "RESET" \notin exec_state)
       => spindle = Head(plan).spindle]_vars

-----------------------------------------------------------------------------
\* The inductive invariant behind the proved theorems, for a machine that is
\* sent no probing line (a failed probe breaks it).

\* The stepper interrupt runs, or its stop is not yet handled.
Moving == stepping \/ "CYCLE_STOP" \in exec_state

\* The states that own a motion.
Running ==
  \/ state \in {"CYCLE", "JOG"}
  \/ state \in {"HOLD", "SAFETY_DOOR", "SLEEP"} /\ "EXECUTE_HOLD" \in step_control

\* The alarm state is entered and the reset that aborts everything is next.
Doomed ==
  \/ pc = "rt_snap" /\ "RESET" \in exec_state
  \/ pc = "rt_critical"

ProbeFree ==
  /\ cmd # "probe"
  /\ pc \notin {"probe_start", "probe_wait", "probe_end"}
  /\ ret \notin {"probe_wait", "probe_end"}
  /\ probe_state = "OFF"
  /\ isr_copy = NoCopy
  /\ exec_alarm \notin {"PROBE_FAIL_INITIAL", "PROBE_FAIL_CONTACT"}

\* What realtime execution returns to agrees with the line.
ControlAgrees ==
  /\ via = "direct" => ret = "loop"
  /\ (\/ pc \in {"soft_wait", "soft_reset", "soft_alarm", "mc_line_rt"}
      \/ ret \in {"soft_wait", "mc_line_rt"})
       => cmd # "jog"

\* Motion, its owner and its end.
MotionOwned ==
  /\ ~(stepping /\ "CYCLE_STOP" \in exec_state)
  /\ Moving /\ ~Doomed => Running
  /\ "HOLD_COMPLETE" \in suspend => ~Moving

\* A motion about to be started finds nothing moving and nothing suspended.
StartsFromRest ==
  /\ pc = "rt_wake" =>
       state = "CYCLE" /\ suspend = {} /\ step_control = {} /\ ~Moving
  /\ pc = "jog_wake" => state = "JOG" /\ ~Moving
  /\ pc \in {"jog_start", "jog_wake", "mc_line_room"} => suspend = {}
  /\ pc = "mc_line" /\ cmd = "jog" => state \in {"IDLE", "JOG"}

\* The suspend flags agree with the state.
SuspendAgrees ==
  /\ (state \in {"CYCLE", "JOG"} /\ suspend \cap {"MOTION_CANCEL", "JOG_CANCEL"} # {})
       => "EXECUTE_HOLD" \in step_control
  /\ state = "SAFETY_DOOR"
       => suspend \cap {"SAFETY_DOOR_AJAR", "HOLD_COMPLETE"} # {}

\* The snapshot stays true of what the stages still to come do with it.
SnapshotAgrees ==
  /\ (pc \in {"rt_hold", "rt_start", "rt_wake", "rt_stop"} /\ "CYCLE_STOP" \in rt_exec)
       => "CYCLE_STOP" \in exec_state
  /\ pc = "rt_stop" => "CYCLE_STOP" \in rt_exec

\* An alarm that is not a soft limit comes with a reset; a soft limit finds the
\* steppers stopped, and is entered at once.
AlarmAgrees ==
  /\ exec_alarm \in {"ABORT_CYCLE", "HOMING_FAIL_RESET"} => "RESET" \in exec_state
  /\ exec_alarm = "SOFT_LIMIT" => pc \in {"rt_alarm", "rt_critical"}
  /\ exec_alarm = "SOFT_LIMIT" \/ pc \in {"soft_alarm", "rt_critical"} => ~stepping

\* A pending reset finds the steppers stopped, unless a start that was already
\* under way when it came has woken them again.
ResetAgrees ==
  /\ "RESET" \in exec_state /\ stepping /\ ~Doomed => state \in {"CYCLE", "JOG"}
  /\ pc \in {"rt_hold", "rt_start", "rt_wake"} /\ "RESET" \in exec_state => ~stepping
  /\ pc = "soft_reset" => state \notin {"CYCLE", "JOG"}

\* Once a reset has set sys.abort it stays pending, and all that is left is to
\* return to main: no stage of the realtime protocol is entered again.
AbortAgrees ==
  abort =>
    /\ "RESET" \in exec_state
    /\ exec_alarm # "SOFT_LIMIT"
    /\ pc \notin {"rt_critical", "rt_hold", "rt_start", "rt_wake", "rt_stop",
                  "rt_over", "mc_line", "soft_reset", "soft_alarm"}

Safe ==
  /\ MotionOwned /\ StartsFromRest /\ SuspendAgrees /\ SnapshotAgrees
  /\ AlarmAgrees /\ ResetAgrees

IInv ==
  /\ TypeOK /\ ProbeFree /\ ControlAgrees /\ AbortAgrees
  /\ abort \/ Safe

-----------------------------------------------------------------------------
\* The inductive invariants behind ProbeMotionContained and JogContained, for
\* every machine.

\* Places reached inside protocol_exec_rt_system and protocol_exec_rt_suspend.
ServingPlaces ==
  {"rt_alarm", "rt_critical", "rt_snap", "rt_hold", "rt_start", "rt_wake",
   "rt_stop", "rt_over",
   "suspend_enter", "restore_spindle", "restore_coolant", "restore_done"}
    \cup NestedCallers

\* The probing cycle is past its motion's planning.
Probing ==
  /\ cmd = "probe"
  /\ \/ pc \in {"probe_start", "probe_wait", "probe_end"}
     \/ pc \in ServingPlaces /\ ret \in {"probe_wait", "probe_end"}

PlainSegment == [kind : AllLines \ {"probe"}, spindle : BOOLEAN]

NoProbeBuffered == plan \in Seq(PlainSegment) /\ segs \in Seq(PlainSegment)

\* A segment of a probing motion is buffered only while its line probes.
ProbeBuffered == abort \/ Probing \/ NoProbeBuffered

NonJogSegment == [kind : AllLines \ {"jog"}, spindle : BOOLEAN]

NoJogBuffered == plan \in Seq(NonJogSegment) /\ segs \in Seq(NonJogSegment)

\* Only a pin wait's return leaves the suspend routine with a flag up, and
\* then the main loop takes it up again.
SuspendServed == suspend = {} \/ pc \in ServingPlaces \cup {"loop"}

\* A cancelled jog stays one until its stop: no start is allowed meanwhile.
CancelAgrees == "JOG_CANCEL" \in suspend => state \in {"JOG", "ALARM", "SLEEP"}

JogInv ==
  /\ via = "direct" => ret = "loop"
  /\ \/ abort
     \/ /\ SuspendServed /\ CancelAgrees
        /\ "CANCELLED" \in past => "JOG_CANCEL" \in suspend \/ NoJogBuffered

-----------------------------------------------------------------------------
\* The inductive invariant behind ResumedByUser, for a machine that is sent no
\* pin wait (M226 leaves a suspend unserved, M227 a program running on).

PinFree ==
  /\ cmd \notin {"pin_async", "pin_sync"}
  /\ pc # "pin_busy" /\ ret # "pin_busy" /\ via # "direct"

\* The probe monitor writes back no flag that was not pending.
CopyAgrees == isr_copy = NoCopy \/ isr_copy \subseteq exec_state

\* AbortAgrees for a machine that may probe: the probe monitor keeps the reset.
AbortLasts ==
  /\ exec_alarm = "SOFT_LIMIT" => pc \in {"rt_alarm", "rt_critical"}
  /\ abort =>
       /\ "RESET" \in exec_state
       /\ isr_copy = NoCopy \/ "RESET" \in isr_copy
       /\ exec_alarm # "SOFT_LIMIT"
       /\ pc \notin {"rt_critical", "rt_hold", "rt_start", "rt_wake", "rt_stop",
                     "rt_over", "mc_line", "soft_reset", "soft_alarm"}

RestorePlaces == {"restore_spindle", "spindle_delay", "restore_coolant",
                  "coolant_delay", "restore_done"}

\* The restore of a door is under way, or serves a realtime command.
UnderRestore ==
  pc \in RestorePlaces \/ (pc \in ServingPlaces /\ via \in RestorePlaces)

\* A cycle start is pending that no user issued, nor a restore for one.
AutoStart == "CYCLE_START" \in exec_state /\ ~user_start

\* An automatic start finds nothing suspended, but for a repeated restore's.
FindsNothing == suspend = {} \/ Repeated

\* The main program stays in the suspend routine while a suspend flag is up,
\* so that an automatic start finds nothing suspended; and the same pass of
\* protocol_exec_rt_system that takes it up drops it again.
StartsAutomatically ==
  /\ suspend # {} => pc \in ServingPlaces
  /\ AutoStart =>
       \/ pc \in {"rt_alarm", "rt_critical", "rt_snap"} /\ FindsNothing
       \/ pc = "rt_hold" /\ FindsNothing /\ "CYCLE_START" \in rt_exec
       \/ pc \in {"rt_start", "rt_wake"}

\* A snapshot's automatic start stays one: whatever suspends the program in
\* the hold stage of the same snapshot blocks it.
StartTaken ==
  /\ pc = "rt_hold" => rt_exec \cap HoldFlags # {}
  /\ pc = "rt_hold" /\ "CYCLE_START" \in rt_exec /\ ~rt_user_start
       => FindsNothing
  /\ pc = "rt_start" /\ ~rt_user_start
       => FindsNothing \/ StartBlocked \/ state = "SLEEP"

\* A restore relays the start that asked for it: each flag that asks for one was
\* raised by a user's start that has not been relayed yet, unless the restore it
\* asks for is complete already, or is being repeated.
Relayed ==
  /\ "RESTORE_CYCLE" \in spindle_stop_ovr
       => "RESTORE_CYCLE" \in past \/ Repeated
  /\ "INITIATE_RESTORE" \in suspend
       => \/ "INITIATE_RESTORE" \in past \/ Repeated
          \/ "RESTORE_COMPLETE" \in suspend
  /\ UnderRestore => "INITIATE_RESTORE" \in past \/ Repeated

UserInv ==
  /\ PinFree /\ CopyAgrees /\ AbortLasts
  /\ abort \/ (StartsAutomatically /\ StartTaken /\ Relayed)

-----------------------------------------------------------------------------
\* The inductive invariant behind DeenergisedWhileStopped, together with IInv.

\* A completed retract stays with a completed hold, and the restore runs only
\* once it has been initiated.
RetractAgrees ==
  "RETRACT_COMPLETE" \in suspend =>
    /\ "HOLD_COMPLETE" \in suspend
    /\ state \in {"SAFETY_DOOR", "SLEEP", "ALARM"}
    /\ state = "SAFETY_DOOR" /\ "INITIATE_RESTORE" \notin suspend
         => ~UnderRestore /\ ~spindle /\ ~coolant

\* Sleep is left by a reset alone: through its alarm, or through sys.abort to
\* the main loop.
SleepAgrees ==
  /\ pc = "sleep" => via = "sleep"
  /\ via = "sleep" =>
       /\ ~spindle /\ ~coolant /\ ~stepping /\ exec_alarm # "SOFT_LIMIT"
       /\ \/ pc = "loop" /\ suspend = {}
          \/ /\ state = "SLEEP" /\ "HOLD_COMPLETE" \in suspend
             /\ pc \in ServingPlaces \ ({"rt_critical"} \cup RestorePlaces)
          \/ state = "ALARM" /\ pc = "rt_snap" /\ "RESET" \in exec_state

EnergyInv == abort \/ (SuspendServed /\ RetractAgrees /\ SleepAgrees)

-----------------------------------------------------------------------------
\* The inductive invariant behind NoLostRestore, together with those above, for
\* a machine that is sent no probing line and no pin wait and has no door.

DoorFree ==
  /\ "SAFETY_DOOR" \notin exec_state \cup rt_exec
  /\ state # "SAFETY_DOOR" /\ "SAFETY_DOOR_AJAR" \notin suspend
  /\ {pc, via} \cap RestorePlaces = {}

\* A stop of the spindle that was initiated in a completed hold is carried out
\* before a cycle start is looked at again: the hold completes behind that stage,
\* or in one of an idle machine, which blocks the start of its own snapshot.
StopInitiated ==
  (state = "HOLD" /\ "HOLD_COMPLETE" \in suspend /\ "INITIATE" \in spindle_stop_ovr)
    => \/ pc \in {"rt_stop", "rt_over", "suspend_enter", "suspend"}
       \/ pc = "rt_start" /\ StartBlocked

RestoreInv == NoLostRestore /\ DoorFree /\ (abort \/ StopInitiated)
=============================================================================
